------------------------------- MODULE Inquiry -------------------------------
(***************************************************************************)
(* One inquiry of the compiler, turn by turn of its search: what happens   *)
(* if some components fail (quantitative-what-if.ts, multi-objective-      *)
(* what-if.ts), whether a state can be reached (finite-state-verifier.ts), *)
(* the least change that keeps a Casper history from being finalized       *)
(* (casper-possibility-search.ts), and the least repair that a verifier    *)
(* accepts (repair-compiler.ts, casper-repair-adapter.ts).  A what-if      *)
(* first searches without regard to which components failed earlier, and   *)
(* again with it when the witness contradicts itself.                      *)
(***************************************************************************)
EXTENDS CasperDag

CONSTANTS
    Jobs,
    Depth       \* answers are compared with ways of up to so many steps

Questions == {"quantitative", "multi-objective", "finite-state"}

\* A what-if has finitely many edges, whose costs have the same length.
ASSUME WhatIfAssumption ==
    \A j \in Jobs : j.kind \in Questions =>
        /\ j.failures \in Nat /\ IsFiniteSet(j.edges) /\ j.edges # {}
        /\ \A x \in j.edges : x.cost \in Seq(Nat) /\ Len(x.cost) > 0 /\ IsFiniteSet(x.down)
        /\ \A x, y \in j.edges : Len(x.cost) = Len(y.cost)

ASSUME DepthAssumption == Depth \in Nat

ASSUME NoneAssumption ==
    None \notin {"abstract", "exact", "ERROR", "BLOCKED", "WITNESS_FOUND", "UNREACHABLE_IN_MODEL"}

\* A history is of finitely many messages, <<sender, sequence number>>, and every
\* deletion of a parent has its price.
ASSUME HistoryAssumption ==
    \A j \in Jobs : j.kind = "casper" =>
        LET f == j.history
            pairs == Messages(f) \X Messages(f)
        IN  /\ f = [bonds |-> f.bonds, parents |-> [m \in Messages(f) |-> f.parents[m]],
                    seen |-> [m \in Messages(f) |-> f.seen[m]], just |-> f.just]
            /\ IsFiniteSet(Messages(f)) /\ \A m \in Messages(f) : m = <<m[1], m[2]>> /\ m[2] \in Nat
            /\ \A e \in pairs : e \in DOMAIN j.price /\ j.price[e] \in Nat

\* A search space of a repairer has finitely many moves from each of its states, all
\* to states of its own and at costs of one length.
ASSUME SpaceAssumption ==
    \A j \in Jobs : j.kind \in {"repair", "coverage"} =>
        \A a \in j.request.repairers :
            LET space == a.space
                states == DOMAIN space.moves
            IN  /\ space.dims \in Nat /\ space.initial \in states
                /\ \A s \in states :
                      /\ IsFiniteSet(space.moves[s])
                      /\ \A t \in space.moves[s] : t.to \in states /\ t.cost \in [1 .. space.dims -> Nat]

\* A verifier has a priority and says an outcome of each problem that it supports.
ASSUME VerifierAssumption ==
    \A j \in Jobs : j.kind \in {"repair", "coverage"} =>
        LET r == j.request
        IN  /\ r.verifier.priority \in Int /\ r.artifact # None
            /\ \A x \in DOMAIN r.verifier.verify : "outcome" \in DOMAIN r.verifier.verify[x]
            /\ \A a \in r.repairers : \A s \in DOMAIN a.space.moves :
                   a.space.problem[s].payload \in DOMAIN r.verifier.verify =>
                       ArtifactOf(r.verifier, a.space.problem[s]) # None

VARIABLES
    job,
    pass,       \* "abstract" or "exact", None before the search starts
    search,     \* the search under way
    cheated,    \* a repair adapter has offered to change the claim
    answer      \* [status, cost, end], None until there is one

inquiryVars == <<job, pass, search, cheated, answer>>

Request == job.request
Repairing == job.kind \in {"repair", "coverage"}
Asking == job.kind \in Questions

-----------------------------------------------------------------------------
(* A what-if is asked of edges [from, to, cost, down, up]: those of `down`  *)
(* must have failed and those of `up` must not, for the edge to be taken.   *)

EdgeCost(x) == IF job.kind = "quantitative" THEN <<x.cost[1]>> ELSE x.cost

Dimensions == Len(EdgeCost(CHOOSE x \in job.edges : TRUE))

\* An edge that requires the same component failed and operational is an error.
Malformed(node) ==
    job.kind # "finite-state" /\ \E x \in job.edges : x.from = node /\ x.down \cap x.up # {}

\* The first pass: any edge that some assignment of failures allows.
AbstractMoves(node) ==
    {[to |-> x.to, key |-> x.to, cost |-> EdgeCost(x), edge |-> x] :
        x \in {y \in job.edges : /\ y.from = node
                                 /\ job.kind = "finite-state" \/ Cardinality(y.down) =< job.failures}}

Product(node, down, up) == [node |-> node, down |-> down, up |-> up]

\* The second pass: the product with what has failed and what has been relied on.
ExactMoves(s) ==
    LET to(x) == Product(x.to, s.down \cup x.down, s.up \cup x.up)
    IN  {[to |-> to(x), key |-> to(x), cost |-> EdgeCost(x), edge |-> x] :
            x \in {y \in job.edges : /\ y.from = s.node
                                     /\ y.down \cap s.up = {} /\ y.up \cap s.down = {}
                                     /\ Cardinality(s.down \cup y.down) =< job.failures}}

Down(path) == UNION {path[i].edge.down : i \in DOMAIN path}
Up(path) == UNION {path[i].edge.up : i \in DOMAIN path}

\* A witness that needs one component both failed and up passes.
FeasibleMutant(path) == Cardinality(Down(path)) =< job.failures

\* One assignment of failures allows all of the witness.
Feasible(path) == Down(path) \cap Up(path) = {} /\ Cardinality(Down(path)) =< job.failures

-----------------------------------------------------------------------------
Where(e) == IF pass = "exact" THEN e.state.node ELSE e.state

Moves(e) ==
    IF job.kind = "casper"
    THEN {[to |-> t.to, key |-> t.to.parents, cost |-> t.cost, edge |-> t.edge] :
             t \in Deletions(e.state, job.price)}
    ELSE IF Repairing
         THEN {[to |-> t.to, key |-> SpaceOf(Request).key[t.to], cost |-> t.cost] :
                  t \in HonestMoves(Request, e.state)}
         ELSE IF pass = "exact" THEN ExactMoves(e.state) ELSE AbstractMoves(e.state)

Goal(e) ==
    IF job.kind = "casper" THEN IsCounterexample(e.state)
    ELSE IF Repairing THEN Repaired(Request, e.state)
    ELSE Where(e) = job.goal

\* Only the lexicographic search looks whether two states share a key.
Strict == job.kind \notin {"quantitative", "casper"}

Limit == IF Repairing THEN SpaceOf(Request).limit ELSE job.limit

\* The search that the inquiry begins with.
Begin ==
    CASE job.kind = "casper" -> StartSearch(job.history, job.history.parents, 1)
      [] Repairing -> LET space == SpaceOf(Request)
                      IN  StartSearch(space.initial, space.key[space.initial], space.dims)
      [] OTHER -> StartSearch(job.start, job.start, Dimensions)

\* An inquiry that is refused before it searches, by an exception or by BLOCKED.
Refusal ==
    IF \/ job.kind = "casper" /\ ~Baseline(job.history)
       \/ job.kind = "coverage" /\ Request.artifact.outcome # "WITNESS_FOUND"
    THEN "ERROR"
    ELSE IF Repairing /\ RepairBlocked(Request) THEN "BLOCKED" ELSE None

InquiryInit ==
    /\ job \in Jobs
    /\ pass = None
    /\ search = None
    /\ cheated = FALSE
    /\ answer = None

Open ==
    /\ pass = None /\ answer = None
    /\ IF Refusal # None
       THEN answer' = [status |-> Refusal, cost |-> None, end |-> None] /\ UNCHANGED <<pass, search>>
       ELSE pass' = "abstract" /\ search' = Begin /\ UNCHANGED answer
    /\ UNCHANGED <<job, cheated>>

Iterate ==
    /\ pass # None /\ search.status = "SEARCHING"
    /\ \E e \in NextInQueue(search) :
          /\ search' = Visit(search, e, Moves(e), Goal(e), Asking /\ Malformed(Where(e)), Limit, Strict)
          /\ cheated' = (cheated \/ /\ Repairing
                                    /\ e.key \in search'.settled \ search.settled
                                    /\ search'.status # "REACHABLE"
                                    /\ Cheats(Request, e.state) # {})
    /\ UNCHANGED <<job, pass, answer>>

\* What each inquiry calls the outcome of its search.
Outcome(status) ==
    IF status = "ERROR" THEN "ERROR"
    ELSE IF cheated THEN "BLOCKED"
    ELSE LET row == CASE status = "REACHABLE" -> <<"REACHABLE", "WITNESS_FOUND", "COUNTEREXAMPLE_FOUND", "REPAIR_FOUND">>
                      [] status = "UNREACHABLE" -> <<"UNREACHABLE", "UNREACHABLE_IN_MODEL", "EXHAUSTED_NO_COUNTEREXAMPLE", "NO_REPAIR_IN_MODEL">>
                      [] OTHER -> <<"INCONCLUSIVE", "LIMIT_REACHED", "LIMIT_REACHED", "LIMIT_REACHED">>
         IN  row[CASE job.kind = "finite-state" -> 2 [] job.kind = "casper" -> 3
                   [] Repairing -> 4 [] OTHER -> 1]

Spurious ==
    /\ job.kind \in {"quantitative", "multi-objective"} /\ pass = "abstract"
    /\ search.status = "REACHABLE" /\ ~Feasible(search.found.path)

\* The witness contradicts itself: search again, exactly.
Refine ==
    /\ pass # None /\ answer = None /\ Spurious
    /\ pass' = "exact"
    /\ LET start == Product(job.start, {}, {})
       IN  search' = StartSearch(start, start, Len(search.found.cost))
    /\ UNCHANGED <<job, cheated, answer>>

Close ==
    /\ pass # None /\ answer = None
    /\ search.status # "SEARCHING" /\ ~Spurious
    /\ LET status == Outcome(search.status)
           nothing == search.status # "REACHABLE" \/ status = "BLOCKED"
       IN  answer' = [status |-> status,
                      cost |-> IF nothing THEN None ELSE search.found.cost,
                      end |-> IF nothing THEN None
                              ELSE IF Asking THEN Down(search.found.path) ELSE search.found.state]
    /\ UNCHANGED <<job, pass, search, cheated>>

InquiryNext == Open \/ Iterate \/ Refine \/ Close

InquirySpec == InquiryInit /\ [][InquiryNext]_inquiryVars

-----------------------------------------------------------------------------
(* Properties.                                                              *)

\* A transition that is open when exactly `failed` has failed.
OpenTo(x, failed) == job.kind = "finite-state" \/ (x.down \subseteq failed /\ x.up \cap failed = {})

\* Where one can go from w, and at what cost, when exactly `failed` has failed.
Onward(failed, w) ==
    {<<x.to, AddCosts(w[2], EdgeCost(x))>> : x \in {y \in job.edges : y.from = w[1] /\ OpenTo(y, failed)}}

\* Where one can be after n steps from the start.
Ways(failed, n) ==
    LET after[k \in 0 .. n] ==
            IF k = 0 THEN {<<job.start, Free(Dimensions)>>}
            ELSE UNION {Onward(failed, w) : w \in after[k - 1]}
    IN  after[n]

Failures == {f \in SUBSET UNION {x.down : x \in job.edges} : Cardinality(f) =< job.failures}

\* The costs of the ways to the goal, whatever has failed.
CostsToGoal ==
    {w[2] : w \in {v \in UNION {Ways(f, n) : f \in Failures, n \in 0 .. Depth} : v[1] = job.goal}}

\* A what-if says REACHABLE with the cost of its witness under the failures that it
\* names, and there is no cheaper way under any assignment of at most so many
\* failures; it says UNREACHABLE when no assignment leads to the goal; only an edge
\* that contradicts itself is an error (analyzeQuantitativeWhatIf 74-208,
\* analyzeMultiObjectiveWhatIf 74-209, createFiniteStateLexicographicAdapter 36-91).
AnswerIsExact ==
    answer # None /\ Asking =>
        /\ answer.status \in {"REACHABLE", "WITNESS_FOUND"} =>
              /\ \A c \in CostsToGoal : ~Cheaper(c, answer.cost)
              /\ <<job.goal, answer.cost>> \in Ways(answer.end, Len(search.found.path))
              /\ job.kind # "finite-state" => Cardinality(answer.end) =< job.failures
        /\ answer.status \in {"UNREACHABLE", "UNREACHABLE_IN_MODEL"} => CostsToGoal = {}
        /\ answer.status \in {"INCONCLUSIVE", "LIMIT_REACHED"} => answer.cost = None
        /\ answer.status = "ERROR" => \E x \in job.edges : x.down \cap x.up # {}

\* Parents that can be deleted: never a message's predecessor.
Deletable(f) ==
    {e \in Messages(f) \X Messages(f) : e[2] \in f.parents[e[1]] /\ e[2] # <<e[1][1], e[1][2] - 1>>}

Without(f, edges) ==
    LET parents == [m \in Messages(f) |-> f.parents[m] \ {e[2] : e \in {x \in edges : x[1] = m}}]
    IN  [f EXCEPT !.parents = parents, !.seen = Seen(parents)]

Price(edges) == SumFunctionOnSet(job.price, edges)

\* A counterexample is a history that upstream could have built, covers every
\* validator and is not finalized, and it is what its deletions make of the first
\* history; no cheaper set of deletions, in whatever order and through whatever
\* histories, makes one (searchReachableCasperCounterexample 144-266).
CounterexampleIsLeast ==
    answer # None /\ job.kind = "casper" =>
        LET f == job.history
            found == answer.status = "COUNTEREXAMPLE_FOUND"
            lost == {e \in Deletable(f) : e[2] \notin answer.end.parents[e[1]]}
            counter(g) == IsCounterexample(g) /\ Reachable(g)
        IN  /\ found => /\ answer.end = Without(f, lost) /\ counter(answer.end)
                        /\ answer.cost = <<Price(lost)>>
            /\ found => \A s \in SUBSET Deletable(f) :
                            Price(s) < answer.cost[1] => ~counter(Without(f, s))
            /\ answer.status = "EXHAUSTED_NO_COUNTEREXAMPLE" =>
                   \A s \in SUBSET Deletable(f) : ~counter(Without(f, s))

\* What the verifier of the request says of a state of the repair, if it says it
\* of the problem it was asked about.
Verdict(state) ==
    LET problem == SpaceOf(Request).problem[state]
        said == Request.verifier.verify[problem.payload]
        due == Standard(Request.verifier, problem)
    IN  IF /\ problem.payload \in DOMAIN Request.verifier.verify
           /\ \A part \in DOMAIN said \cap DOMAIN due : said[part] = due[part]
        THEN said.outcome ELSE None

\* Where honest moves lead from w, and at what cost.
RepairOnward(w) ==
    LET space == SpaceOf(Request)
    IN  {<<t.to, AddCosts(w[2], t.cost)>> :
            t \in {u \in space.moves[w[1]] : SameClaim(space.problem[u.to], Request.original)}}

\* Where a repair can be after n honest moves.
RepairWays(n) ==
    LET space == SpaceOf(Request)
        after[k \in 0 .. n] ==
            IF k = 0 THEN {<<space.initial, Free(space.dims)>>}
            ELSE UNION {RepairOnward(w) : w \in after[k - 1]}
    IN  after[n]

\* The costs of the repairs that the verifier accepts.
RepairCosts ==
    {w[2] : w \in {v \in UNION {RepairWays(n) : n \in 0 .. Depth} : Verdict(v[1]) = "UNREACHABLE_IN_MODEL"}}

\* A repair is one that the same verifier, which witnessed the original claim,
\* accepts for the same claim, at the least cost of any; NO_REPAIR means there is
\* none; and a repairer that was seen to change the claim gets nothing
\* (compileRepair 185-411).
RepairIsLeast ==
    answer # None /\ Repairing =>
        /\ answer.status = "REPAIR_FOUND" =>
              /\ Verdict(SpaceOf(Request).initial) = "WITNESS_FOUND"
              /\ Request.artifact.outcome = "WITNESS_FOUND"
              /\ Verdict(answer.end) = "UNREACHABLE_IN_MODEL"
              /\ SameClaim(SpaceOf(Request).problem[answer.end], Request.original)
              /\ <<answer.end, answer.cost>> \in RepairWays(Len(search.found.path))
              /\ \A c \in RepairCosts : ~Cheaper(c, answer.cost)
              /\ ~cheated
        /\ answer.status = "NO_REPAIR_IN_MODEL" => RepairCosts = {}
        /\ answer.status \in {"BLOCKED", "ERROR"} => answer.cost = None
=============================================================================
