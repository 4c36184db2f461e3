------------------------------ MODULE MCCompiler ------------------------------
EXTENDS Inquiry, RealityEngine

VARIABLE subject     \* what a behaviour is about: an inquiry or a dossier

Edge(from, to, cost, down, up) == [from |-> from, to |-> to, cost |-> cost, down |-> down, up |-> up]

\* A system with three nodes whose ways contradict each other: "a" must have
\* failed on one and be up on the other; one edge contradicts itself.
MCEdges ==
    {Edge(0, 1, <<1, 2>>, {"a"}, {}), Edge(0, 1, <<3, 0>>, {"b"}, {}),
     Edge(1, 2, <<1, 1>>, {}, {"a"}), Edge(1, 2, <<1, 3>>, {"b"}, {}),
     Edge(0, 2, <<3, 3>>, {"a", "b"}, {}), Edge(0, 2, <<6, 0>>, {}, {"a", "b"}),
     Edge(1, 0, <<0, 0>>, {"b"}, {"b"})}

MCWhatIfs ==
    {[kind |-> k, edges |-> e, start |-> 0, goal |-> 2, failures |-> n, limit |-> l] :
        k \in {"quantitative", "multi-objective", "finite-state"},
        e \in SUBSET MCEdges \ {{}}, n \in 0 .. 2, l \in {2, 100}}

Fin(v) == <<v, 3>>
MCPrices(heavy, light) ==
    [e \in ((1 .. 3) \X (0 .. 3)) \X ((1 .. 3) \X (0 .. 3)) |->
        IF e[1] \in {<<2, 3>>, <<3, 3>>} THEN light + (e[1][1] - 2) + (e[2][1] % 2) ELSE heavy]
MCHistory == Layered(<<3, 2, 2>>, <<Fin(1), Fin(2), Fin(3)>>)
MCHistories ==
    {MCHistory,
     [MCHistory EXCEPT !.bonds = <<7, 1, 1>>],
     Layered(<<2>>, <<Fin(1)>>), Layered(<<4, 1>>, <<Fin(1), Fin(2)>>), Layered(<<1, 1>>, <<Fin(1), Fin(2)>>),
     [MCHistory EXCEPT !.just = <<<<1, 2>>, Fin(1), Fin(2)>>],
     [MCHistory EXCEPT !.seen[<<2, 1>>] = {}]}
MCSearches ==
    {[kind |-> "casper", history |-> h, price |-> MCPrices(6, 1), limit |-> 100] : h \in MCHistories}
    \cup {[kind |-> "casper", history |-> MCHistory, price |-> MCPrices(1, 3), limit |-> l] : l \in {1, 100}}

MCCoverages ==
    {[kind |-> "coverage", request |-> CoverageRequest(Layered(b, j))] :
        b \in {<<3, 2, 2>>, <<7, 1, 1>>},
        j \in {<<<<1, 2>>, Fin(1), Fin(2)>>, <<<<1, 1>>, <<1, 2>>, Fin(1)>>, <<Fin(1), <<1, 1>>, Fin(2)>>,
               <<Fin(2), <<2, 2>>, Fin(1)>>, <<Fin(1), Fin(2), Fin(3)>>}}

\* States of a small repair space, of which "x" changes the claim.
MCStates == {"s", "m", "x", "r", "t"}
MCProblem(s, claim) == [id |-> "p", family |-> "f", claim |-> claim, payload |-> s]
MCMoves ==
    {<<"s", "m", <<1, 0>>>>, <<"s", "r", <<3, 0>>>>, <<"m", "r", <<1, 1>>>>, <<"s", "x", <<0, 1>>>>,
     <<"x", "r", <<0, 0>>>>, <<"m", "t", <<0, 5>>>>}
MCVerifier(answers, version) ==
    [id |-> "v", version |-> version, family |-> "*", priority |-> 1,
     verify |-> [s \in MCStates |-> IF s = "s" THEN [outcome |-> "WITNESS_FOUND"] ELSE answers[s]]]
MCSpace(moves, start, limit) ==
    [initial |-> start, key |-> [s \in MCStates |-> s],
     problem |-> [s \in MCStates |-> MCProblem(s, IF s = "x" THEN "other" ELSE "c")],
     moves |-> [s \in MCStates |-> {[to |-> m[2], cost |-> m[3]] : m \in {n \in moves : n[1] = s}}],
     dims |-> 2, limit |-> limit]
MCRepairer(id, space, supports) ==
    [id |-> id, family |-> "f", priority |-> 2, supports |-> supports, space |-> space]
MCOutcomes == {"UNREACHABLE_IN_MODEL", "WITNESS_FOUND", "INCONCLUSIVE"}
MCAnswers ==
    {[m |-> [outcome |-> "INCONCLUSIVE"], x |-> [outcome |-> "UNREACHABLE_IN_MODEL"],
      r |-> [outcome |-> a], t |-> [outcome |-> b]] : a, b \in MCOutcomes}
    \cup {[m |-> [outcome |-> "UNREACHABLE_IN_MODEL", claim |-> "other"], x |-> [outcome |-> "INCONCLUSIVE"],
           r |-> [outcome |-> "UNREACHABLE_IN_MODEL"], t |-> [outcome |-> "UNREACHABLE_IN_MODEL"]]}
MCRequest(answers, moves, limit) ==
    LET verifier == MCVerifier(answers, 1)
    IN  [original |-> MCProblem("s", "c"), artifact |-> ArtifactOf(verifier, MCProblem("s", "c")),
         repairers |-> {MCRepairer("w", MCSpace(moves, "s", limit), TRUE)}, verifier |-> verifier]
MCPlain == MCRequest([m |-> [outcome |-> "INCONCLUSIVE"], x |-> [outcome |-> "INCONCLUSIVE"],
                      r |-> [outcome |-> "UNREACHABLE_IN_MODEL"], t |-> [outcome |-> "INCONCLUSIVE"]], MCMoves, 9)
\* Requests that are refused before a search.
MCRefused ==
    {[MCPlain EXCEPT !.artifact.outcome = "INCONCLUSIVE"],
     [MCPlain EXCEPT !.artifact = @ @@ [witness |-> "w"]],
     [MCPlain EXCEPT !.verifier = MCVerifier([m |-> [outcome |-> "INCONCLUSIVE"]] @@ @.verify, 2)],
     [MCPlain EXCEPT !.repairers = {}],
     [MCPlain EXCEPT !.repairers = @ \cup {MCRepairer("z", MCSpace(MCMoves, "s", 9), TRUE)}],
     [MCPlain EXCEPT !.repairers = {MCRepairer("w", MCSpace(MCMoves, "s", 9), FALSE)}],
     [MCPlain EXCEPT !.repairers = {MCRepairer("w", MCSpace(MCMoves, "m", 9), TRUE)}],
     [MCPlain EXCEPT !.repairers = {MCRepairer("w", MCSpace(MCMoves, "x", 9), TRUE)}]}
MCRepairs ==
    {[kind |-> "repair", request |-> r] :
        r \in MCRefused \cup {MCRequest(a, MCMoves, 1) : a \in MCAnswers}
                      \cup {MCRequest(a, m, 9) : a \in MCAnswers, m \in SUBSET MCMoves}}

MCJobs == MCWhatIfs \cup MCSearches \cup MCCoverages \cup MCRepairs

-----------------------------------------------------------------------------
\* Propositions that exclude, need and presuppose each other, and two with one id.
MCPropositions ==
    {[id |-> 1, conflicts |-> {2}, requires |-> {}], [id |-> 2, conflicts |-> {}, requires |-> {}],
     [id |-> 2, conflicts |-> {}, requires |-> {3}], [id |-> 3, conflicts |-> {4}, requires |-> {4}],
     [id |-> 4, conflicts |-> {}, requires |-> {1}], [id |-> 5, conflicts |-> {}, requires |-> {6}]}
MCClaims == {[id |-> 1, basis |-> {"o1"}], [id |-> 2, basis |-> {"o2"}]}
MCVerifications ==
    [id : 1 .. 2, predicate : 1 .. 2, state : {"CONSISTENT", "REPRODUCED", "VERIFIED", "INCOMPLETE", "DIVERGENT"}]
\* The source v1 claims two things about one target, or one about each of two.
MCBets ==
    {[source |-> "v1", target |-> "t1", claim |-> "x"], [source |-> "v1", target |-> "t1", claim |-> "y"],
     [source |-> "v1", target |-> "t2", claim |-> "y"], [source |-> "v2", target |-> "t1", claim |-> "x"]}
MCReplays ==
    {[available |-> TRUE, expected |-> "d", observed |-> "d", state |-> "REPRODUCED"],
     [available |-> TRUE, expected |-> "d", observed |-> "e", state |-> "DIVERGENT"],
     [available |-> TRUE, expected |-> "d", observed |-> "", state |-> "INCOMPLETE"]}

MCInit ==
    /\ DossierInit
    /\ \/ subject = "inquiry" /\ InquiryInit
       \/ /\ subject = "dossier"
          /\ job = None /\ pass = None /\ search = None /\ cheated = FALSE /\ answer = None

MCNext ==
    /\ UNCHANGED subject
    /\ \/ subject = "inquiry" /\ InquiryNext /\ UNCHANGED dossier
       \/ subject = "dossier" /\ DossierNext /\ UNCHANGED inquiryVars

MCSpec == MCInit /\ [][MCNext]_<<inquiryVars, dossier, subject>>
=============================================================================
