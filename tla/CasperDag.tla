------------------------------ MODULE CasperDag ------------------------------
(***************************************************************************)
(* Message histories of the consensus harness, the mirror of the upstream  *)
(* finalizer (casper-finalizer-semantics.ts) and what the harness does to  *)
(* a history: it deletes parents, and replaces justifications.  A message  *)
(* is <<sender, sequence number>>; a fixture is [bonds, parents, seen,     *)
(* just], whose justifications are in the order of the code's array.       *)
(***************************************************************************)
EXTENDS VerificationCompiler, FiniteSetsExt, SequencesExt

Bonded(f) == DOMAIN f.bonds
Messages(f) == DOMAIN f.parents
Stake(f, senders) == MapThenSumSet(LAMBDA v : f.bonds[v], senders)

\* deriveSeen
Seen(parents) ==
    LET seen[m \in DOMAIN parents] ==
            {m} \cup UNION {seen[p] : p \in parents[m] \cap DOMAIN parents}
    IN  seen

\* Every validator has a genesis; the later layers have the layer before as parents.
Layered(bonds, just) ==
    LET senders == DOMAIN bonds
        parents == [m \in senders \X (0 .. 3) |->
                       CASE m[2] = 0 -> {}
                         [] m[2] = 1 -> {<<m[1], 0>>}
                         [] OTHER -> senders \X {m[2] - 1}]
    IN  [bonds |-> bonds, parents |-> parents, seen |-> Seen(parents), just |-> just]

\* Messages whose parents are among those known to have no cycle among their ancestors.
RestOn(parents, known) == {m \in DOMAIN parents : parents[m] \cap DOMAIN parents \subseteq known}

\* Messages without a cycle among their ancestors, found from the roots on: no
\* chain of parents is longer than there are messages.
Grounded(parents) ==
    LET found[n \in 0 .. Cardinality(DOMAIN parents)] ==
            IF n = 0 THEN {} ELSE LET known == found[n - 1] IN RestOn(parents, known)
    IN  found[Cardinality(DOMAIN parents)]

OwnParents(f, m) == {p \in f.parents[m] \cap Messages(f) : p[1] = m[1]}

\* analyzeUpstreamReachability
Reachable(f) ==
    /\ \A m \in Messages(f) :
          /\ f.parents[m] \subseteq Messages(f)
          /\ m[2] = Max({-1} \cup {p[2] : p \in OwnParents(f, m)}) + 1
          /\ f.seen[m] = {m} \cup UNION {f.seen[p] : p \in f.parents[m]}
    /\ Grounded(f.parents) = Messages(f)

SelfParent(f, m) == CHOOSE p \in OwnParents(f, m) : \A q \in OwnParents(f, m) : q[2] =< p[2]

SelfMessages(f, m) ==
    LET chain[x \in Messages(f)] ==
            IF OwnParents(f, x) = {} THEN <<x>> ELSE <<x>> \o chain[SelfParent(f, x)]
    IN  chain[m]

Minimum(f) == {Last(SelfMessages(f, m)) : m \in ToSet(f.just)}

\* Only the number of minimum messages is compared with that of the validators.
CheckMinMessages(f) == Len(f.just) = Cardinality(Bonded(f))
Covered(f) == Bonded(f) \subseteq {m[1] : m \in Minimum(f)}

\* A minimum message, or a later one among the parents of the minimum messages.
NextLayer(f) ==
    LET later == UNION {f.parents[m] : m \in Minimum(f)}
    IN  [v \in {m[1] : m \in Minimum(f)} |->
            <<v, Max({m[2] : m \in {x \in Minimum(f) \cup later : x[1] = v}})>>]

\* Who has seen each message of the next layer, as far as the parents of j tell;
\* a message that nobody has seen is left out.
SeenBy(f, layer, j) ==
    LET witnesses == f.parents[j] \ Range(layer)
        observers(v) == {p[1] : p \in {q \in witnesses :
                            \E m \in ToSet(SelfMessages(f, q)) : layer[v] \in f.seen[m]}}
    IN  [v \in {u \in DOMAIN layer : observers(u) # {}} |-> observers(v)]

\* The last justification of a sender that saw anything decides for it.
Supporters(f) ==
    LET layer == NextLayer(f)
        seenBy == [j \in ToSet(f.just) |-> SeenBy(f, layer, j)]
        telling == {j \in ToSet(f.just) : DOMAIN seenBy[j] # {}}
        last == {j \in telling : \A i \in telling : i[1] = j[1] => i[2] =< j[2]}
    IN  {j[1] : j \in {i \in last : Range(seenBy[i]) = {Bonded(f)}}}

Finalized(f) ==
    CheckMinMessages(f) /\ Stake(f, Supporters(f)) * 3 > Stake(f, Bonded(f)) * 2

-----------------------------------------------------------------------------
(* The search for a history that is valid, covered and not finalized.       *)

RemoveParent(f, m, p) ==
    LET parents == [f.parents EXCEPT ![m] = @ \ {p}]
    IN  [f EXCEPT !.parents = parents, !.seen = Seen(parents)]

Admissible(f) == Reachable(f) /\ CheckMinMessages(f) /\ Covered(f)

Deletions(f, price) ==
    {t \in {[edge |-> e, to |-> RemoveParent(f, e[1], e[2]), cost |-> <<price[e]>>] :
               e \in {x \in Messages(f) \X Messages(f) : x[2] \in f.parents[x[1]]}} :
        Admissible(t.to)}

IsCounterexample(f) == CheckMinMessages(f) /\ Covered(f) /\ ~Finalized(f)

\* What the search requires of the history it starts from.
Baseline(f) == Reachable(f) /\ Finalized(f) /\ Covered(f)

-----------------------------------------------------------------------------
(* The repair of a history that is finalized without a validator.           *)

CoverageOutcome(f) ==
    IF CheckMinMessages(f) /\ ~Covered(f) /\ Finalized(f)
    THEN "WITNESS_FOUND" ELSE "UNREACHABLE_IN_MODEL"

WithJustifications(f, just) == [f EXCEPT !.just = just]

Latest(f, v) == <<v, Max({m[2] : m \in {x \in Messages(f) : x[1] = v}})>>

\* Replacements of one of a sender's several justifications by the latest message
\* of a sender that has none; `finalized` is what the original history was.
Replacements(f, finalized) ==
    LET just == ToSet(f.just)
        missing == Bonded(f) \ {j[1] : j \in just}
        doubled == {j \in just : \E i \in just : i # j /\ i[1] = j[1]}
        replaced(d, v) == [i \in DOMAIN f.just |-> IF f.just[i] = d THEN Latest(f, v) ELSE f.just[i]]
        penalty(d, v) == IF Finalized(WithJustifications(f, replaced(d, v))) = finalized THEN 0 ELSE 1
    IN  {[to |-> replaced(d, v),
          cost |-> <<penalty(d, v), 1, Max({Latest(f, v)[2] - d[2], d[2] - Latest(f, v)[2]})>>] :
            d \in doubled, v \in missing}

\* A state of the repair is the array of justifications, as it was or with latest
\* messages in it; two arrays of the same messages have one key.
CoverageRequest(f) ==
    LET arrays == [DOMAIN f.just -> ToSet(f.just) \cup {Latest(f, v) : v \in Bonded(f)}]
        problem == [j \in arrays |-> [id |-> "coverage", family |-> "casper", claim |-> "distinct",
                                      payload |-> j]]
        verifier == [id |-> "coverage-verifier", version |-> 1, family |-> "casper", priority |-> 60,
                     verify |-> [j \in arrays |-> [outcome |-> CoverageOutcome(WithJustifications(f, j))]]]
        space == [initial |-> f.just, key |-> [j \in arrays |-> ToSet(j)], problem |-> problem,
                  moves |-> [j \in arrays |-> Replacements(WithJustifications(f, j), Finalized(f))],
                  dims |-> 3, limit |-> 128]
    IN  [original |-> problem[f.just],
         artifact |-> ArtifactOf(verifier, problem[f.just]),
         repairers |-> {[id |-> "coverage-repair", family |-> "casper", priority |-> 60,
                         supports |-> TRUE, space |-> space]},
         verifier |-> verifier]
=============================================================================
