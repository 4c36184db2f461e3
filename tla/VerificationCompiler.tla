------------------------- MODULE VerificationCompiler -------------------------
(***************************************************************************)
(* Who verifies a problem and who repairs it (verification-compiler.ts,    *)
(* repair-compiler.ts).  A problem is [id, family, claim, payload], where  *)
(* the claim stands for the scope and the assumptions; an adapter is a     *)
(* record whose function `verify` is defined on the payloads it supports.  *)
(* What an adapter answers may say more than the outcome, and then         *)
(* replaces what the artifact should have said.                            *)
(***************************************************************************)
EXTENDS LeastCostSearch

Best(adapters) == {a \in adapters : \A b \in adapters : b.priority =< a.priority}

OfFamily(a, family) == a.family \in {"*", family}

Compatible(p, adapters) ==
    {a \in adapters : OfFamily(a, p.family) /\ p.payload \in DOMAIN a.verify}

\* What an artifact says of its problem and of the adapter, unless it is told otherwise.
Standard(a, p) ==
    [problem |-> p.id, family |-> p.family, claim |-> p.claim, adapter |-> a.id, version |-> a.version]

ArtifactOf(a, p) == Over(a.verify[p.payload], Standard(a, p))

ArtifactMatches(artifact, p, a) ==
    /\ artifact.problem = p.id /\ artifact.family = p.family /\ artifact.claim = p.claim
    /\ artifact.adapter = a.id /\ artifact.version = a.version

\* compileVerification: the artifact of the one adapter of highest priority, or
\* None when there is none, when two compete or when it answers for something else.
CompileVerification(p, adapters) ==
    LET best == Best(Compatible(p, adapters))
        selected == CHOOSE a \in best : TRUE
        artifact == ArtifactOf(selected, p)
    IN  IF Cardinality(best) = 1 /\ ArtifactMatches(artifact, p, selected) THEN artifact ELSE None

SameClaim(p, q) == p.id = q.id /\ p.family = q.family /\ p.claim = q.claim

\* A verification that decided nothing counts as a success.
VerificationSucceededMutant(p, verifier) ==
    LET artifact == CompileVerification(p, {verifier})
    IN  artifact # None /\ artifact.outcome # "WITNESS_FOUND"

VerificationSucceeded(p, verifier) ==
    LET artifact == CompileVerification(p, {verifier})
    IN  artifact # None /\ artifact.outcome = "UNREACHABLE_IN_MODEL"

-----------------------------------------------------------------------------
(* A repair request is [original, artifact, repairers, verifier]; a repair  *)
(* adapter [id, family, priority, supports, space] offers a search space    *)
(* [initial, key, moves, problem, dims, limit] of functions on its states.  *)

OriginalArtifactMatches(r) ==
    ArtifactMatches(r.artifact, r.original, r.verifier) /\ r.artifact.outcome = "WITNESS_FOUND"

Repairers(r) == Best({a \in r.repairers : OfFamily(a, r.original.family) /\ a.supports})

SpaceOf(r) == (CHOOSE a \in Repairers(r) : TRUE).space

\* Everything compileRepair refuses before it searches.
RepairBlocked(r) ==
    \/ ~OriginalArtifactMatches(r)
    \/ CompileVerification(r.original, {r.verifier}) # r.artifact
    \/ Cardinality(Repairers(r)) # 1
    \/ LET first == SpaceOf(r).problem[SpaceOf(r).initial]
       IN  ~SameClaim(first, r.original) \/ first.payload # r.original.payload

\* expand drops the moves that change the claim, and remembers that there were some.
Cheats(r, state) == {t \in SpaceOf(r).moves[state] : ~SameClaim(SpaceOf(r).problem[t.to], r.original)}

HonestMoves(r, state) == SpaceOf(r).moves[state] \ Cheats(r, state)

Repaired(r, state) ==
    /\ SameClaim(SpaceOf(r).problem[state], r.original)
    /\ VerificationSucceeded(SpaceOf(r).problem[state], r.verifier)
=============================================================================
