----------------------------- MODULE ReplayView -----------------------------
(***************************************************************************)
(* src/lib/lattice/replay.ts: what a set of events says.  Replay is a pure *)
(* function of the set, and is written here as operators on it.            *)
(*                                                                         *)
(* Events are content-addressed: an identifier determines its event, which *)
(* is the function `ev`, and parents are hashes, so a parent relation has  *)
(* no cycle.  Contents are abstracted to what replay compares.             *)
(*                                                                         *)
(* The two while loops of replay compute least fixed points.  They are     *)
(* defined here as such, over all closed sets; ReplayLoop has the loops.   *)
(***************************************************************************)
EXTENDS Integers, Sequences, FiniteSets

CONSTANTS
    EventId,    \* identifiers of the events there are
    ev,         \* ev[i]: actor, sequence, parents, body
    Admitted,   \* <<actor, domain>>: the member's domains include it, or "*"
    Registry,   \* verifiers registered locally
    Result,     \* Result[<<verifier, claim, evidence>>]: what it returns, or Throws
    Throws

Kinds == {"capability", "task", "claim", "evidence", "challenge",
          "evidence_request", "verification_request", "verification",
          "decision"}

ASSUME EventsAssumption ==
    \A i \in EventId :
        /\ ev[i].body.kind \in Kinds
        /\ i \notin ev[i].parents

Kind(i) == ev[i].body.kind
Body(i) == ev[i].body
Parents(i) == ev[i].parents

References(i) ==
    CASE Kind(i) \in {"capability", "claim"} -> {}
      [] Kind(i) = "task" -> Body(i).dependencies
      [] Kind(i) \in {"evidence", "challenge", "evidence_request"} -> {Body(i).claim}
      [] Kind(i) = "verification_request" ->
            {Body(i).claim} \cup {Body(i).evidence[k] : k \in 1..Len(Body(i).evidence)}
      [] Kind(i) = "verification" ->
            {Body(i).request, Body(i).claim}
                \cup {Body(i).evidence[k] : k \in 1..Len(Body(i).evidence)}
      [] Kind(i) = "decision" -> Body(i).claims \cup Body(i).verifications

\* validateEvent: whatever a body refers to is a parent.
ASSUME ReferencesAssumption == \A i \in EventId : References(i) \subseteq Parents(i)

-----------------------------------------------------------------------------
(* Equivocation, quarantine and causal readiness.                           *)

SameSlot(i, j) == ev[i].actor = ev[j].actor /\ ev[i].sequence = ev[j].sequence

Equivocating(S) == {i \in S : \E j \in S : i # j /\ SameSlot(i, j)}

\* Q holds the poisoned events and every child in S of an event of Q.
PoisonClosed(Q, poison, S) ==
    /\ poison \subseteq Q
    /\ \A i \in S : Parents(i) \cap Q # {} => i \in Q

Quarantine(S) ==
    LET poison == Equivocating(S)
        closed == {Q \in SUBSET S : PoisonClosed(Q, poison, S)}
    IN  {i \in S : \A Q \in closed : i \in Q}

\* R holds every event outside Q all of whose parents it holds.
ReadyClosed(R, S, Q) == \A i \in S \ Q : Parents(i) \subseteq R => i \in R

Ready(S, Q) ==
    LET closed == {R \in SUBSET S : ReadyClosed(R, S, Q)}
    IN  {i \in S \ Q : \A R \in closed : i \in R}

Pending(S, Q, R) == S \ (Q \cup R)

-----------------------------------------------------------------------------
(* What the ready events R of S say.                                        *)

Claims(S) == {c \in S : Kind(c) = "claim"}

Matches(t, c) ==
    /\ Body(t).domain = Body(c).domain
    /\ Body(t).operation = Body(c).method
    /\ Body(t).input = Body(c).subject
    /\ Body(t).predicate = Body(c).predicate

\* Mutant: the task of a claim is found by what it says.
TasksOfMutant(c, S) ==
    {t \in S : Kind(t) = "task" /\ Matches(t, c)}

TasksOf(c, S) == {t \in Parents(c) \cap S : Kind(t) = "task"}

ProvenanceHolds(c, S, R) ==
    /\ Cardinality(TasksOf(c, S)) = 1
    /\ \A t \in TasksOf(c, S) : t \in R /\ Matches(t, c)

Mismatched(c, S, R) == c \in R /\ TasksOf(c, S) # {} /\ ~ProvenanceHolds(c, S, R)

InvalidTaskClaims(S, R) == {c \in Claims(R) : Mismatched(c, S, R)}

Scope(i, c, S, R) ==
    /\ c \in S
    /\ Kind(c) = "claim"
    /\ ~Mismatched(c, S, R)
    /\ <<ev[i].actor, Body(c).domain>> \in Admitted

\* inputs(request) does not throw.
InputsHold(r, S, R) ==
    /\ Kind(r) = "verification_request"
    /\ Scope(r, Body(r).claim, S, R)
    /\ \A k \in 1..Len(Body(r).evidence) :
          LET x == Body(r).evidence[k]
          IN  /\ Kind(x) = "evidence"
              /\ Body(x).claim = Body(r).claim
              /\ Scope(x, Body(r).claim, S, R)

BoundToRequest(v) ==
    LET r == Body(v).request
    IN  /\ Body(r).claim = Body(v).claim
        /\ Body(r).verifier = Body(v).verifier
        /\ Body(r).evidence = Body(v).evidence

\* reproduceRequest: verifiers see the claim and the evidence, and nothing else.
Reproduced(r) == Result[<<Body(r).verifier, Body(r).claim, Body(r).evidence>>]

\* The receipt is recomputed with the local registry, and agrees.
LocallyReproduced(v, S, R) ==
    /\ v \in R
    /\ Kind(v) = "verification"
    /\ Scope(v, Body(v).claim, S, R)
    /\ InputsHold(Body(v).request, S, R)
    /\ BoundToRequest(v)
    /\ Body(v).verifier \in Registry
    /\ Reproduced(Body(v).request) # Throws
    /\ Reproduced(Body(v).request) = Body(v).result

Receipts(S, R) == {v \in R : LocallyReproduced(v, S, R)}

ReceiptsFor(c, verdict, S, R) ==
    {v \in Receipts(S, R) : Body(v).claim = c /\ Body(v).result.verdict = verdict}

\* reproductionCertificates: two actors reproduced the same verdict.
Certified(c, verdict, S, R) ==
    Cardinality({ev[v].actor : v \in ReceiptsFor(c, verdict, S, R)}) >= 2

\* Mutant: a refutation outweighs any support.
ClaimStatusMutant(c, S, Q, R) ==
    CASE c \in Q -> "QUARANTINED"
      [] c \notin Q \cup R -> "PENDING"
      [] c \in R /\ ReceiptsFor(c, "REFUTED", S, R) # {} -> "REFUTED"
      [] c \in R /\ ReceiptsFor(c, "REFUTED", S, R) = {} ->
            IF ReceiptsFor(c, "SUPPORTED", S, R) # {} THEN "SUPPORTED" ELSE "UNVERIFIED"

ClaimStatus(c, S, Q, R) ==
    LET support == ReceiptsFor(c, "SUPPORTED", S, R) # {}
        refute == ReceiptsFor(c, "REFUTED", S, R) # {}
    IN  CASE c \in Q -> "QUARANTINED"
          [] c \notin Q \cup R -> "PENDING"
          [] c \in R /\ support /\ refute -> "DISPUTED"
          [] c \in R /\ support /\ ~refute -> "SUPPORTED"
          [] c \in R /\ ~support /\ refute -> "REFUTED"
          [] c \in R /\ ~support /\ ~refute -> "UNVERIFIED"

Blocked(S, Q, R) ==
    Q \cup InvalidTaskClaims(S, R)
      \cup {i \in R : /\ Kind(i) \in {"evidence", "challenge", "evidence_request"}
                      /\ ~Scope(i, Body(i).claim, S, R)}
      \cup {i \in R : /\ Kind(i) = "verification_request"
                      /\ ~(InputsHold(i, S, R) /\ Body(i).verifier \in Registry)}
      \cup {i \in R : Kind(i) = "verification" /\ ~LocallyReproduced(i, S, R)}

\* Mutant: every receipt there is counts, not the decision's cut.
DecideMutant(claims, selected, S, R) ==
    LET has(c, verdict) == ReceiptsFor(c, verdict, S, R) # {}
        accepted == {c \in claims : has(c, "SUPPORTED") /\ ~has(c, "REFUTED")}
        rejected == {c \in claims : has(c, "REFUTED") /\ ~has(c, "SUPPORTED")}
    IN  [accepted |-> accepted, rejected |-> rejected,
         unresolved |-> claims \ (accepted \cup rejected)]

\* decide: over the receipts the decision selects, and no others.
Decide(claims, selected, S, R) ==
    LET has(c, verdict) == ReceiptsFor(c, verdict, S, R) \cap selected # {}
        accepted == {c \in claims : has(c, "SUPPORTED") /\ ~has(c, "REFUTED")}
        rejected == {c \in claims : has(c, "REFUTED") /\ ~has(c, "SUPPORTED")}
    IN  [accepted |-> accepted, rejected |-> rejected,
         unresolved |-> claims \ (accepted \cup rejected)]

DecisionBound(d, S, R) ==
    /\ \A c \in Body(d).claims : c \in R /\ Scope(d, c, S, R)
    /\ \A v \in Body(d).verifications :
          /\ v \in Receipts(S, R)
          /\ Body(v).claim \in Body(d).claims

ValidDecision(d, S, R) ==
    /\ d \in R
    /\ Kind(d) = "decision"
    /\ DecisionBound(d, S, R)
    /\ Decide(Body(d).claims, Body(d).verifications, S, R) = Body(d).result
=============================================================================
