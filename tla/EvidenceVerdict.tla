--------------------------- MODULE EvidenceVerdict ---------------------------
(***************************************************************************)
(* src/lib/assurance/package.ts: what a reviewer concludes from an         *)
(* evidence package.  exportEvidence writes a manifest and every event of  *)
(* a journal, and verifyEvidence replays them: a package is a manifest and *)
(* the set of events received, at any moment of the journal's history.     *)
(*                                                                         *)
(* Bytes, digests of bytes and the parser are left out: packages are well  *)
(* formed, and the event root is the one of the events.                    *)
(***************************************************************************)
EXTENDS Replay

CONSTANT Reviews   \* [policy, task, claim, pins]: the manifest's policy digest, task
                   \* event and claim event; and what the reviewer pins of the
                   \* policy, the task's envelope and the claim

ASSUME ReviewsAssumption ==
    /\ IsFiniteSet(EventId)
    /\ \A m \in Reviews : m.task \in EventId /\ m.claim \in EventId

\* The event is about the claim; a decision is about several.
AboutClaim(i, c) ==
    /\ Kind(i) \in {"evidence", "challenge", "evidence_request",
                    "verification_request", "verification"}
    /\ Body(i).claim = c

DecidesClaim(i, c) == Kind(i) = "decision" /\ c \in Body(i).claims

-----------------------------------------------------------------------------
(* The grounds of a verdict, in the order verifyEvidence looks at them.     *)

PinsHold(m) ==
    /\ m.policy = m.pins.policy
    /\ Body(m.task).envelope = m.pins.task
    /\ m.claim = m.pins.claim

TargetPresent(m, S) ==
    /\ m.task \in S /\ Kind(m.task) = "task"
    /\ m.claim \in S /\ Kind(m.claim) = "claim"

\* taskProvenance lists eligible claims only.
TaskBound(m, S, R) ==
    /\ m.claim \in R
    /\ TasksOf(m.claim, S) = {m.task}
    /\ ProvenanceHolds(m.claim, S, R)

\* Something about the claim is done by another operation, or on other input.
Foreign(m, S) ==
    \E i \in S :
        /\ AboutClaim(i, m.claim)
        /\ \/ /\ Kind(i) \in {"verification_request", "verification"}
              /\ Body(i).verifier # Body(m.task).operation
           \/ /\ Kind(i) = "evidence"
              /\ Body(i).input # Body(m.task).input

Attached(m, S) ==
    {m.task, m.claim} \cup {i \in S : AboutClaim(i, m.claim) \/ DecidesClaim(i, m.claim)}

\* The causal cone of `from`: the least set that holds it and, with an event of S,
\* its parents, received or not.
Cone(from, S) ==
    LET others == (S \cup UNION {Parents(i) : i \in S}) \ from
        closed == {A \in SUBSET others :
                     \A i \in S \cap (A \cup from) : Parents(i) \subseteq A \cup from}
    IN  from \cup {i \in others : \A A \in closed : i \in A}

\* The one attached set is bound so that it is evaluated once.
Relevant(m, S) == UNION {Cone(from, S) : from \in {Attached(m, S)}}

Incomplete(m, S, Q, R) ==
    \/ (Pending(S, Q, R) \cup Blocked(S, Q, R)) \cap Relevant(m, S) # {}
    \/ \E d \in R : DecidesClaim(d, m.claim) /\ ~ValidDecision(d, S, R)

Submitters(m) == {ev[m.task].actor, ev[m.claim].actor}

\* Mutant: whoever submitted the task may vouch for the claim.
WitnessesMutant(m, verdict, S, R) ==
    {ev[v].actor : v \in ReceiptsFor(m.claim, verdict, S, R)} \ {ev[m.claim].actor}

\* The actors other than the submitters that reproduced the verdict.
Witnesses(m, verdict, S, R) ==
    {ev[v].actor : v \in {x \in ReceiptsFor(m.claim, verdict, S, R) :
                            Body(x).verifier = Body(m.task).operation}}
        \ Submitters(m)

Says(m, verdict, S, R) == ReceiptsFor(m.claim, verdict, S, R) # {}

\* Mutant: the verdicts of the witnesses alone are compared.
WeighMutant(m, S, R) ==
    LET support == Witnesses(m, "SUPPORTED", S, R)
        refute == Witnesses(m, "REFUTED", S, R)
    IN  IF Cardinality(support) >= 2 THEN "VERIFIED"
        ELSE IF support # {} /\ refute # {} THEN "CONFLICT"
        ELSE IF Cardinality(refute) >= 2 THEN "CLAIM_REFUTED"
        ELSE "QUORUM_MISSING"

\* Mutant: refutations are counted before conflicts are looked for.
WeighRefutedMutant(m, S, R) ==
    LET support == Witnesses(m, "SUPPORTED", S, R)
        refute == Witnesses(m, "REFUTED", S, R)
    IN  IF refute # {} THEN "CLAIM_REFUTED"
        ELSE IF Says(m, "SUPPORTED", S, R) /\ Says(m, "REFUTED", S, R) THEN "CONFLICT"
        ELSE IF Cardinality(support) >= 2 THEN "VERIFIED"
        ELSE "QUORUM_MISSING"

Weigh(m, S, R) ==
    LET support == Witnesses(m, "SUPPORTED", S, R)
        refute == Witnesses(m, "REFUTED", S, R)
    IN  IF Says(m, "SUPPORTED", S, R) /\ Says(m, "REFUTED", S, R) THEN "CONFLICT"
        ELSE IF Cardinality(refute) >= 2 THEN "CLAIM_REFUTED"
        ELSE IF refute # {} THEN "QUORUM_MISSING"
        ELSE IF Cardinality(support) >= 2 THEN "VERIFIED"
        ELSE "QUORUM_MISSING"

\* Mutant: a package that has its quorum is not searched for foreign events.
CodeMutant(m, S, Q, R) ==
    IF ~PinsHold(m) THEN "BINDING_MISMATCH"
    ELSE IF ~TargetPresent(m, S) THEN "INCOMPLETE_EVIDENCE"
    ELSE IF ~TaskBound(m, S, R) THEN "BINDING_MISMATCH"
    ELSE IF Body(m.task).operation \notin Registry THEN "UNSUPPORTED_VERIFIER"
    ELSE IF Foreign(m, S) /\ Weigh(m, S, R) # "VERIFIED" THEN "BINDING_MISMATCH"
    ELSE IF Incomplete(m, S, Q, R) THEN "INCOMPLETE_EVIDENCE"
    ELSE Weigh(m, S, R)

\* The code of the report.
Code(m, S, Q, R) ==
    IF ~PinsHold(m) THEN "BINDING_MISMATCH"
    ELSE IF ~TargetPresent(m, S) THEN "INCOMPLETE_EVIDENCE"
    ELSE IF ~TaskBound(m, S, R) THEN "BINDING_MISMATCH"
    ELSE IF Body(m.task).operation \notin Registry THEN "UNSUPPORTED_VERIFIER"
    ELSE IF Foreign(m, S) THEN "BINDING_MISMATCH"
    ELSE IF Incomplete(m, S, Q, R) THEN "INCOMPLETE_EVIDENCE"
    ELSE Weigh(m, S, R)

Status(code) ==
    CASE code = "VERIFIED" -> "PASS"
      [] code \in {"BINDING_MISMATCH", "CLAIM_REFUTED"} -> "FAIL"
      [] OTHER -> "BLOCKED"

Report(m) == Code(m, received, quarantine, ready)

-----------------------------------------------------------------------------
(* Properties.                                                              *)

\* A package passes only on grounds that all stand: two actors that did not
\* submit reproduced support, nobody reproduced a refutation, and everything
\* the target rests on or that is attached to it is ready and not blocked
\* (package 244-316).
PassIsEarned ==
    \A m \in Reviews : Report(m) = "VERIFIED" =>
        /\ \E v, w \in ReceiptsFor(m.claim, "SUPPORTED", received, ready) :
              /\ ev[v].actor # ev[w].actor
              /\ {ev[v].actor, ev[w].actor} \cap Submitters(m) = {}
        /\ ReceiptsFor(m.claim, "REFUTED", received, ready) = {}
        /\ Relevant(m, received) \subseteq ready \ Blocked(received, quarantine, ready)

\* Someone reproduced a refutation of the target.
Refuted(m) == Says(m, "REFUTED", received, ready)

\* A counterexample that was reproduced once is never outvoted, and no later
\* equivocation of its author erases it (package 261-310).
CounterexampleSticks ==
    \A m \in Reviews : [](Refuted(m) => [](Report(m) # "VERIFIED"))

\* Two journals that both hold enough to judge never disagree about a claim by
\* more than a conflict: a pass is lost only to a conflict, to evidence that
\* became incomplete, or to a foreign event, never to a lost quorum and never
\* straight to a refutation (package 261-321).
PassIsLostForCause ==
    [][\A m \in Reviews : Report(m) = "VERIFIED" =>
          Report(m)' \in {"VERIFIED", "CONFLICT", "INCOMPLETE_EVIDENCE", "BINDING_MISMATCH"}]_vars

\* A failure of a claim that has all it stands on is final: what arrives later
\* makes no pass of it (package 191-243, 299-304).
FailureIsFinal ==
    \A m \in Reviews :
        [](m.claim \in ready /\ m.task \in received /\ Status(Report(m)) = "FAIL"
            => [](Report(m) # "VERIFIED"))

\* docs/ASSURANCE_ENGINE.md:80-81: a package fails for a binding mismatch or two
\* refutations; missing dependencies and quarantined evidence block it.  So a
\* target whose claim only waits for its dependencies, or is in quarantine,
\* does not fail when its pins hold and it names its task.
MissingBlocks ==
    \A m \in Reviews :
        /\ PinsHold(m)
        /\ TargetPresent(m, received)
        /\ m.claim \notin ready
        /\ TasksOf(m.claim, received) = {m.task} /\ Matches(m.task, m.claim)
        /\ ~Foreign(m, received)
        => Status(Report(m)) # "FAIL"
=============================================================================
