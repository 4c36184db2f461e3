---------------------------- MODULE RealityEngine ----------------------------
(***************************************************************************)
(* The certificate that the reality engine gives to a dossier              *)
(* (reality-engine.ts with reality-calculus.ts, reality-proof-core.ts and  *)
(* reality-loop.ts), while a caller adds observations, claims,             *)
(* verifications, propositions, bets and a replay to it, one at a time.    *)
(***************************************************************************)
EXTENDS PropositionCalculus, TLC

CONSTANTS
    Observations,      \* ids of observations
    ClaimPool,         \* claims [id, basis]
    Verifications,     \* [id, predicate, state]; ids and predicates are numbers
    PropositionPool,
    BetPool,
    Replays,           \* [available, expected, observed, state], "" for no digest
    MaxEntries         \* bound on the entries of a dossier

\* Ids and predicates are put in order.  A replay that is recorded as divergent is
\* one whose digests can be compared and differ (reality-record-adapter.ts 186-192).
ASSUME DossierAssumption ==
    /\ \A p \in PropositionPool : p.id \in Nat
    /\ \A v \in Verifications :
          /\ v.id \in Nat /\ v.predicate \in Nat
          /\ v.state \in {"OBSERVED", "CONSISTENT", "REPRODUCED", "VERIFIED", "INCOMPLETE", "DIVERGENT"}
    /\ \A r \in Replays :
          /\ r.available \in BOOLEAN
          /\ r.state = "DIVERGENT" <=> r.expected # "" /\ r.observed # "" /\ r.expected # r.observed
          /\ r.state = "DIVERGENT" => r.available

VARIABLE dossier

-----------------------------------------------------------------------------
(* The calculus: the state of a term over a record.                         *)

StateRank == [OBSERVED |-> 0, CONSISTENT |-> 1, REPRODUCED |-> 2, VERIFIED |-> 3,
              INCOMPLETE |-> 4, DIVERGENT |-> 5]

\* The weaker state wins.
JoinStateMutant(s, t) == IF StateRank[s] =< StateRank[t] THEN s ELSE t

JoinState(s, t) == IF StateRank[s] >= StateRank[t] THEN s ELSE t

Known(d) == d.observations \cup {v.id : v \in d.verification}

\* The first verification of a predicate, in the order of their ids.
First(d, predicate) ==
    CHOOSE v \in d.verification : v.predicate = predicate
        /\ \A w \in d.verification : w.predicate = predicate => v.id =< w.id

Read(d, o) == IF o \in d.observations THEN "OBSERVED" ELSE "INCOMPLETE"

\* evaluateTerm: what a rule concludes from its premise.
Conclude(d, rule, premise) ==
    CASE rule[1] = "OBS" -> Read(d, rule[2])
      [] rule[1] = "COMP" -> JoinState(premise, Read(d, rule[2]))
      [] rule[1] = "REQ" -> IF rule[2] \subseteq Known(d) THEN premise ELSE "INCOMPLETE"
      [] rule[1] = "CHK" ->
            IF premise \in {"INCOMPLETE", "DIVERGENT"} THEN premise
            ELSE IF ~\E v \in d.verification : v.predicate = rule[2] THEN "INCOMPLETE"
            ELSE JoinState(premise, First(d, rule[2]).state)
      [] rule[1] = "REP" ->
            JoinState(premise, IF rule[2] = rule[3] THEN "REPRODUCED" ELSE "DIVERGENT")

\* A term is its rules, innermost first: each has the one before for a premise,
\* and what is composed with it is a single observation.
Evaluate(d, term) ==
    LET upTo[i \in 0 .. Len(term)] ==
            IF i = 0 THEN "OBSERVED" ELSE Conclude(d, term[i], upTo[i - 1])
    IN  upTo[Len(term)]

\* The verifications in the order of their predicates.
ByPredicate(d) ==
    CHOOSE order \in SetToSeqs(d.verification) :
        \A i, j \in DOMAIN order : i < j => order[i].predicate =< order[j].predicate

Compared(d) == d.replay.available /\ d.replay.expected # "" /\ d.replay.observed # ""

\* All observations, then a check for each verification, then the replay if it can
\* be compared.
RealityTerm(d) ==
    LET seen == SetToSeq(d.observations)
        checked == ByPredicate(d)
    IN  (IF seen = <<>> THEN <<<<"OBS", "missing">>>>
         ELSE [i \in DOMAIN seen |-> <<IF i = 1 THEN "OBS" ELSE "COMP", seen[i]>>])
        \o [i \in DOMAIN checked |-> <<"CHK", checked[i].predicate>>]
        \o (IF Compared(d) THEN <<<<"REP", d.replay.expected, d.replay.observed>>>> ELSE <<>>)

\* Rejected propositions are not missed.
ResolveStateMutant(reality, props, equivocators) ==
    IF reality = "DIVERGENT" \/ props = "CONFLICTING" \/ equivocators # {} THEN "DIVERGENT"
    ELSE reality

ResolveState(reality, props, equivocators) ==
    IF reality = "DIVERGENT" \/ props = "CONFLICTING" \/ equivocators # {} THEN "DIVERGENT"
    ELSE IF "INCOMPLETE" \in {reality, props} THEN "INCOMPLETE"
    ELSE reality

-----------------------------------------------------------------------------
(* The ledger of obligations and the projection.                            *)

StatusOf(state) ==
    CASE state = "DIVERGENT" -> "FAILED" [] state = "INCOMPLETE" -> "OPEN" [] OTHER -> "SATISFIED"

Obligations(d, props, equivocators) ==
    {[kind |-> "OBSERVATION", of |-> 0, status |-> IF d.observations # {} THEN "SATISFIED" ELSE "OPEN"],
     [kind |-> "REPLAY", of |-> 0,
      status |-> IF d.replay.available THEN StatusOf(d.replay.state) ELSE "OPEN"],
     [kind |-> "PROPOSITION", of |-> 0,
      status |-> StatusOf(IF props = "CONFLICTING" THEN "DIVERGENT" ELSE props)],
     [kind |-> "CONVERGENCE", of |-> 0,
      status |-> StatusOf(IF props = "CONFLICTING" THEN "DIVERGENT" ELSE props)],
     [kind |-> "EQUIVOCATION", of |-> 0, status |-> IF equivocators = {} THEN "SATISFIED" ELSE "FAILED"]}
    \cup {[kind |-> "CLAIM_BASIS", of |-> c.id,
           status |-> IF c.basis \subseteq d.observations THEN "SATISFIED" ELSE "OPEN"] : c \in d.claims}
    \cup {[kind |-> "VERIFICATION", of |-> v.id, status |-> StatusOf(v.state)] : v \in d.verification}

Project(state, d, failed, open) ==
    CASE state = "OBSERVED" /\ open = {} /\ failed = {} -> "CONSISTENT"
      [] state = "CONSISTENT" /\ d.replay.available -> "REPRODUCED"
      [] state = "REPRODUCED" /\ open = {} /\ failed = {} -> "VERIFIED"
      [] OTHER -> state

RunRealityEngine(d) ==
    LET props == Select(d.propositions)
        equivocators == Equivocators(d.bets)
        state == ResolveState(Evaluate(d, RealityTerm(d)), props.state, equivocators)
        with(status) == {o \in Obligations(d, props.state, equivocators) : o.status = status}
    IN  [state |-> state, propositions |-> props, equivocators |-> equivocators,
         failed |-> with("FAILED"), open |-> with("OPEN"),
         predicted |-> Project(state, d, with("FAILED"), with("OPEN"))]

-----------------------------------------------------------------------------
(* The caller's dossier.                                                    *)

NoReplay == [available |-> FALSE, expected |-> "", observed |-> "", state |-> "INCOMPLETE"]

DossierInit ==
    dossier = [observations |-> {}, claims |-> {}, verification |-> {}, propositions |-> {},
               bets |-> {}, replay |-> NoReplay]

Entries == Cardinality(dossier.observations) + Cardinality(dossier.claims)
           + Cardinality(dossier.verification) + Cardinality(dossier.propositions)
           + Cardinality(dossier.bets)

Observe(o) == dossier' = [dossier EXCEPT !.observations = @ \cup {o}]
Claim(c) == dossier' = [dossier EXCEPT !.claims = @ \cup {c}]
Propose(p) == dossier' = [dossier EXCEPT !.propositions = @ \cup {p}]
Bet(b) == dossier' = [dossier EXCEPT !.bets = @ \cup {b}]

\* The id of a verification is its own.
Verify(v) ==
    /\ \A w \in dossier.verification : w.id # v.id
    /\ dossier' = [dossier EXCEPT !.verification = @ \cup {v}]

SetReplay(r) == dossier' = [dossier EXCEPT !.replay = r]

DossierNext ==
    \/ \E r \in Replays : SetReplay(r)
    \/ /\ Entries < MaxEntries
       /\ \/ \E o \in Observations : Observe(o)
          \/ \E c \in ClaimPool : Claim(c)
          \/ \E v \in Verifications : Verify(v)
          \/ \E p \in PropositionPool : Propose(p)
          \/ \E b \in BetPool : Bet(b)

DossierSpec == DossierInit /\ [][DossierNext]_dossier

-----------------------------------------------------------------------------
(* Properties.                                                              *)

Certificate == RunRealityEngine(dossier)

OnePerPredicate ==
    \A v, w \in dossier.verification : v.predicate = w.predicate => v = w

\* The accepted propositions stand together and need no other, and they are as many
\* as they can be: each that was rejected conflicts with one of them or needs what is
\* not among them.  None is both, and none is lost unless it shares its id with an
\* accepted one (selectMaximallyConsistentPropositions 76-161).
PropositionsSettle ==
    \A props \in {Select(dossier.propositions)} :
        LET in == props.accepted
            out == props.rejected
        IN  /\ \A p, q \in in : p # q => p.id \notin q.conflicts
            /\ \A p \in in : p.requires \subseteq Ids(in)
            /\ \A p \in out : \/ \E q \in in : p.id \in q.conflicts \/ q.id \in p.conflicts
                              \/ \E r \in p.requires : r \notin Ids(in)
            /\ in \cap out = {}
            /\ \A p \in dossier.propositions \ (in \cup out) : p.id \in Ids(in)

\* A positive certificate has been earned: something was observed, no verification
\* that counts failed or is missing something, all propositions stand, nobody has
\* claimed two things and a replay that could be compared agreed; and its rank is that
\* of the best of its verifications and its replay (runRealityEngine 185-247).
PositiveIsEarned ==
    LET c == Certificate IN
    c.state \in {"CONSISTENT", "REPRODUCED", "VERIFIED"} =>
        LET counting == {First(dossier, v.predicate).state : v \in dossier.verification}
        IN  /\ dossier.observations # {}
            /\ counting \cap {"INCOMPLETE", "DIVERGENT"} = {}
            /\ Ids(c.propositions.accepted) = {p.id : p \in dossier.propositions}
            /\ c.propositions.rejected = {}
            /\ \A a, b \in dossier.bets : a.source = b.source => a.claim = b.claim
            /\ Compared(dossier) => dossier.replay.expected = dossier.replay.observed
            /\ \/ c.state \in counting
               \/ c.state = "REPRODUCED" /\ Compared(dossier) /\ "VERIFIED" \notin counting

\* The ledger and the judgement are computed apart and agree: with one verification
\* for each predicate, a DIVERGENT certificate lists what failed, a failed obligation
\* leaves at most INCOMPLETE, and the projection promotes nothing that failed
\* (buildRealityProofBundle 117-285, project 85-181).
LedgerAgrees ==
    LET c == Certificate IN
    OnePerPredicate =>
        /\ c.state = "DIVERGENT" => c.failed # {}
        /\ c.failed # {} => c.state \in {"DIVERGENT", "INCOMPLETE"}
        /\ c.predicted # c.state => c.failed = {}

\* "Divergence must not be hidden by a positive observation" (docs/FAILURE_CONTAINMENT.md:51):
\* no certificate is positive beside a divergent verification.  Of two verifications
\* of one predicate the code looks at the first only (evaluateTerm 126-151).
DivergenceShows ==
    (\E v \in dossier.verification : v.state = "DIVERGENT") =>
        Certificate.state \notin {"CONSISTENT", "REPRODUCED", "VERIFIED"}

\* "EQV - detect equivocation when one validator source presents multiple distinct
\* claims for the same target cycle" (docs/RCHAIN_PROPOSITION_CALCULUS.md:38): sources
\* that claim one thing per target are accused of nothing, and fail no certificate.
\* The code groups bets by source alone (detectEquivocation 163-181).
OneClaimPerTargetIsHonest ==
    (\A a, b \in dossier.bets : a.source = b.source /\ a.target = b.target => a.claim = b.claim)
        => \A o \in Certificate.failed : o.kind # "EQUIVOCATION"
=============================================================================
