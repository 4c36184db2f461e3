---------------------------- MODULE ReplayProofs ----------------------------
(* Proofs about replay: the view of a set of events, how it changes as the  *)
(* journal fills, the loops that compute it, and the verdict that stands on *)
(* it; for any events in any order of arrival, any membership policy,       *)
(* registry and review.                                                     *)
EXTENDS EvidenceVerdict, ReplayLoop, FiniteSetTheorems, TLAPS

-----------------------------------------------------------------------------
(* The two fixed points.                                                    *)

LEMMA QuarantineClosed ==
    ASSUME NEW S
    PROVE  /\ Quarantine(S) \subseteq S
           /\ PoisonClosed(Quarantine(S), Equivocating(S), S)
<1>1. Quarantine(S) \subseteq S
  BY DEF Quarantine
<1>2. ASSUME NEW i \in Equivocating(S)
      PROVE  i \in Quarantine(S)
  BY <1>2 DEF Quarantine, PoisonClosed, Equivocating
<1>3. ASSUME NEW i \in S, Parents(i) \cap Quarantine(S) # {}
      PROVE  i \in Quarantine(S)
  <2>1. SUFFICES ASSUME NEW Q \in SUBSET S, PoisonClosed(Q, Equivocating(S), S)
                 PROVE  i \in Q
    BY DEF Quarantine
  <2>2. Quarantine(S) \subseteq Q
    BY <2>1 DEF Quarantine
  <2> QED
    BY <1>3, <2>1, <2>2 DEF PoisonClosed
<1> QED
  BY <1>1, <1>2, <1>3 DEF PoisonClosed

\* More events never mean less quarantine.
LEMMA QuarantineMonotone ==
    ASSUME NEW S, NEW T, S \subseteq T
    PROVE  Quarantine(S) \subseteq Quarantine(T)
<1>1. SUFFICES ASSUME NEW i \in Quarantine(S),
                      NEW Q \in SUBSET T, PoisonClosed(Q, Equivocating(T), T)
               PROVE  i \in Q
  BY DEF Quarantine
<1>2. Equivocating(S) \subseteq Q \cap S
  BY <1>1 DEF Equivocating, PoisonClosed
<1>3. PoisonClosed(Q \cap S, Equivocating(S), S)
  BY <1>1, <1>2 DEF PoisonClosed
<1> QED
  BY <1>1, <1>3 DEF Quarantine

\* The quarantine is the least closed set.
LEMMA QuarantineLeast ==
    ASSUME NEW S, NEW Q \in SUBSET S, PoisonClosed(Q, Equivocating(S), S)
    PROVE  Quarantine(S) \subseteq Q
BY DEF Quarantine

\* So is what is ready.
LEMMA ReadyLeast ==
    ASSUME NEW S, NEW Q, NEW R \in SUBSET S, ReadyClosed(R, S, Q)
    PROVE  Ready(S, Q) \subseteq R
BY DEF Ready

LEMMA ReadyCloses ==
    ASSUME NEW S, NEW Q
    PROVE  ReadyClosed(Ready(S, Q), S, Q)
<1>1. SUFFICES ASSUME NEW i \in S \ Q, Parents(i) \subseteq Ready(S, Q),
                      NEW R \in SUBSET S, ReadyClosed(R, S, Q)
               PROVE  i \in R
  BY DEF Ready, ReadyClosed
<1>2. Ready(S, Q) \subseteq R
  BY <1>1 DEF Ready
<1> QED
  BY <1>1, <1>2 DEF ReadyClosed

\* What is ready has its parents ready: taking out an event without them would
\* leave a smaller closed set.
LEMMA ReadyFixed ==
    ASSUME NEW S, NEW Q, NEW i \in Ready(S, Q)
    PROVE  i \in S \ Q /\ Parents(i) \subseteq Ready(S, Q)
<1>1. i \in S \ Q
  BY DEF Ready
<1>2. SUFFICES ASSUME ~(Parents(i) \subseteq Ready(S, Q))
               PROVE  FALSE
  BY <1>1
<1> DEFINE R == Ready(S, Q) \ {i}
<1>3. R \in SUBSET S
  BY DEF Ready
<1>4. ReadyClosed(R, S, Q)
  <2>1. SUFFICES ASSUME NEW j \in S \ Q, Parents(j) \subseteq R
                 PROVE  j \in R
    BY DEF ReadyClosed
  <2>2. j \in Ready(S, Q)
    BY <2>1, ReadyCloses DEF ReadyClosed
  <2> QED
    BY <1>2, <2>1, <2>2
<1> QED
  BY <1>3, <1>4 DEF Ready

\* Arrivals take nothing out of ready but what they put in quarantine.
LEMMA ReadyMonotone ==
    ASSUME NEW S, NEW T, S \subseteq T
    PROVE  Ready(S, Quarantine(S)) \ Quarantine(T) \subseteq Ready(T, Quarantine(T))
<1> DEFINE Q == Quarantine(S)
           P == Quarantine(T)
<1>1. SUFFICES ASSUME NEW i \in Ready(S, Q), i \notin P,
                      NEW R \in SUBSET T, ReadyClosed(R, T, P)
               PROVE  i \in R
  BY ReadyFixed DEF Ready
<1> DEFINE U == (R \cup P) \cap S
<1>2. ReadyClosed(U, S, Q)
  <2>1. SUFFICES ASSUME NEW j \in S \ Q, Parents(j) \subseteq U
                 PROVE  j \in U
    BY DEF ReadyClosed
  <2>2. CASE Parents(j) \cap P # {}
    BY <2>1, <2>2, QuarantineClosed DEF PoisonClosed
  <2>3. CASE Parents(j) \cap P = {} /\ j \notin P
    <3>1. Parents(j) \subseteq R
      BY <2>1, <2>3
    <3> QED
      BY <1>1, <2>1, <2>3, <3>1 DEF ReadyClosed
  <2> QED
    BY <2>1, <2>2, <2>3
<1>3. i \in U
  BY <1>1, <1>2 DEF Ready
<1> QED
  BY <1>1, <1>3

-----------------------------------------------------------------------------
(* Two views of a growing journal judge what is ready in both alike.        *)

\* R is a causally closed part of S.
Causal(R, S) == R \subseteq S /\ R \subseteq EventId /\ \A i \in R : Parents(i) \subseteq R

LEMMA TasksSame ==
    ASSUME NEW S, NEW R, Causal(R, S), NEW c \in R
    PROVE  /\ TasksOf(c, S) = {t \in Parents(c) : Kind(t) = "task"}
           /\ TasksOf(c, S) \subseteq R
BY DEF Causal, TasksOf

LEMMA MismatchSame ==
    ASSUME NEW S, NEW R, Causal(R, S), NEW T, NEW U, Causal(U, T), NEW c \in R \cap U
    PROVE  Mismatched(c, S, R) <=> Mismatched(c, T, U)
<1>1. TasksOf(c, S) = TasksOf(c, T) /\ TasksOf(c, S) \subseteq R /\ TasksOf(c, S) \subseteq U
  BY TasksSame
<1>2. ProvenanceHolds(c, S, R) <=> ProvenanceHolds(c, T, U)
  BY <1>1 DEF ProvenanceHolds
<1> QED
  BY <1>1, <1>2 DEF Mismatched

LEMMA ScopeSame ==
    ASSUME NEW S, NEW R, Causal(R, S), NEW T, NEW U, Causal(U, T), NEW c \in R \cap U, NEW i
    PROVE  Scope(i, c, S, R) <=> Scope(i, c, T, U)
<1>1. Mismatched(c, S, R) <=> Mismatched(c, T, U)
  BY MismatchSame
<1>2. c \in S /\ c \in T
  BY DEF Causal
<1> QED
  BY <1>1, <1>2 DEF Scope

LEMMA InputsSame ==
    ASSUME NEW S, NEW R, Causal(R, S), NEW T, NEW U, Causal(U, T), NEW r \in R \cap U
    PROVE  InputsHold(r, S, R) <=> InputsHold(r, T, U)
<1>1. CASE Kind(r) # "verification_request"
  BY <1>1 DEF InputsHold
<1>2. CASE Kind(r) = "verification_request"
  <2>1. Body(r).claim \in Parents(r)
    BY <1>2, ReferencesAssumption DEF References, Causal
  <2>2. Body(r).claim \in R \cap U
    BY <2>1 DEF Causal
  <2>3. \A i : Scope(i, Body(r).claim, S, R) <=> Scope(i, Body(r).claim, T, U)
    BY <2>2, ScopeSame
  <2> QED
    BY <2>3 DEF InputsHold
<1> QED
  BY <1>1, <1>2

LEMMA ReproducedSame ==
    ASSUME NEW S, NEW R, Causal(R, S), NEW T, NEW U, Causal(U, T), NEW v \in R \cap U
    PROVE  LocallyReproduced(v, S, R) <=> LocallyReproduced(v, T, U)
<1>1. CASE Kind(v) # "verification"
  BY <1>1 DEF LocallyReproduced
<1>2. CASE Kind(v) = "verification"
  <2>1. Body(v).claim \in Parents(v) /\ Body(v).request \in Parents(v)
    BY <1>2, ReferencesAssumption DEF References, Causal
  <2>2. Body(v).claim \in R \cap U /\ Body(v).request \in R \cap U
    BY <2>1 DEF Causal
  <2>3. Scope(v, Body(v).claim, S, R) <=> Scope(v, Body(v).claim, T, U)
    BY <2>2, ScopeSame
  <2>4. InputsHold(Body(v).request, S, R) <=> InputsHold(Body(v).request, T, U)
    BY <2>2, InputsSame
  <2> QED
    BY <2>3, <2>4 DEF LocallyReproduced
<1> QED
  BY <1>1, <1>2

LEMMA BlockedSame ==
    ASSUME NEW S, NEW R, Causal(R, S), NEW T, NEW U, Causal(U, T),
           NEW Q, NEW P, NEW i \in R \cap U, i \notin Q, i \notin P
    PROVE  i \in Blocked(S, Q, R) <=> i \in Blocked(T, P, U)
<1>1. Mismatched(i, S, R) <=> Mismatched(i, T, U)
  BY MismatchSame
<1>2. InputsHold(i, S, R) <=> InputsHold(i, T, U)
  BY InputsSame
<1>3. LocallyReproduced(i, S, R) <=> LocallyReproduced(i, T, U)
  BY ReproducedSame
<1>4. Kind(i) \in {"evidence", "challenge", "evidence_request"}
        => (Scope(i, Body(i).claim, S, R) <=> Scope(i, Body(i).claim, T, U))
  <2>1. SUFFICES ASSUME Kind(i) \in {"evidence", "challenge", "evidence_request"}
                 PROVE  Scope(i, Body(i).claim, S, R) <=> Scope(i, Body(i).claim, T, U)
    OBVIOUS
  <2>2. Body(i).claim \in Parents(i)
    BY <2>1, ReferencesAssumption DEF References, Causal
  <2> QED
    BY <2>2, ScopeSame DEF Causal
<1>5. i \in InvalidTaskClaims(S, R) <=> i \in InvalidTaskClaims(T, U)
  BY <1>1 DEF InvalidTaskClaims, Claims
<1> QED
  BY <1>2, <1>3, <1>4, <1>5 DEF Blocked

\* Receipts ready in both views and of one verdict are the same.
LEMMA ReceiptsSame ==
    ASSUME NEW S, NEW R, Causal(R, S), NEW T, NEW U, Causal(U, T), NEW c, NEW verdict
    PROVE  ReceiptsFor(c, verdict, S, R) \cap U = ReceiptsFor(c, verdict, T, U) \cap R
<1>1. \A v \in R \cap U : LocallyReproduced(v, S, R) <=> LocallyReproduced(v, T, U)
  BY ReproducedSame
<1> QED
  BY <1>1 DEF ReceiptsFor, Receipts

LEMMA DecisionSame ==
    ASSUME NEW S, NEW R, Causal(R, S), NEW T, NEW U, Causal(U, T), NEW d \in R \cap U,
           ValidDecision(d, S, R)
    PROVE  ValidDecision(d, T, U)
<1>1. Body(d).claims \subseteq R \cap U /\ Body(d).verifications \subseteq R \cap U
  <2>1. Kind(d) = "decision" /\ d \in EventId
    BY DEF ValidDecision, Causal
  <2>2. References(d) = Body(d).claims \cup Body(d).verifications
    BY <2>1 DEF References
  <2>3. References(d) \subseteq Parents(d)
    BY <2>1, ReferencesAssumption
  <2> QED
    BY <2>2, <2>3 DEF Causal
<1>2. DecisionBound(d, T, U)
  <2>1. ASSUME NEW c \in Body(d).claims
        PROVE  c \in U /\ Scope(d, c, T, U)
    BY <1>1, ScopeSame DEF ValidDecision, DecisionBound
  <2>2. ASSUME NEW v \in Body(d).verifications
        PROVE  v \in Receipts(T, U) /\ Body(v).claim \in Body(d).claims
    <3>1. v \in Receipts(S, R) /\ Body(v).claim \in Body(d).claims
      BY DEF ValidDecision, DecisionBound
    <3>2. v \in R \cap U
      BY <1>1
    <3>3. LocallyReproduced(v, T, U)
      BY <3>1, <3>2, ReproducedSame DEF Receipts
    <3> QED
      BY <3>1, <3>2, <3>3 DEF Receipts
  <2> QED
    BY <2>1, <2>2 DEF DecisionBound
<1>3. ASSUME NEW c, NEW verdict
      PROVE  ReceiptsFor(c, verdict, S, R) \cap Body(d).verifications
                = ReceiptsFor(c, verdict, T, U) \cap Body(d).verifications
  BY <1>1, ReceiptsSame
<1>4. Decide(Body(d).claims, Body(d).verifications, S, R)
        = Decide(Body(d).claims, Body(d).verifications, T, U)
  BY <1>3 DEF Decide
<1> QED
  BY <1>2, <1>4 DEF ValidDecision

-----------------------------------------------------------------------------
(* The journal that fills.                                                  *)

\* The view is the one of the events received.
ViewCurrent ==
    /\ quarantine = Quarantine(received)
    /\ ready = Ready(received, quarantine)

IInv == TypeOK /\ ViewCurrent

LEMMA InitIInv == Init => IInv
<1> SUFFICES ASSUME Init
             PROVE  IInv
  OBVIOUS
<1>1. TypeOK
  <2>1. PICK h \in Histories : arriving = h.arriving /\ received = h.stored
    BY DEF Init
  <2>2. quarantine \subseteq received /\ ready \subseteq received \ quarantine
    BY QuarantineClosed, ReadyFixed DEF Init
  <2> QED
    BY <2>1, <2>2, HistoriesAssumption DEF TypeOK
<1> QED
  BY <1>1 DEF Init, IInv, ViewCurrent

LEMMA NextIInv == IInv /\ [Next]_vars => IInv'
<1> SUFFICES ASSUME IInv, [Next]_vars
             PROVE  IInv'
  OBVIOUS
<1>1. ASSUME NEW i \in EventId, Deliver(i)
      PROVE  IInv'
  <2>1. arriving' \in {h.arriving : h \in Histories} /\ received' \subseteq EventId
    BY <1>1 DEF IInv, TypeOK, Deliver
  <2>2. ViewCurrent'
    BY <1>1 DEF Deliver, ViewCurrent
  <2>3. quarantine' \subseteq received' /\ ready' \subseteq received' \ quarantine'
    BY <2>2, QuarantineClosed, ReadyFixed DEF ViewCurrent
  <2> QED
    BY <2>1, <2>2, <2>3 DEF IInv, TypeOK
<1>2. CASE UNCHANGED vars
  BY <1>2 DEF IInv, TypeOK, ViewCurrent, vars
<1> QED
  BY <1>1, <1>2 DEF Next

LEMMA Invariance == Spec => []IInv
BY InitIInv, NextIInv, PTL DEF Spec

LEMMA ReadyCausal ==
    ASSUME IInv
    PROVE  Causal(ready, received)
BY ReadyFixed DEF IInv, TypeOK, ViewCurrent, Causal

LEMMA JournalGrows ==
    ASSUME IInv, [Next]_vars
    PROVE  /\ IInv'
           /\ received \subseteq received'
           /\ quarantine \subseteq quarantine'
           /\ Causal(ready, received)
           /\ Causal(ready', received')
<1>1. IInv'
  BY NextIInv
<1>2. received \subseteq received'
  BY DEF Next, Deliver, vars
<1>3. quarantine \subseteq quarantine'
  BY <1>1, <1>2, QuarantineMonotone DEF IInv, ViewCurrent
<1>4. Causal(ready', received')
  BY <1>1, ReadyFixed DEF IInv, TypeOK, ViewCurrent, Causal
<1> QED
  BY <1>1, <1>2, <1>3, <1>4, ReadyCausal

\* What is ready has all it stands on, and no slot of an actor is filled by two
\* events of which one is ready (replay 66-98).
THEOREM ReadyStaysClean == Spec => []ReadyIsClean
<1>1. ASSUME IInv
      PROVE  ReadyIsClean
  <2>1. SUFFICES ASSUME NEW i \in ready
                 PROVE  /\ Parents(i) \subseteq ready
                        /\ \A j \in received : SameSlot(i, j) => i = j
    BY DEF ReadyIsClean
  <2>2. Parents(i) \subseteq ready /\ i \in received \ quarantine
    BY <1>1, <2>1, ReadyFixed DEF IInv, ViewCurrent
  <2>3. Equivocating(received) \subseteq quarantine
    BY <1>1, QuarantineClosed DEF IInv, ViewCurrent, PoisonClosed
  <2> QED
    BY <2>2, <2>3 DEF Equivocating
<1> QED
  BY <1>1, Invariance, PTL

\* No arrival takes an event out of the quarantine (replay 72-88).
THEOREM QuarantineNeverShrinks == Spec => QuarantineGrows
<1>1. IInv /\ [Next]_vars => [quarantine \subseteq quarantine']_vars
  BY JournalGrows
<1> QED
  BY <1>1, Invariance, PTL DEF Spec, QuarantineGrows

\* Late arrivals make nothing that was ready wait again (replay 89-98).
THEOREM ReadyNeverWaitsAgain == Spec => ReadyStands
<1>1. IInv /\ [Next]_vars => [ready \ quarantine' \subseteq ready']_vars
  <2> SUFFICES ASSUME IInv, [Next]_vars
               PROVE  ready \ quarantine' \subseteq ready'
    OBVIOUS
  <2> QED
    BY JournalGrows, ReadyMonotone DEF IInv, ViewCurrent
<1> QED
  BY <1>1, Invariance, PTL DEF Spec, ReadyStands

\* Whether a ready event is blocked never changes while it is ready
\* (replay 104-212).
THEOREM JudgementIsFinal == Spec => JudgementStands
<1> DEFINE before == Blocked(received, quarantine, ready)
           after == Blocked(received', quarantine', ready')
<1>1. IInv /\ [Next]_vars
        => [\A i \in ready \cap ready' : i \in before <=> i \in after]_vars
  <2> SUFFICES ASSUME IInv, [Next]_vars, NEW i \in ready \cap ready'
               PROVE  i \in before <=> i \in after
    OBVIOUS
  <2>1. i \notin quarantine /\ i \notin quarantine'
    BY JournalGrows DEF IInv, TypeOK
  <2> QED
    BY <2>1, JournalGrows, BlockedSame
<1> QED
  BY <1>1, Invariance, PTL DEF Spec, JudgementStands

\* A valid decision stays valid unless it is quarantined: later receipts are
\* outside its cut (decide 31-52, replay 298-334).
THEOREM DecisionIsFinal == Spec => DecisionsStand
<1>1. IInv /\ [Next]_vars
        => [\A d \in ready : ValidDecision(d, received, ready) /\ d \notin quarantine'
              => ValidDecision(d, received', ready')]_vars
  <2> SUFFICES ASSUME IInv, [Next]_vars, NEW d \in ready,
                      ValidDecision(d, received, ready), d \notin quarantine'
               PROVE  ValidDecision(d, received', ready')
    OBVIOUS
  <2>1. d \in ready'
    BY JournalGrows, ReadyMonotone DEF IInv, ViewCurrent
  <2> QED
    BY <2>1, JournalGrows, DecisionSame
<1> QED
  BY <1>1, Invariance, PTL DEF Spec, DecisionsStand

\* A claim's status only climbs while none of its receipts is quarantined:
\* support and refutation never replace one another (replay 236-263).
THEOREM StatusNeverFlips == Spec => StatusClimbs
<1> DEFINE Kept(c) == \A v \in Receipts(received, ready) : Body(v).claim = c => v \notin quarantine'
           old(c) == ClaimStatus(c, received, quarantine, ready)
           new(c) == ClaimStatus(c, received', quarantine', ready')
<1>1. IInv /\ [Next]_vars
        => [\A c \in Claims(received) \ quarantine' :
              Kept(c) => new(c) \in {old(c)} \cup Later(old(c))]_vars
  <2> SUFFICES ASSUME IInv, [Next]_vars, NEW c \in Claims(received) \ quarantine', Kept(c)
               PROVE  new(c) \in {old(c)} \cup Later(old(c))
    OBVIOUS
  <2>1. c \notin quarantine /\ ready \ quarantine' \subseteq ready'
    BY JournalGrows, ReadyMonotone DEF IInv, ViewCurrent
  <2>2. ASSUME NEW verdict
        PROVE  ReceiptsFor(c, verdict, received, ready)
                 \subseteq ReceiptsFor(c, verdict, received', ready')
    <3>1. ReceiptsFor(c, verdict, received, ready) \subseteq ready'
      BY <2>1 DEF ReceiptsFor, Receipts
    <3> QED
      BY <3>1, JournalGrows, ReceiptsSame
  <2>3. CASE c \notin ready
    BY <2>1, <2>3 DEF ClaimStatus, Later
  <2>4. CASE c \in ready
    <3>1. c \in ready'
      BY <2>1, <2>4
    <3> DEFINE sup == ReceiptsFor(c, "SUPPORTED", received, ready) # {}
               ref == ReceiptsFor(c, "REFUTED", received, ready) # {}
               supp == ReceiptsFor(c, "SUPPORTED", received', ready') # {}
               reff == ReceiptsFor(c, "REFUTED", received', ready') # {}
    <3>2. (sup => supp) /\ (ref => reff)
      BY <2>2
    <3>3. old(c) = IF sup /\ ref THEN "DISPUTED" ELSE IF sup THEN "SUPPORTED"
                   ELSE IF ref THEN "REFUTED" ELSE "UNVERIFIED"
      BY <2>1, <2>4 DEF ClaimStatus
    <3>4. new(c) = IF supp /\ reff THEN "DISPUTED" ELSE IF supp THEN "SUPPORTED"
                   ELSE IF reff THEN "REFUTED" ELSE "UNVERIFIED"
      BY <3>1 DEF ClaimStatus
    <3> HIDE DEF sup, ref, supp, reff, old, new
    <3> QED
      BY <3>2, <3>3, <3>4 DEF Later
  <2> QED
    BY <2>3, <2>4
<1> QED
  BY <1>1, Invariance, PTL DEF Spec, StatusClimbs

-----------------------------------------------------------------------------
(* The loops of replay.                                                     *)

\* The quarantine found so far is real; once a pass has changed nothing, what
\* it has visited is closed.
QuarantineInv ==
    /\ Equivocating(events) \subseteq poisoned
    /\ poisoned \subseteq Quarantine(events)
    /\ phase = "quarantine" /\ ~changed =>
          \A e \in events \ todo : Parents(e) \cap poisoned # {} => e \in poisoned
    /\ phase # "quarantine" => poisoned = Quarantine(events)

\* The same of what is ready.
ReadyInv ==
    /\ phase = "quarantine" => admitted = {}
    /\ admitted \subseteq Ready(events, poisoned)
    /\ phase = "ready" /\ ~changed =>
          \A e \in events \ todo : e \notin poisoned /\ Parents(e) \subseteq admitted => e \in admitted
    /\ phase = "done" => admitted = Ready(events, poisoned)

LoopIInv == LoopTypeOK /\ QuarantineInv /\ ReadyInv

LEMMA LoopInitIInv == LoopInit => LoopIInv
<1> SUFFICES ASSUME LoopInit
             PROVE  LoopIInv
  OBVIOUS
<1>1. Equivocating(events) \subseteq events
  BY DEF Equivocating
<1>2. Equivocating(events) \subseteq Quarantine(events)
  BY QuarantineClosed DEF PoisonClosed
<1> QED
  BY <1>1, <1>2 DEF LoopInit, LoopIInv, LoopTypeOK, QuarantineInv, ReadyInv

LEMMA PoisonIInv ==
    ASSUME LoopIInv, NEW e \in EventId, Poison(e)
    PROVE  LoopIInv'
<1>1. LoopTypeOK'
  BY DEF LoopIInv, LoopTypeOK, Poison, ReadyInv
<1>2. QuarantineInv'
  <2>1. CASE e \notin poisoned /\ Parents(e) \cap poisoned # {}
    <3>1. e \in Quarantine(events)
      BY <2>1, QuarantineClosed DEF LoopIInv, QuarantineInv, LoopTypeOK, Poison, PoisonClosed
    <3> QED
      BY <2>1, <3>1 DEF LoopIInv, QuarantineInv, LoopTypeOK, Poison
  <2>2. CASE ~(e \notin poisoned /\ Parents(e) \cap poisoned # {})
    BY <2>2 DEF LoopIInv, QuarantineInv, Poison
  <2> QED
    BY <2>1, <2>2
<1>3. ReadyInv'
  BY DEF LoopIInv, ReadyInv, Poison
<1> QED
  BY <1>1, <1>2, <1>3 DEF LoopIInv

LEMMA AdmitIInv ==
    ASSUME LoopIInv, NEW e \in EventId, Admit(e)
    PROVE  LoopIInv'
<1>1. LoopTypeOK'
  BY DEF LoopIInv, LoopTypeOK, Admit
<1>2. QuarantineInv'
  BY DEF LoopIInv, QuarantineInv, Admit
<1>3. ReadyInv'
  <2>1. CASE e \notin admitted \cup poisoned /\ Parents(e) \subseteq admitted
    <3>1. e \in Ready(events, poisoned)
      BY <2>1, ReadyCloses DEF LoopIInv, ReadyInv, LoopTypeOK, Admit, ReadyClosed
    <3> QED
      BY <2>1, <3>1 DEF LoopIInv, ReadyInv, Admit
  <2>2. CASE ~(e \notin admitted \cup poisoned /\ Parents(e) \subseteq admitted)
    BY <2>2 DEF LoopIInv, ReadyInv, Admit
  <2> QED
    BY <2>1, <2>2
<1> QED
  BY <1>1, <1>2, <1>3 DEF LoopIInv

LEMMA PoisonPassIInv ==
    ASSUME LoopIInv, PoisonPass
    PROVE  LoopIInv'
<1>1. LoopTypeOK'
  BY DEF LoopIInv, LoopTypeOK, PoisonPass, Pass
<1>2. QuarantineInv'
  <2>1. CASE changed
    BY <2>1 DEF LoopIInv, QuarantineInv, PoisonPass, Pass
  <2>2. CASE ~changed
    <3>1. PoisonClosed(poisoned, Equivocating(events), events)
      BY <2>2 DEF LoopIInv, QuarantineInv, PoisonPass, Pass, PoisonClosed
    <3>2. Quarantine(events) \subseteq poisoned
      BY <3>1, QuarantineLeast DEF LoopIInv, LoopTypeOK
    <3> QED
      BY <2>2, <3>2 DEF LoopIInv, QuarantineInv, PoisonPass, Pass
  <2> QED
    BY <2>1, <2>2
<1>3. ReadyInv'
  BY DEF LoopIInv, ReadyInv, PoisonPass, Pass
<1> QED
  BY <1>1, <1>2, <1>3 DEF LoopIInv

LEMMA AdmitPassIInv ==
    ASSUME LoopIInv, AdmitPass
    PROVE  LoopIInv'
<1>1. LoopTypeOK'
  BY DEF LoopIInv, LoopTypeOK, AdmitPass, Pass
<1>2. QuarantineInv'
  BY DEF LoopIInv, QuarantineInv, AdmitPass, Pass
<1>3. ReadyInv'
  <2>1. CASE changed
    BY <2>1 DEF LoopIInv, ReadyInv, AdmitPass, Pass
  <2>2. CASE ~changed
    <3>1. ReadyClosed(admitted, events, poisoned)
      BY <2>2 DEF LoopIInv, ReadyInv, AdmitPass, Pass, ReadyClosed
    <3>2. Ready(events, poisoned) \subseteq admitted
      BY <3>1, ReadyLeast DEF LoopIInv, LoopTypeOK
    <3> QED
      BY <2>2, <3>2 DEF LoopIInv, ReadyInv, AdmitPass, Pass
  <2> QED
    BY <2>1, <2>2
<1> QED
  BY <1>1, <1>2, <1>3 DEF LoopIInv

LEMMA LoopInvariance == LoopSpec => []LoopIInv
<1>1. LoopIInv /\ [LoopNext]_loopVars => LoopIInv'
  <2> SUFFICES ASSUME LoopIInv, [LoopNext]_loopVars
               PROVE  LoopIInv'
    OBVIOUS
  <2>1. ASSUME NEW e \in EventId, Poison(e)
        PROVE  LoopIInv'
    BY <2>1, PoisonIInv
  <2>2. ASSUME NEW e \in EventId, Admit(e)
        PROVE  LoopIInv'
    BY <2>2, AdmitIInv
  <2>3. CASE PoisonPass
    BY <2>3, PoisonPassIInv
  <2>4. CASE AdmitPass
    BY <2>4, AdmitPassIInv
  <2>5. CASE UNCHANGED loopVars
    BY <2>5 DEF LoopIInv, LoopTypeOK, QuarantineInv, ReadyInv, loopVars
  <2> QED
    BY <2>1, <2>2, <2>3, <2>4, <2>5 DEF LoopNext, Done
<1> QED
  BY LoopInitIInv, <1>1, PTL DEF LoopSpec

\* Whatever the hashes are, the loops return the least fixed points: the view
\* is a function of the set of events (replay 79-98).
THEOREM LoopsCompute == LoopSpec => []LoopsAgree
<1>1. LoopIInv => LoopsAgree
  BY DEF LoopIInv, QuarantineInv, ReadyInv, LoopsAgree
<1> QED
  BY <1>1, LoopInvariance, PTL

-----------------------------------------------------------------------------
(* The verdict: doubts.                                                     *)

\* A refutation of the target has been reproduced, now or before its slot
\* turned out to be filled twice.
Doubted(m) ==
    \E v \in received :
        /\ Kind(v) = "verification"
        /\ Body(v).claim = m.claim
        /\ Body(v).result.verdict = "REFUTED"
        /\ v \in quarantine \/ v \in Receipts(received, ready)

LEMMA RefutedDoubted ==
    ASSUME IInv, NEW m, Refuted(m)
    PROVE  Doubted(m)
<1>1. PICK v \in Receipts(received, ready) :
        Body(v).claim = m.claim /\ Body(v).result.verdict = "REFUTED"
  BY DEF Refuted, Says, ReceiptsFor
<1>2. v \in received /\ Kind(v) = "verification"
  BY <1>1 DEF Receipts, LocallyReproduced, IInv, TypeOK
<1> QED
  BY <1>1, <1>2 DEF Doubted

LEMMA DoubtStays ==
    ASSUME IInv, [Next]_vars, NEW m, Doubted(m)
    PROVE  Doubted(m)'
<1>1. PICK v \in received :
        /\ Kind(v) = "verification"
        /\ Body(v).claim = m.claim
        /\ Body(v).result.verdict = "REFUTED"
        /\ v \in quarantine \/ v \in Receipts(received, ready)
  BY DEF Doubted
<1>2. v \in quarantine' \/ v \in Receipts(received', ready')
  <2>1. CASE v \in quarantine'
    BY <2>1
  <2>2. CASE v \notin quarantine'
    <3>1. v \in Receipts(received, ready)
      BY <1>1, <2>2, JournalGrows
    <3>2. v \in ready /\ v \in ready'
      BY <2>2, <3>1, JournalGrows, ReadyMonotone DEF Receipts, IInv, ViewCurrent
    <3>3. LocallyReproduced(v, received', ready')
      BY <3>1, <3>2, JournalGrows, ReproducedSame DEF Receipts
    <3> QED
      BY <3>2, <3>3 DEF Receipts
  <2> QED
    BY <2>1, <2>2
<1>3. v \in received'
  BY JournalGrows
<1> QED
  BY <1>1, <1>2, <1>3 DEF Doubted

LEMMA AttachedRelevant ==
    ASSUME NEW m, NEW S
    PROVE  Attached(m, S) \subseteq Relevant(m, S)
BY DEF Relevant, Cone

\* The cone of what lies in a causally closed part of S lies in it.
LEMMA ConeWithin ==
    ASSUME NEW S, NEW R \in SUBSET S, \A i \in R : Parents(i) \subseteq R, NEW from \in SUBSET R
    PROVE  Cone(from, S) \subseteq R
<1> DEFINE A == R \ from
           others == (S \cup UNION {Parents(i) : i \in S}) \ from
<1>1. A \in SUBSET others
  OBVIOUS
<1>2. \A i \in S \cap (A \cup from) : Parents(i) \subseteq A \cup from
  OBVIOUS
<1>3. \A i \in Cone(from, S) : i \in from \/ i \in A
  BY <1>1, <1>2 DEF Cone
<1> QED
  BY <1>3

LEMMA QuarantinedBlocked ==
    ASSUME NEW m, NEW S, NEW Q, NEW R, NEW v \in Q \cap Attached(m, S)
    PROVE  Incomplete(m, S, Q, R)
<1>1. v \in Blocked(S, Q, R)
  BY DEF Blocked
<1> QED
  BY <1>1, AttachedRelevant DEF Incomplete

LEMMA DoubtNeverPasses ==
    ASSUME IInv, NEW m, Doubted(m)
    PROVE  Report(m) # "VERIFIED"
<1>1. PICK v \in received :
        /\ Kind(v) = "verification"
        /\ Body(v).claim = m.claim
        /\ Body(v).result.verdict = "REFUTED"
        /\ v \in quarantine \/ v \in Receipts(received, ready)
  BY DEF Doubted
<1>2. CASE v \in quarantine
  <2>1. v \in Attached(m, received)
    BY <1>1 DEF Attached, AboutClaim
  <2> QED
    BY <1>2, <2>1, QuarantinedBlocked DEF Report, Code
<1>3. CASE v \in Receipts(received, ready)
  <2>1. Says(m, "REFUTED", received, ready)
    BY <1>1, <1>3 DEF Says, ReceiptsFor
  <2>2. Weigh(m, received, ready) # "VERIFIED"
    <3>1. CASE Says(m, "SUPPORTED", received, ready)
      BY <2>1, <3>1 DEF Weigh
    <3>2. CASE ~Says(m, "SUPPORTED", received, ready)
      <4>1. Witnesses(m, "SUPPORTED", received, ready) = {}
        BY <3>2 DEF Says, Witnesses
      <4>2. ~(Cardinality(Witnesses(m, "SUPPORTED", received, ready)) >= 2)
        BY <4>1, FS_EmptySet
      <4> QED
        BY <4>2 DEF Weigh
    <3> QED
      BY <3>1, <3>2
  <2> QED
    BY <2>2 DEF Report, Code
<1> QED
  BY <1>1, <1>2, <1>3

\* A counterexample that was reproduced once is never outvoted, and no later
\* equivocation of its author erases it (package 261-310).
THEOREM CounterexampleIsFinal == Spec => CounterexampleSticks
<1>1. ASSUME NEW m \in Reviews
      PROVE  Spec => [](Refuted(m) => [](Report(m) # "VERIFIED"))
  <2>1. IInv /\ Refuted(m) => Doubted(m)
    BY RefutedDoubted
  <2>2. IInv /\ Doubted(m) /\ [Next]_vars => Doubted(m)'
    BY DoubtStays
  <2>3. IInv /\ Doubted(m) => Report(m) # "VERIFIED"
    BY DoubtNeverPasses
  <2> QED
    BY <2>1, <2>2, <2>3, Invariance, PTL DEF Spec
<1> QED
  BY <1>1 DEF CounterexampleSticks

-----------------------------------------------------------------------------
(* Failures.                                                                *)

\* The grounds of a failure of a claim that was ready, as they last.
Doomed(m) ==
    \/ ~PinsHold(m)
    \/ m.claim \in quarantine
    \/ m.claim \in ready /\ ~TaskBound(m, received, ready)
    \/ Foreign(m, received)
    \/ Doubted(m)

LEMMA FailureDooms ==
    ASSUME IInv, NEW m, m.claim \in ready, Status(Report(m)) = "FAIL"
    PROVE  Doomed(m)
<1>1. Report(m) \in {"BINDING_MISMATCH", "CLAIM_REFUTED"}
  BY DEF Status
<1>2. CASE Report(m) = "BINDING_MISMATCH"
  <2>1. Weigh(m, received, ready) # "BINDING_MISMATCH"
    BY DEF Weigh
  <2> QED
    BY <1>2, <2>1 DEF Report, Code, Doomed
<1>3. CASE Report(m) = "CLAIM_REFUTED"
  <2>1. Weigh(m, received, ready) = "CLAIM_REFUTED" \/ Doomed(m)
    BY <1>3 DEF Report, Code, Doomed
  <2>2. CASE Weigh(m, received, ready) = "CLAIM_REFUTED"
    <3>1. Cardinality(Witnesses(m, "REFUTED", received, ready)) >= 2
      BY <2>2 DEF Weigh
    <3>2. Witnesses(m, "REFUTED", received, ready) # {}
      BY <3>1, FS_EmptySet
    <3>3. Refuted(m)
      BY <3>2 DEF Witnesses, Refuted, Says
    <3> QED
      BY <3>3, RefutedDoubted DEF Doomed
  <2> QED
    BY <2>1, <2>2
<1> QED
  BY <1>1, <1>2, <1>3

LEMMA TaskBoundSame ==
    ASSUME NEW S, NEW R, Causal(R, S), NEW T, NEW U, Causal(U, T), NEW m, m.claim \in R \cap U
    PROVE  TaskBound(m, S, R) <=> TaskBound(m, T, U)
<1>1. /\ TasksOf(m.claim, S) = TasksOf(m.claim, T)
      /\ TasksOf(m.claim, S) \subseteq R /\ TasksOf(m.claim, S) \subseteq U
  BY TasksSame
<1> QED
  BY <1>1 DEF TaskBound, ProvenanceHolds

LEMMA DoomStays ==
    ASSUME IInv, [Next]_vars, NEW m, Doomed(m)
    PROVE  Doomed(m)'
<1>1. CASE ~PinsHold(m)
  BY <1>1 DEF Doomed
<1>2. CASE m.claim \in quarantine
  BY <1>2, JournalGrows DEF Doomed
<1>3. CASE m.claim \in ready /\ ~TaskBound(m, received, ready)
  <2>1. CASE m.claim \in quarantine'
    BY <2>1 DEF Doomed
  <2>2. CASE m.claim \notin quarantine'
    <3>1. m.claim \in ready'
      BY <1>3, <2>2, JournalGrows, ReadyMonotone DEF IInv, ViewCurrent
    <3>2. ~TaskBound(m, received', ready')
      BY <1>3, <3>1, JournalGrows, TaskBoundSame
    <3> QED
      BY <3>1, <3>2 DEF Doomed
  <2> QED
    BY <2>1, <2>2
<1>4. CASE Foreign(m, received)
  <2>1. Foreign(m, received')
    BY <1>4, JournalGrows DEF Foreign
  <2> QED
    BY <2>1 DEF Doomed
<1>5. CASE Doubted(m)
  BY <1>5, DoubtStays DEF Doomed
<1> QED
  BY <1>1, <1>2, <1>3, <1>4, <1>5 DEF Doomed

LEMMA DoomNeverPasses ==
    ASSUME IInv, NEW m, Doomed(m)
    PROVE  Report(m) # "VERIFIED"
<1>1. CASE ~PinsHold(m)
  BY <1>1 DEF Report, Code
<1>2. CASE m.claim \in quarantine \/ (m.claim \in ready /\ ~TaskBound(m, received, ready))
  <2>1. ~TaskBound(m, received, ready)
    BY <1>2 DEF TaskBound, IInv, TypeOK
  <2> QED
    BY <2>1 DEF Report, Code
<1>3. CASE Foreign(m, received)
  BY <1>3 DEF Report, Code
<1>4. CASE Doubted(m)
  BY <1>4, DoubtNeverPasses
<1> QED
  BY <1>1, <1>2, <1>3, <1>4 DEF Doomed

\* A failure of a claim that has all it stands on is final: what arrives later
\* makes no pass of it (package 191-243, 299-304).
THEOREM FailureNeverPasses == Spec => FailureIsFinal
<1>1. ASSUME NEW m \in Reviews
      PROVE  Spec => [](m.claim \in ready /\ m.task \in received /\ Status(Report(m)) = "FAIL"
                          => [](Report(m) # "VERIFIED"))
  <2>1. IInv /\ m.claim \in ready /\ m.task \in received /\ Status(Report(m)) = "FAIL"
          => Doomed(m)
    BY FailureDooms
  <2>2. IInv /\ Doomed(m) /\ [Next]_vars => Doomed(m)'
    BY DoomStays
  <2>3. IInv /\ Doomed(m) => Report(m) # "VERIFIED"
    BY DoomNeverPasses
  <2> QED
    BY <2>1, <2>2, <2>3, Invariance, PTL DEF Spec
<1> QED
  BY <1>1 DEF FailureIsFinal

-----------------------------------------------------------------------------
(* Passes.                                                                  *)

LEMMA WitnessesFinite ==
    ASSUME NEW m, NEW verdict, NEW S, NEW R, R \subseteq EventId
    PROVE  IsFiniteSet(Witnesses(m, verdict, S, R))
<1> DEFINE V == {x \in ReceiptsFor(m.claim, verdict, S, R) :
                   Body(x).verifier = Body(m.task).operation}
           f == [v \in V |-> ev[v].actor]
           A == {ev[v].actor : v \in V}
<1>1. IsFiniteSet(V)
  <2>1. V \subseteq EventId
    BY DEF ReceiptsFor, Receipts
  <2> QED
    BY <2>1, ReviewsAssumption, FS_Subset
<1>2. f \in Surjection(V, A)
  BY DEF Surjection
<1>3. IsFiniteSet(A)
  BY <1>1, <1>2, FS_Surjection
<1>4. Witnesses(m, verdict, S, R) \subseteq A
  BY DEF Witnesses
<1> QED
  BY <1>3, <1>4, FS_Subset

\* A pass whose target stays complete keeps its witnesses.
LEMMA WitnessesStay ==
    ASSUME IInv, [Next]_vars, NEW m, ~Incomplete(m, received', quarantine', ready')
    PROVE  Witnesses(m, "SUPPORTED", received, ready)
             \subseteq Witnesses(m, "SUPPORTED", received', ready')
<1>1. ASSUME NEW v \in ReceiptsFor(m.claim, "SUPPORTED", received, ready)
      PROVE  v \in ReceiptsFor(m.claim, "SUPPORTED", received', ready')
  <2>1. v \in ready /\ Kind(v) = "verification" /\ Body(v).claim = m.claim
    BY <1>1 DEF ReceiptsFor, Receipts, LocallyReproduced
  <2>2. v \in received'
    BY <2>1, JournalGrows DEF Causal
  <2>3. v \in Attached(m, received')
    BY <2>1, <2>2 DEF Attached, AboutClaim
  <2>4. v \notin quarantine'
    BY <2>3, QuarantinedBlocked
  <2>5. v \in ready'
    BY <2>1, <2>4, JournalGrows, ReadyMonotone DEF IInv, ViewCurrent
  <2> QED
    BY <1>1, <2>1, <2>5, JournalGrows, ReceiptsSame
<1> QED
  BY <1>1 DEF Witnesses

LEMMA PassStep ==
    ASSUME IInv, [Next]_vars, NEW m, Report(m) = "VERIFIED"
    PROVE  Report(m)' \in {"VERIFIED", "CONFLICT", "INCOMPLETE_EVIDENCE", "BINDING_MISMATCH"}
<1> DEFINE before == Witnesses(m, "SUPPORTED", received, ready)
           after == Witnesses(m, "SUPPORTED", received', ready')
           refute == Witnesses(m, "REFUTED", received', ready')
<1>1. SUFFICES ASSUME ~Incomplete(m, received', quarantine', ready'),
                      Report(m)' = Weigh(m, received', ready')
               PROVE  Weigh(m, received', ready') \in {"VERIFIED", "CONFLICT"}
  BY DEF Report, Code
<1>2. Cardinality(before) >= 2
  <2>1. Weigh(m, received, ready) = "VERIFIED"
    BY DEF Report, Code
  <2> QED
    BY <2>1 DEF Weigh
<1>3. IsFiniteSet(after)
  BY JournalGrows, WitnessesFinite DEF Causal
<1>4. Cardinality(after) >= 2
  <2>1. before \subseteq after
    BY <1>1, WitnessesStay
  <2>2. Cardinality(before) <= Cardinality(after)
    BY <1>3, <2>1, FS_Subset
  <2>3. Cardinality(before) \in Nat /\ Cardinality(after) \in Nat
    BY <1>3, <2>1, FS_Subset, FS_CardinalityType
  <2> QED
    BY <1>2, <2>2, <2>3
<1>5. Says(m, "SUPPORTED", received', ready')
  <2>1. after # {}
    BY <1>4, FS_EmptySet
  <2> QED
    BY <2>1 DEF Witnesses, Says
<1>6. CASE Says(m, "REFUTED", received', ready')
  BY <1>5, <1>6 DEF Weigh
<1>7. CASE ~Says(m, "REFUTED", received', ready')
  <2>1. refute = {}
    BY <1>7 DEF Witnesses, Says
  <2>2. ~(Cardinality(refute) >= 2)
    BY <2>1, FS_EmptySet
  <2> QED
    BY <1>4, <1>7, <2>1, <2>2 DEF Weigh
<1> QED
  BY <1>6, <1>7

LEMMA TwoMembers ==
    ASSUME NEW W, IsFiniteSet(W), Cardinality(W) >= 2
    PROVE  \E x, y \in W : x # y
<1>1. SUFFICES ASSUME \A x, y \in W : x = y
               PROVE  FALSE
  OBVIOUS
<1>2. PICK x \in W : TRUE
  BY FS_EmptySet
<1>3. W = {x}
  BY <1>1, <1>2
<1> QED
  BY <1>3, FS_Singleton

LEMMA PassGrounds ==
    ASSUME IInv, NEW m, Report(m) = "VERIFIED"
    PROVE  /\ Cardinality(Witnesses(m, "SUPPORTED", received, ready)) >= 2
           /\ ~Says(m, "REFUTED", received, ready)
           /\ TargetPresent(m, received)
           /\ ~Incomplete(m, received, quarantine, ready)
<1>1. /\ TargetPresent(m, received)
      /\ ~Incomplete(m, received, quarantine, ready)
      /\ Weigh(m, received, ready) = "VERIFIED"
  BY DEF Report, Code
<1>2. Cardinality(Witnesses(m, "SUPPORTED", received, ready)) >= 2
  BY <1>1 DEF Weigh
<1>3. Says(m, "SUPPORTED", received, ready)
  <2>1. Witnesses(m, "SUPPORTED", received, ready) # {}
    BY <1>2, FS_EmptySet
  <2> QED
    BY <2>1 DEF Witnesses, Says
<1>4. ~Says(m, "REFUTED", received, ready)
  BY <1>1, <1>3 DEF Weigh
<1> QED
  BY <1>1, <1>2, <1>4

\* What a complete target rests on is ready.
LEMMA CompleteReady ==
    ASSUME IInv, NEW m, TargetPresent(m, received), ~Incomplete(m, received, quarantine, ready)
    PROVE  Relevant(m, received) \subseteq ready \ Blocked(received, quarantine, ready)
<1> DEFINE from == Attached(m, received)
<1>1. /\ Relevant(m, received) \cap Pending(received, quarantine, ready) = {}
      /\ Relevant(m, received) \cap Blocked(received, quarantine, ready) = {}
  BY DEF Incomplete
<1>2. from \subseteq received
  BY DEF Attached, TargetPresent
<1>3. from \subseteq ready
  <2>1. from \cap quarantine = {}
    BY <1>1, AttachedRelevant DEF Blocked
  <2> QED
    BY <1>1, <1>2, <2>1, AttachedRelevant DEF Pending
<1>4. ready \subseteq received /\ \A i \in ready : Parents(i) \subseteq ready
  BY ReadyFixed DEF IInv, ViewCurrent
<1>5. Cone(from, received) \subseteq ready
  BY <1>3, <1>4, ConeWithin
<1>6. Relevant(m, received) \subseteq ready
  BY <1>5 DEF Relevant
<1> QED
  BY <1>1, <1>6

\* A package passes only on grounds that all stand: two actors that did not
\* submit, no refutation, and everything the target rests on ready and not
\* blocked (package 244-316).
THEOREM PassEarned == Spec => []PassIsEarned
<1>1. ASSUME IInv, NEW m \in Reviews, Report(m) = "VERIFIED"
      PROVE  /\ \E v, w \in ReceiptsFor(m.claim, "SUPPORTED", received, ready) :
                   /\ ev[v].actor # ev[w].actor
                   /\ {ev[v].actor, ev[w].actor} \cap Submitters(m) = {}
             /\ ReceiptsFor(m.claim, "REFUTED", received, ready) = {}
             /\ Relevant(m, received) \subseteq ready \ Blocked(received, quarantine, ready)
  <2> DEFINE support == Witnesses(m, "SUPPORTED", received, ready)
  <2>1. /\ Cardinality(support) >= 2
        /\ ~Says(m, "REFUTED", received, ready)
        /\ TargetPresent(m, received)
        /\ ~Incomplete(m, received, quarantine, ready)
    BY <1>1, PassGrounds
  <2>2. PICK x, y \in support : x # y
    <3>1. IsFiniteSet(support)
      BY <1>1, WitnessesFinite, ReadyFixed DEF IInv, TypeOK, ViewCurrent
    <3> QED
      BY <2>1, <3>1, TwoMembers
  <2>3. \A z \in support : /\ z \notin Submitters(m)
                            /\ \E v \in ReceiptsFor(m.claim, "SUPPORTED", received, ready) : z = ev[v].actor
    BY DEF Witnesses
  <2>4. \E v, w \in ReceiptsFor(m.claim, "SUPPORTED", received, ready) :
            /\ ev[v].actor # ev[w].actor
            /\ {ev[v].actor, ev[w].actor} \cap Submitters(m) = {}
    BY <2>2, <2>3
  <2>5. ReceiptsFor(m.claim, "REFUTED", received, ready) = {}
    BY <2>1 DEF Says
  <2> QED
    BY <1>1, <2>1, <2>4, <2>5, CompleteReady
<1>2. IInv => PassIsEarned
  BY <1>1 DEF PassIsEarned
<1> QED
  BY <1>2, Invariance, PTL

\* A pass is lost only to a conflict, to evidence that became incomplete or to
\* a foreign event (package 261-321).
THEOREM PassLostForCause == Spec => PassIsLostForCause
<1>1. IInv /\ [Next]_vars
        => [\A m \in Reviews : Report(m) = "VERIFIED" =>
              Report(m)' \in {"VERIFIED", "CONFLICT", "INCOMPLETE_EVIDENCE", "BINDING_MISMATCH"}]_vars
  BY PassStep
<1> QED
  BY <1>1, Invariance, PTL DEF Spec, PassIsLostForCause
=============================================================================
