------------------------------- MODULE Replay -------------------------------
(***************************************************************************)
(* A journal that fills, and is replayed after each delivery: events come  *)
(* in any order, parents after children, any of them more than once, into  *)
(* a journal that may hold some already.  What may and what may not change *)
(* between two views is stated here.                                       *)
(***************************************************************************)
EXTENDS ReplayView

CONSTANT Histories   \* [stored, arriving]: what a journal holds and what comes

ASSUME HistoriesAssumption == \A h \in Histories : h.stored \subseteq EventId

VARIABLES
    arriving,    \* the events this history delivers
    received,    \* the journal's events
    quarantine,  \* of the last view
    ready        \* of the last view

vars == <<arriving, received, quarantine, ready>>

Init ==
    /\ \E h \in Histories : arriving = h.arriving /\ received = h.stored
    /\ quarantine = Quarantine(received)
    /\ ready = Ready(received, quarantine)

\* An event arrives, for the first time or again, and replay runs.
Deliver(i) ==
    /\ i \in arriving
    /\ received' = received \cup {i}
    /\ quarantine' = Quarantine(received')
    /\ ready' = Ready(received', quarantine')
    /\ UNCHANGED arriving

Next == \E i \in EventId : Deliver(i)

Spec == Init /\ [][Next]_vars

-----------------------------------------------------------------------------
(* Properties.                                                              *)

\* A view splits the journal: nothing is both ready and quarantined, and
\* nothing is either without having been received (replay 79-100).
TypeOK ==
    /\ arriving \in {h.arriving : h \in Histories}
    /\ received \subseteq EventId
    /\ quarantine \subseteq received
    /\ ready \subseteq received \ quarantine

\* What is ready is causally closed and has no slot filled twice, whatever
\* arrived in whatever order (replay 66-98).
ReadyIsClean ==
    \A i \in ready :
        /\ Parents(i) \subseteq ready
        /\ \A j \in received : SameSlot(i, j) => i = j

\* An event once quarantined stays so: no arrival launders an equivocation
\* (replay 72-88).
QuarantineGrows == [][quarantine \subseteq quarantine']_vars

\* A ready event is lost only to the quarantine: late arrivals make nothing
\* wait again (replay 89-98).
ReadyStands == [][ready \ quarantine' \subseteq ready']_vars

\* What was said of a ready event is final while it is ready: work() signs
\* receipts, and decisions cite them, on the strength of an earlier view
\* (replay 104-212).
JudgementStands ==
    [][LET before == Blocked(received, quarantine, ready)
           after == Blocked(received', quarantine', ready')
       IN  \A i \in ready \cap ready' : i \in before <=> i \in after]_vars

\* A valid decision is valid for ever unless its own causal past turns out to
\* hold an equivocation: receipts that arrive later do not reopen it
\* (decide 31-52, replay 298-334).
DecisionsStand ==
    [][\A d \in ready : ValidDecision(d, received, ready) /\ d \notin quarantine'
          => ValidDecision(d, received', ready')]_vars

\* The statuses a claim may go to, as long as none of its receipts is lost.
Later(status) ==
    CASE status = "PENDING" -> {"UNVERIFIED", "SUPPORTED", "REFUTED", "DISPUTED"}
      [] status = "UNVERIFIED" -> {"SUPPORTED", "REFUTED", "DISPUTED"}
      [] status \in {"SUPPORTED", "REFUTED"} -> {"DISPUTED"}
      [] OTHER -> {}

\* A claim's status only climbs: support and refutation add up to a dispute,
\* and neither silently replaces the other (replay 236-263).
StatusClimbs ==
    [][\A c \in Claims(received) \ quarantine' :
          (\A v \in Receipts(received, ready) : Body(v).claim = c => v \notin quarantine')
            => LET old == ClaimStatus(c, received, quarantine, ready)
                   new == ClaimStatus(c, received', quarantine', ready')
               IN  new \in {old} \cup Later(old)]_vars
=============================================================================
