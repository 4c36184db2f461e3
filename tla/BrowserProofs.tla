----------------------------- MODULE BrowserProofs -----------------------------
(* Proofs about what runs in the browser.  P2PRoom: which connections a     *)
(* member has open, for any number of polls under way, recovery attempts    *)
(* and faults.  Workbench: how realities are judged, chained and compared,  *)
(* whatever a reducer makes of the processes of the scenarios.              *)
EXTENDS P2PRoom, Workbench, FiniteNumbers, SequenceTheorems, TLAPS

-----------------------------------------------------------------------------
(* The inductive invariant: slots and open connections go together.         *)

Fields == {"pc", "attempts", "terminal", "recreated"}

Shapes ==
    /\ pcs = [p \in Peer |-> pcs[p]]
    /\ slot = [p \in Peer |-> slot[p]]
    /\ \A p \in Peer : DOMAIN slot[p] = Fields
    /\ last \in [Peer -> Nat]
    /\ closed \in [Peer -> BOOLEAN]

\* A slot has its connection open and no other.
Owns(s, open) ==
    IF s = NoSlot THEN open = <<>>
    ELSE s.pc \in Nat \ {0} /\ DOMAIN open = {s.pc}

RoomInv ==
    /\ Shapes
    /\ \A p \in Peer : Owns(slot[p], pcs[p])
    /\ \A p \in Peer : closed[p] => slot[p] = NoSlot

-----------------------------------------------------------------------------
(* Opening and closing connections.                                         *)

LEMMA Emptied ==
    ASSUME NEW f, NEW i, DOMAIN f \subseteq {i}
    PROVE  Without(f, i) = <<>>
<1>1. DOMAIN f \ {i} = {}
  OBVIOUS
<1>2. Without(f, i) = [j \in {} |-> f[j]]
  BY <1>1 DEF Without
<1>3. [j \in {} |-> f[j]] = <<>>
  OBVIOUS
<1> QED
  BY <1>2, <1>3

LEMMA Opened ==
    ASSUME NEW f, NEW i, NEW initiator
    PROVE  /\ DOMAIN With(f, i, initiator) = DOMAIN f \cup {i}
           /\ f = <<>> => DOMAIN With(f, i, initiator) = {i}
BY DEF With

LEMMA Slots == DOMAIN NoSlot = Fields /\ NoSlot.pc = 0
BY DEF NoSlot, Fields

\* What a member closes is all it has open.
LEMMA DropEmpties ==
    ASSUME RoomInv, NEW p \in Peer
    PROVE  Without(pcs[p], slot[p].pc) = <<>>
<1>1. DOMAIN pcs[p] \subseteq {slot[p].pc}
  BY DEF RoomInv, Owns
<1> QED
  BY <1>1, Emptied

-----------------------------------------------------------------------------
(* The invariant is kept, step by step.                                     *)

\* Whatever the polls, the signals and the relay do.
LEMMA NothingMoves ==
    ASSUME RoomInv, UNCHANGED <<closed, slot, pcs, last>>
    PROVE  RoomInv'
BY DEF RoomInv, Shapes

\* The pair at p becomes slot s with connections f; nothing of the other moves.
LEMMA PairMoves ==
    ASSUME RoomInv, NEW p \in Peer, NEW s, NEW f,
           slot' = [slot EXCEPT ![p] = s], pcs' = [pcs EXCEPT ![p] = f],
           last' \in [Peer -> Nat], closed' \in [Peer -> BOOLEAN],
           \A q \in Peer \ {p} : closed'[q] = closed[q],
           DOMAIN s = Fields, Owns(s, f), closed'[p] => s = NoSlot
    PROVE  RoomInv'
<1>1. /\ slot'[p] = s /\ pcs'[p] = f /\ DOMAIN pcs' = Peer /\ DOMAIN slot' = Peer
      /\ \A q \in Peer \ {p} : slot'[q] = slot[q] /\ pcs'[q] = pcs[q]
  BY DEF RoomInv, Shapes
<1>2. pcs' = [q \in Peer |-> pcs'[q]] /\ slot' = [q \in Peer |-> slot'[q]]
  BY DEF RoomInv, Shapes
<1>3. \A q \in Peer : DOMAIN slot'[q] = Fields
  BY <1>1 DEF RoomInv, Shapes
<1>4. Shapes'
  BY <1>2, <1>3 DEF Shapes
<1>5. \A q \in Peer : Owns(slot'[q], pcs'[q]) /\ (closed'[q] => slot'[q] = NoSlot)
  BY <1>1 DEF RoomInv
<1> QED
  BY <1>4, <1>5 DEF RoomInv

\* ... which p does while it is in the room.
LEMMA PairOnly ==
    ASSUME RoomInv, NEW p \in Peer, ~closed[p], closed' = closed,
           NEW s, NEW f, slot' = [slot EXCEPT ![p] = s], pcs' = [pcs EXCEPT ![p] = f],
           last' \in [Peer -> Nat], DOMAIN s = Fields, Owns(s, f)
    PROVE  RoomInv'
<1>1. closed' \in [Peer -> BOOLEAN]
  BY DEF RoomInv, Shapes
<1> QED
  BY <1>1, PairMoves

\* The connections of p change, but not which there are.
LEMMA InsideKeeps ==
    ASSUME RoomInv, NEW p \in Peer, NEW f, DOMAIN f = DOMAIN pcs[p], DOMAIN pcs[p] # {},
           pcs' = [pcs EXCEPT ![p] = f], NEW s, slot' = [slot EXCEPT ![p] = s],
           DOMAIN s = Fields, s.pc = slot[p].pc, UNCHANGED <<closed, last>>
    PROVE  RoomInv'
<1>0. pcs[p] # <<>>
  OBVIOUS
<1>1. slot[p] # NoSlot /\ ~closed[p] /\ slot[p].pc \in Nat \ {0} /\ DOMAIN f = {slot[p].pc}
  BY <1>0 DEF RoomInv, Owns
<1>2. s # NoSlot /\ Owns(s, f)
  BY <1>1, Slots DEF Owns
<1>3. last' \in [Peer -> Nat]
  BY DEF RoomInv, Shapes
<1> QED
  BY <1>1, <1>2, <1>3, PairOnly

\* A slot put where it is: pairs do not move.
LEMMA SameSlot ==
    ASSUME RoomInv, NEW p \in Peer
    PROVE  /\ slot' = slot => slot' = [slot EXCEPT ![p] = slot[p]]
           /\ pcs' = pcs => pcs' = [pcs EXCEPT ![p] = pcs[p]]
           /\ DOMAIN slot[p] = Fields /\ DOMAIN slot = Peer
BY DEF RoomInv, Shapes

\* One connection that p has open becomes c.
LEMMA OneChanges ==
    ASSUME RoomInv, NEW p \in Peer, NEW i \in DOMAIN pcs[p], NEW c,
           pcs' = [pcs EXCEPT ![p][i] = c], UNCHANGED <<closed, slot, last>>
    PROVE  RoomInv'
<1> DEFINE f == [pcs[p] EXCEPT ![i] = c]
<1>1. pcs' = [pcs EXCEPT ![p] = f] /\ DOMAIN f = DOMAIN pcs[p] /\ DOMAIN pcs[p] # {}
  OBVIOUS
<1>2. slot' = [slot EXCEPT ![p] = slot[p]] /\ DOMAIN slot[p] = Fields
  BY SameSlot
<1> HIDE DEF f
<1> QED
  BY <1>1, <1>2, InsideKeeps

LEMMA NegotiateKeeps ==
    ASSUME RoomInv, NEW p \in Peer, Negotiate(p)
    PROVE  RoomInv'
<1>1. PICK i \in DOMAIN pcs[p] : pcs' = [pcs EXCEPT ![p][i] = Offering(pcs[p][i], i)]
  BY DEF Negotiate
<1>2. UNCHANGED <<closed, slot, last>>
  BY DEF Negotiate
<1> QED
  BY <1>1, <1>2, OneChanges

LEMMA DownKeeps ==
    ASSUME RoomInv, NEW p \in Peer, Down(p)
    PROVE  RoomInv'
<1>1. PICK i \in DOMAIN pcs[p] :
        pcs' = [pcs EXCEPT ![p][i] = [pcs[p][i] EXCEPT !.state = "failed", !.need = TRUE]]
  BY DEF Down
<1>2. UNCHANGED <<closed, slot, last>>
  BY DEF Down
<1> QED
  BY <1>1, <1>2, OneChanges

LEMMA UpKeeps ==
    ASSUME RoomInv, NEW p \in Peer, Up(p)
    PROVE  RoomInv'
<1>1. PICK i \in DOMAIN pcs[p], j \in DOMAIN pcs[Other(p)] :
        /\ pcs' = [pcs EXCEPT ![p][i] = [@ EXCEPT !.state = "connected", !.mate = j,
                                                     !.session = Session(p, i)]]
        /\ slot' = IF slot[p].pc = i
                   THEN [slot EXCEPT ![p] = [@ EXCEPT !.attempts = 0, !.terminal = FALSE]]
                   ELSE slot
  BY DEF Up
<1> DEFINE f == [pcs[p] EXCEPT ![i] = [@ EXCEPT !.state = "connected", !.mate = j,
                                                  !.session = Session(p, i)]]
           s == IF slot[p].pc = i THEN [slot[p] EXCEPT !.attempts = 0, !.terminal = FALSE]
                ELSE slot[p]
<1>2. pcs' = [pcs EXCEPT ![p] = f] /\ DOMAIN f = DOMAIN pcs[p] /\ DOMAIN pcs[p] # {}
  BY <1>1
<1>3. DOMAIN slot[p] = Fields /\ "pc" \in Fields
  BY SameSlot DEF Fields
<1>4. DOMAIN s = Fields /\ s.pc = slot[p].pc
  BY <1>3
<1>5. slot' = [slot EXCEPT ![p] = s]
  BY <1>1, SameSlot
<1>6. UNCHANGED <<closed, last>>
  BY DEF Up
<1> HIDE DEF f, s
<1> QED
  BY <1>2, <1>4, <1>5, <1>6, InsideKeeps

\* The attempts end: the slot keeps its connection.
LEMMA StallEndsKeeps ==
    ASSUME RoomInv, NEW p \in Peer, StallEnds(p)
    PROVE  RoomInv'
<1> DEFINE s == [slot[p] EXCEPT !.terminal = TRUE]
<1>1. /\ slot[p] # NoSlot /\ slot' = [slot EXCEPT ![p].terminal = TRUE]
      /\ pcs' = pcs /\ UNCHANGED <<closed, last>>
  BY DEF StallEnds, Stalled
<1>2. DOMAIN pcs[p] # {}
  BY <1>1 DEF RoomInv, Owns
<1>3. pcs' = [pcs EXCEPT ![p] = pcs[p]] /\ DOMAIN slot[p] = Fields /\ DOMAIN slot = Peer
  BY <1>1, SameSlot
<1>4. DOMAIN s = Fields /\ s.pc = slot[p].pc
  BY <1>3 DEF Fields
<1>5. slot' = [slot EXCEPT ![p] = s]
  BY <1>1
<1> HIDE DEF s
<1> QED
  BY <1>1, <1>2, <1>3, <1>4, <1>5, InsideKeeps

\* What p connects is all it has.
LEMMA Connects ==
    ASSUME RoomInv, NEW p \in Peer, NEW initiator, NEW attempts, NEW recreated,
           Connect(p, initiator, attempts, recreated, <<>>)
    PROVE  \E s, f : /\ slot' = [slot EXCEPT ![p] = s] /\ pcs' = [pcs EXCEPT ![p] = f]
                     /\ last' \in [Peer -> Nat] /\ DOMAIN s = Fields /\ Owns(s, f)
<1> DEFINE s == [pc |-> last[p] + 1, attempts |-> attempts, terminal |-> FALSE,
                 recreated |-> recreated]
           f == With(<<>>, last[p] + 1, initiator)
<1>1. slot' = [slot EXCEPT ![p] = s] /\ pcs' = [pcs EXCEPT ![p] = f]
  BY DEF Connect
<1>2. last' \in [Peer -> Nat] /\ last[p] + 1 \in Nat \ {0}
  BY DEF Connect, RoomInv, Shapes
<1>3. DOMAIN s = Fields /\ s.pc = last[p] + 1
  BY DEF Fields
<1>4. DOMAIN f = {last[p] + 1}
  BY Opened
<1> HIDE DEF s, f
<1>5. Owns(s, f)
  BY <1>2, <1>3, <1>4, Slots DEF Owns
<1> QED
  BY <1>1, <1>2, <1>3, <1>5

LEMMA RecoverKeeps ==
    ASSUME RoomInv, NEW p \in Peer, Recover(p)
    PROVE  RoomInv'
<1>1. ~closed[p] /\ slot[p] # NoSlot /\ closed' = closed
  BY DEF Recover, Stalled
<1>2. CASE Dialer(p)
  <2>1. Connect(p, TRUE, slot[p].attempts + 1, FALSE, <<>>)
    BY <1>2, DropEmpties DEF Recover
  <2> QED
    BY <1>1, <2>1, Connects, PairOnly
<1>3. CASE ~Dialer(p)
  <2> DEFINE s == [slot[p] EXCEPT !.attempts = slot[p].attempts + 1]
  <2>1. slot' = [slot EXCEPT ![p].attempts = @ + 1] /\ pcs' = pcs /\ last' = last
    BY <1>3 DEF Recover
  <2>2. DOMAIN pcs[p] # {}
    BY <1>1 DEF RoomInv, Owns
  <2>3. pcs' = [pcs EXCEPT ![p] = pcs[p]] /\ DOMAIN slot[p] = Fields /\ DOMAIN slot = Peer
    BY <2>1, SameSlot
  <2>4. DOMAIN s = Fields /\ s.pc = slot[p].pc
    BY <2>3 DEF Fields
  <2>5. slot' = [slot EXCEPT ![p] = s]
    BY <2>1, <2>3
  <2> HIDE DEF s
  <2> QED
    BY <1>1, <2>1, <2>2, <2>3, <2>4, <2>5, InsideKeeps
<1> QED
  BY <1>2, <1>3

LEMMA Drops ==
    ASSUME RoomInv, NEW p \in Peer, Drop(p)
    PROVE  /\ slot' = [slot EXCEPT ![p] = NoSlot] /\ pcs' = [pcs EXCEPT ![p] = <<>>]
           /\ DOMAIN NoSlot = Fields /\ Owns(NoSlot, <<>>)
<1>1. slot' = [slot EXCEPT ![p] = NoSlot] /\ pcs' = [pcs EXCEPT ![p] = <<>>]
  BY DropEmpties DEF Drop
<1> QED
  BY <1>1, Slots DEF Owns

LEMMA ReconcileKeeps ==
    ASSUME RoomInv, NEW p \in Peer, NEW k \in Polls[p], Reconcile(p, k)
    PROVE  RoomInv'
<1>1. ~closed[p] /\ closed' = closed
  BY DEF Reconcile
<1>2. CASE UNCHANGED <<slot, pcs, last>>
  BY <1>1, <1>2, NothingMoves
<1>3. CASE slot[p] = NoSlot /\ Connect(p, Dialer(p), 0, FALSE, pcs[p])
  <2>1. pcs[p] = <<>>
    BY <1>3 DEF RoomInv, Owns
  <2>2. Connect(p, Dialer(p), 0, FALSE, <<>>)
    BY <1>3, <2>1
  <2> QED
    BY <1>1, <2>2, Connects, PairOnly
<1>4. CASE Drop(p) /\ last' = last
  <2>1. last' \in [Peer -> Nat]
    BY <1>4 DEF RoomInv, Shapes
  <2> QED
    BY <1>1, <1>4, <2>1, Drops, PairOnly
<1> QED
  BY <1>2, <1>3, <1>4 DEF Reconcile

\* Who handles a signal of a member it knows has a slot for it, with one
\* connection; `open` is what becomes of that one.
LEMMA Welcomed ==
    ASSUME RoomInv, NEW p \in Peer, NEW open, DOMAIN open = DOMAIN Open(p), Welcome(p, open)
    PROVE  \E s : /\ slot' = [slot EXCEPT ![p] = s] /\ pcs' = [pcs EXCEPT ![p] = open]
                  /\ last' \in [Peer -> Nat] /\ DOMAIN s = Fields /\ Owns(s, open)
<1>1. pcs' = [pcs EXCEPT ![p] = open]
  BY DEF Welcome
<1>2. CASE slot[p] = NoSlot
  <2> DEFINE s == [NoSlot EXCEPT !.pc = last[p] + 1]
  <2>1. last[p] + 1 \in Nat \ {0} /\ last \in [Peer -> Nat]
    BY DEF RoomInv, Shapes
  <2>2. slot' = [slot EXCEPT ![p] = s] /\ last' = [last EXCEPT ![p] = last[p] + 1]
    BY <1>2 DEF Welcome, Target
  <2>3. DOMAIN s = Fields /\ s.pc = last[p] + 1
    BY Slots DEF Fields
  <2>4. pcs[p] = <<>>
    BY <1>2 DEF RoomInv, Owns
  <2>5. DOMAIN Open(p) = {last[p] + 1}
    BY <1>2, <2>4, Opened DEF Open, Target
  <2> HIDE DEF s
  <2>6. Owns(s, open)
    BY <2>1, <2>3, <2>5, Slots DEF Owns
  <2>7. last' \in [Peer -> Nat]
    BY <2>1, <2>2
  <2> QED
    BY <1>1, <2>2, <2>3, <2>6, <2>7
<1>3. CASE slot[p] # NoSlot
  <2>1. UNCHANGED <<slot, last>>
    BY <1>3 DEF Welcome
  <2>2. slot' = [slot EXCEPT ![p] = slot[p]] /\ DOMAIN slot[p] = Fields
    BY <2>1, SameSlot
  <2>3. DOMAIN open = DOMAIN pcs[p]
    BY <1>3 DEF Open
  <2>4. last' \in [Peer -> Nat]
    BY <2>1 DEF RoomInv, Shapes
  <2>5. Owns(slot[p], open)
    BY <1>3, <2>3 DEF RoomInv, Owns
  <2> QED
    BY <1>1, <2>2, <2>4, <2>5
<1> QED
  BY <1>2, <1>3

LEMMA CallKeeps ==
    ASSUME RoomInv, NEW p \in Peer, NEW k \in Polls[p], Call(p, k)
    PROVE  RoomInv'
<1> DEFINE open == [Open(p) EXCEPT ![Target(p)].chain = Append(@, k)]
<1>1. Welcome(p, open) /\ ~closed[p] /\ closed' = closed /\ DOMAIN open = DOMAIN Open(p)
  BY DEF Call, Handling
<1> HIDE DEF open
<1>2. PICK s : /\ slot' = [slot EXCEPT ![p] = s] /\ pcs' = [pcs EXCEPT ![p] = open]
               /\ last' \in [Peer -> Nat] /\ DOMAIN s = Fields /\ Owns(s, open)
  BY <1>1, Welcomed
<1> QED
  BY <1>1, <1>2, PairOnly

\* An operation that settles changes the connection it was called on.
LEMMA SettledKeeps ==
    ASSUME RoomInv, NEW p \in Peer, NEW k \in Polls[p],
           Apply(p, k) \/ Reject(p, k) \/ Reply(p, k)
    PROVE  RoomInv'
<1> DEFINE i == polls[p][k].pc
<1>1. i \in DOMAIN pcs[p]
  BY DEF Apply, Reject, Reply, Settles, Hung
<1>2. UNCHANGED <<closed, slot, last>>
  BY DEF Apply, Reject, Reply
<1>3. \E c : pcs' = [pcs EXCEPT ![p][i] = c]
  <2>1. CASE Apply(p, k)
    BY <2>1 DEF Apply
  <2>2. CASE Reject(p, k)
    <3>1. pcs' = [pcs EXCEPT ![p][i] = [pcs[p][i] EXCEPT !.chain = Tail(@)]]
      BY <2>2 DEF Reject
    <3> QED
      BY <3>1
  <2>3. CASE Reply(p, k)
    BY <2>3 DEF Reply
  <2> QED
    BY <2>1, <2>2, <2>3
<1> HIDE DEF i
<1> QED
  BY <1>1, <1>2, <1>3, OneChanges

\* The connection that rejects the offer is open, so it is the slot's: once it
\* is closed, the fresh one is alone.
LEMMA RecreateKeeps ==
    ASSUME RoomInv, NEW p \in Peer, NEW k \in Polls[p], Recreate(p, k)
    PROVE  RoomInv'
<1> DEFINE fresh == last[p] + 1
           s == [slot[p] EXCEPT !.pc = fresh, !.terminal = FALSE, !.recreated = TRUE]
           f == [With(<<>>, fresh, FALSE) EXCEPT ![fresh].chain = <<k>>]
<1>1. ~closed[p] /\ closed' = closed /\ polls[p][k].pc \in DOMAIN pcs[p]
  BY DEF Recreate, Settles, Hung, Rebuild
<1>2. pcs[p] # <<>>
  BY <1>1
<1>3. DOMAIN pcs[p] \subseteq {polls[p][k].pc}
  BY <1>1, <1>2 DEF RoomInv, Owns
<1>4. Rebuild(p, k, <<>>)
  BY <1>3, Emptied DEF Recreate
<1>5. /\ last' = [last EXCEPT ![p] = fresh]
      /\ slot' = [slot EXCEPT ![p] = s]
      /\ pcs' = [pcs EXCEPT ![p] = f]
  BY <1>4 DEF Rebuild
<1>6. DOMAIN s = Fields /\ s.pc = fresh
  BY SameSlot DEF Fields
<1>7. DOMAIN f = {fresh}
  BY Opened
<1>8. last' \in [Peer -> Nat] /\ fresh \in Nat \ {0}
  BY <1>5 DEF RoomInv, Shapes
<1> HIDE DEF s, f, fresh
<1>9. Owns(s, f)
  BY <1>6, <1>7, <1>8, Slots DEF Owns
<1> QED
  BY <1>1, <1>5, <1>6, <1>8, <1>9, PairOnly

LEMMA CloseKeeps ==
    ASSUME RoomInv, NEW p \in Peer, Close(p)
    PROVE  RoomInv'
<1>1. closed' = [closed EXCEPT ![p] = TRUE] /\ last' = last /\ Drop(p)
  BY DEF Close
<1>2. /\ last' \in [Peer -> Nat] /\ closed' \in [Peer -> BOOLEAN]
      /\ \A q \in Peer \ {p} : closed'[q] = closed[q]
  BY <1>1 DEF RoomInv, Shapes
<1> QED
  BY <1>1, <1>2, Drops, PairMoves

\* What touches no slot and no connection.
LEMMA RestKeeps ==
    ASSUME RoomInv, NEW p \in Peer,
           \/ Post(p) \/ PostAgain(p) \/ GiveUp(p) \/ Forget(p)
           \/ \E k \in Polls[p] :
                \/ Begin(p, k) \/ Serve(p, k) \/ Fail(p, k) \/ Abandon(p, k) \/ End(p, k)
                \/ Stranger(p, k) \/ Ignore(p, k)
    PROVE  RoomInv'
<1>1. UNCHANGED <<closed, slot, pcs, last>>
  BY DEF Post, PostAgain, GiveUp, Forget, Begin, Serve, Fail, Abandon, End, Stranger, Ignore
<1> QED
  BY <1>1, NothingMoves

-----------------------------------------------------------------------------
(* The theorems.                                                            *)

LEMMA InitRoomInv ==
    ASSUME Init
    PROVE  RoomInv
<1>1. Shapes
  BY Slots DEF Init, Shapes
<1>2. \A p \in Peer : Owns(slot[p], pcs[p]) /\ (closed[p] => slot[p] = NoSlot)
  BY DEF Init, Owns
<1> QED
  BY <1>1, <1>2 DEF RoomInv

\* Each step of the room keeps the invariant: the polls' steps, the signals', the
\* connections' and the watchdog's, leaving and being forgotten.
THEOREM RoomKept == Spec => []RoomInv
<1>1. ASSUME RoomInv, [Next]_vars
      PROVE  RoomInv'
  <2>1. ASSUME NEW p \in Peer, NEW k \in Polls[p], PollStep(p, k) \/ Fail(p, k)
        PROVE  RoomInv'
    BY <1>1, <2>1, RestKeeps, ReconcileKeeps, CallKeeps, SettledKeeps, RecreateKeeps DEF PollStep
  <2>2. ASSUME NEW p \in Peer, Post(p) \/ PostAgain(p) \/ GiveUp(p) \/ Forget(p)
        PROVE  RoomInv'
    BY <1>1, <2>2, RestKeeps
  <2>3. ASSUME NEW p \in Peer, Negotiate(p) \/ Up(p) \/ Down(p)
        PROVE  RoomInv'
    BY <1>1, <2>3, NegotiateKeeps, UpKeeps, DownKeeps
  <2>4. ASSUME NEW p \in Peer, Watchdog(p)
        PROVE  RoomInv'
    BY <1>1, <2>4, StallEndsKeeps, RecoverKeeps DEF Watchdog
  <2>5. ASSUME NEW p \in Peer, Close(p)
        PROVE  RoomInv'
    BY <1>1, <2>5, CloseKeeps
  <2>6. CASE UNCHANGED vars
    BY <1>1, <2>6, NothingMoves DEF vars
  <2> QED
    BY <1>1, <2>1, <2>2, <2>3, <2>4, <2>5, <2>6 DEF Next
<1> QED
  BY <1>1, InitRoomInv, PTL DEF Spec

\* close() leaves no connection behind, and no handler that was waiting opens one
\* after it, for any polls under way, any recovery attempts and any faults.
THEOREM RoomIsLeft == Spec => []ClosedIsClosed
<1>1. RoomInv => ClosedIsClosed
  BY DEF RoomInv, Owns, ClosedIsClosed
<1> QED
  BY <1>1, RoomKept, PTL

\* "one RTCPeerConnection per remote peer": none is forgotten while it is open,
\* also where polls overlap at members whose connections refuse an offer.
THEOREM OnePerPeer == Spec => []OneConnection
<1>1. ASSUME RoomInv, NEW p \in Peer
      PROVE  Cardinality(DOMAIN pcs[p]) <= 1
  <2>1. CASE slot[p] = NoSlot
    <3>1. DOMAIN pcs[p] = {}
      BY <1>1, <2>1 DEF RoomInv, Owns
    <3> QED
      BY <3>1, FS_EmptySet
  <2>2. CASE slot[p] # NoSlot
    <3>1. DOMAIN pcs[p] = {slot[p].pc}
      BY <1>1, <2>2 DEF RoomInv, Owns
    <3>2. Cardinality(DOMAIN pcs[p]) = 1
      BY <3>1, FS_Singleton
    <3> QED
      BY <3>2
  <2> QED
    BY <2>1, <2>2
<1>2. RoomInv => OneConnection
  BY <1>1 DEF OneConnection
<1> QED
  BY <1>2, RoomKept, PTL

-----------------------------------------------------------------------------
(* The chain of envelopes.                                                  *)

\* What is chained after i entries, as LinkEnvelopes does it.
ChainsTo(C, e, n) == C = [i \in 0 .. n |-> IF i = 0 THEN <<>> ELSE Link(C[i - 1], e[i])]
Chains(C, e) == ChainsTo(C, e, Len(e))

\* There is such a thing, for any entries.
LEMMA ChainExists ==
    ASSUME NEW e, Len(e) \in Nat
    PROVE  \E C : Chains(C, e)
<1> DEFINE S == {n \in 0 .. Len(e) : \E C : ChainsTo(C, e, n)}
<1>1. 0 \in S
  <2>1. PICK C : C = [i \in 0 .. 0 |-> <<>>]
    OBVIOUS
  <2>2. ChainsTo(C, e, 0)
    BY <2>1 DEF ChainsTo
  <2> QED
    BY <2>2
<1>2. ASSUME NEW n \in 1 .. Len(e), n - 1 \in S PROVE n \in S
  <2>1. PICK C : ChainsTo(C, e, n - 1)
    BY <1>2
  <2>2. PICK D : D = [i \in 0 .. n |-> IF i = n THEN Link(C[n - 1], e[n]) ELSE C[i]]
    OBVIOUS
  <2>3. ASSUME NEW i \in 0 .. n PROVE D[i] = IF i = 0 THEN <<>> ELSE Link(D[i - 1], e[i])
    <3>1. CASE i = n
      <4>1. n - 1 \in 0 .. n /\ n - 1 # n
        OBVIOUS
      <4>2. D[n] = Link(C[n - 1], e[n]) /\ D[n - 1] = C[n - 1]
        BY <2>2, <4>1
      <4> QED
        BY <3>1, <4>2
    <3>2. CASE i # n /\ i # 0
      <4>1. i \in 0 .. n - 1 /\ i - 1 \in 0 .. n /\ i - 1 # n
        BY <3>2
      <4>2. D[i] = C[i] /\ D[i - 1] = C[i - 1]
        BY <2>2, <3>2, <4>1
      <4>3. C[i] = Link(C[i - 1], e[i])
        BY <2>1, <3>2, <4>1 DEF ChainsTo
      <4> QED
        BY <3>2, <4>2, <4>3
    <3>3. CASE i # n /\ i = 0
      <4>1. 0 \in 0 .. n - 1
        OBVIOUS
      <4> QED
        BY <2>1, <2>2, <3>3, <4>1 DEF ChainsTo
    <3> QED
      BY <3>1, <3>2, <3>3
  <2>4. D = [i \in 0 .. n |-> D[i]]
    BY <2>2
  <2>5. ChainsTo(D, e, n)
    BY <2>3, <2>4 DEF ChainsTo
  <2> QED
    BY <2>5
<1>3. Len(e) \in S
  <2> HIDE DEF S
  <2>1. 0 .. Len(e) \subseteq S
    BY <1>1, <1>2, Throughout
  <2> QED
    BY <2>1
<1> QED
  BY <1>3 DEF Chains

\* The envelope at place i of a chain for the entries es.
Linked(chain, es, i) ==
    chain[i] = IF i = 1 THEN Envelope(es[i], Null, Null)
               ELSE Envelope(es[i], chain[i - 1].id, chain[i - 1].hash)

\* c chains the first n of the entries es.
ChainOf(c, es, n) == c = [i \in 1 .. n |-> c[i]] /\ \A i \in 1 .. n : Linked(c, es, i)

\* Linking an entry adds an envelope and leaves the others as they are.
LEMMA LinkAdds ==
    ASSUME NEW n \in Nat, NEW es, NEW c, ChainOf(c, es, n), NEW d, d = Link(c, es[n + 1])
    PROVE  ChainOf(d, es, n + 1)
<1>1. c \in Seq({c[i] : i \in 1 .. n}) /\ Len(c) = n /\ (c = <<>> <=> n = 0)
  BY DEF ChainOf
<1>2. PICK env : env = IF n = 0 THEN Envelope(es[n + 1], Null, Null)
                       ELSE Envelope(es[n + 1], c[n].id, c[n].hash)
  OBVIOUS
<1>3. d = Append(c, env)
  BY <1>1, <1>2 DEF Link
<1>4. /\ d \in Seq({c[i] : i \in 1 .. n} \cup {env}) /\ Len(d) = n + 1
      /\ d[n + 1] = env /\ \A i \in 1 .. n : d[i] = c[i]
  <2>1. PICK T : T = {c[i] : i \in 1 .. n} \cup {env}
    OBVIOUS
  <2>2. c \in Seq(T) /\ env \in T
    BY <1>1, <2>1
  <2>3. /\ Append(c, env) \in Seq(T) /\ Len(Append(c, env)) = Len(c) + 1
        /\ \A i \in 1 .. Len(c) : Append(c, env)[i] = c[i]
        /\ Append(c, env)[Len(c) + 1] = env
    BY <2>2, AppendProperties
  <2> QED
    BY <1>1, <1>3, <2>1, <2>3
<1>5. d = [i \in 1 .. n + 1 |-> d[i]]
  BY <1>4
<1>6. Linked(d, es, n + 1)
  <2>1. n = 0 <=> n + 1 = 1
    OBVIOUS
  <2>2. n # 0 => d[(n + 1) - 1] = c[n]
    BY <1>4
  <2> QED
    BY <1>2, <1>4, <2>1, <2>2 DEF Linked
<1>7. ASSUME NEW i \in 1 .. n PROVE Linked(d, es, i)
  <2>1. Linked(c, es, i) /\ d[i] = c[i] /\ (i # 1 => d[i - 1] = c[i - 1])
    BY <1>4 DEF ChainOf
  <2> QED
    BY <2>1 DEF Linked
<1>8. ASSUME NEW i \in 1 .. n + 1 PROVE Linked(d, es, i)
  BY <1>6, <1>7
<1> QED
  BY <1>5, <1>8 DEF ChainOf

\* The chain of a reality has an envelope for each of its entries, each linked to the one before.
LEMMA ChainIs ==
    ASSUME NEW r, NEW es, es = Entries(r), Len(es) \in Nat, NEW chain, chain = LinkEnvelopes(r)
    PROVE  ChainOf(chain, es, Len(es))
<1>1. PICK C : C = CHOOSE x : Chains(x, es)
  OBVIOUS
<1>2. Chains(C, es)
  BY <1>1, ChainExists
<1>3. chain = C[Len(es)]
  BY <1>1 DEF LinkEnvelopes, Chains, ChainsTo
<1> DEFINE S == {n \in 0 .. Len(es) : ChainOf(C[n], es, n)}
<1>4. 0 \in S
  <2>1. C[0] = <<>>
    BY <1>2 DEF Chains, ChainsTo
  <2> QED
    BY <2>1 DEF ChainOf
<1>5. ASSUME NEW n \in 1 .. Len(es), n - 1 \in S PROVE n \in S
  <2>1. PICK m \in Nat : m = n - 1 /\ m + 1 = n
    OBVIOUS
  <2>2. C[n] = Link(C[m], es[n])
    BY <1>2, <2>1 DEF Chains, ChainsTo
  <2>3. PICK c : c = C[m]
    OBVIOUS
  <2>4. PICK d : d = C[n]
    OBVIOUS
  <2>5. ChainOf(c, es, m)
    BY <1>5, <2>1, <2>3
  <2>6. d = Link(c, es[m + 1])
    BY <2>1, <2>2, <2>3, <2>4
  <2>7. ChainOf(d, es, m + 1)
    BY <2>5, <2>6, LinkAdds
  <2> QED
    BY <2>1, <2>4, <2>7
<1>6. Len(es) \in S
  <2> HIDE DEF S
  <2>1. 0 .. Len(es) \subseteq S
    BY <1>4, <1>5, Throughout
  <2> QED
    BY <2>1
<1> QED
  BY <1>3, <1>6

\* Whoever knows the hash of an envelope knows what it is made of.
LEMMA HashTells ==
    ASSUME NEW a, NEW b, NEW p, NEW q, NEW x, NEW y, Envelope(a, p, x).hash = Envelope(b, q, y).hash
    PROVE  x = y /\ a.id = b.id /\ a.layer = b.layer /\ a.content = b.content
<1>1. <<"env", <<a.id, p, a.layer, a.content>>, x>> = <<"env", <<b.id, q, b.layer, b.content>>, y>>
  BY DEF Envelope
<1>2. x = y /\ <<a.id, p, a.layer, a.content>> = <<b.id, q, b.layer, b.content>>
  BY <1>1
<1> QED
  BY <1>2

\* What the first n envelopes of two chains are made of is the same.
MadeAlike(es, fs, n) ==
    \A i \in 1 .. n : es[i].id = fs[i].id /\ es[i].layer = fs[i].layer /\ es[i].content = fs[i].content

\* The first n envelopes of c are of the entries es.
AllLinked(c, es, n) == \A i \in 1 .. n : Linked(c, es, i)

\* Chains that end with one hash are made of the same.
LEMMA OneEnd ==
    ASSUME NEW n \in Nat, NEW es, NEW fs, NEW c, NEW d,
           AllLinked(c, es, n), AllLinked(d, fs, n), n > 0 => c[n].hash = d[n].hash
    PROVE  MadeAlike(es, fs, n)
<1>1. ASSUME NEW i \in 1 .. n, c[i].hash = d[i].hash
      PROVE  /\ es[i].id = fs[i].id /\ es[i].layer = fs[i].layer /\ es[i].content = fs[i].content
             /\ i # 1 => c[i - 1].hash = d[i - 1].hash
  <2>1. PICK p, x : c[i] = Envelope(es[i], p, x) /\ (i # 1 => x = c[i - 1].hash)
    BY DEF AllLinked, Linked
  <2>2. PICK q, y : d[i] = Envelope(fs[i], q, y) /\ (i # 1 => y = d[i - 1].hash)
    BY DEF AllLinked, Linked
  <2>3. Envelope(es[i], p, x).hash = Envelope(fs[i], q, y).hash
    BY <1>1, <2>1, <2>2
  <2> QED
    BY <2>1, <2>2, <2>3, HashTells
<1> DEFINE S == {k \in 0 .. n : k < n => c[n - k].hash = d[n - k].hash}
<1>2. 0 \in S
  OBVIOUS
<1>3. ASSUME NEW k \in 1 .. n, k - 1 \in S PROVE k \in S
  <2>1. PICK i \in Nat : i = n - k /\ n - (k - 1) = i + 1 /\ i + 1 \in 1 .. n /\ (i + 1) - 1 = i
    OBVIOUS
  <2>2. c[i + 1].hash = d[i + 1].hash
    BY <1>3, <2>1
  <2>3. i # 0 => c[i].hash = d[i].hash
    BY <1>1, <2>1, <2>2
  <2> QED
    BY <2>1, <2>3
<1>4. ASSUME NEW i \in 1 .. n PROVE c[i].hash = d[i].hash
  <2>1. n - i \in 0 .. n /\ n - (n - i) = i /\ n - i < n
    OBVIOUS
  <2>2. 0 .. n \subseteq S
    <3> HIDE DEF S
    <3> QED
      BY <1>2, <1>3, Throughout
  <2>3. n - i \in S
    BY <2>1, <2>2
  <2> QED
    BY <2>1, <2>3
<1> QED
  BY <1>1, <1>4 DEF MadeAlike

-----------------------------------------------------------------------------
(* What compile() makes of a scenario and a mutation.                       *)

\* A request that is refused leads to nothing but its refusal.
Refused(r) ==
    /\ r.capability = Null /\ r.execution = Null /\ r.blocks = <<>> /\ r.observations = <<>>
    /\ r.qlf.positive = 1 /\ r.qlf.negative = 0

\* One that is authorized leads to a block b, which is observed as o says.
Carried(r, b, o) ==
    /\ r.capability \in {"cap:room:write", "cap:exchange:bob:prepare"} /\ r.capability # Null
    /\ r.execution # Null /\ r.execution.stuck = FALSE
    /\ r.qlf.positive = r.execution.comms /\ r.qlf.negative = r.execution.comms /\ r.qlf.gap = 0
    /\ r.blocks # <<>> /\ r.blocks[1] = b /\ b.hash # Lie
    /\ r.observations = ObserveBlock(b, o)
    /\ r.replay.match = (r.mutation # "tamper-trace")
    /\ r.cross = CrossNode(r.observations) /\ r.lattice = LatticeAnalyze(b, r.observations)

\* The first block.
Primary(s, m) ==
    ProposeBlock(18492, IF IsExchange(s) THEN "shard-A" ELSE "root", Process(s, m), Reducer(Process(s, m)).state)

\* The hash of a block tells what it is of, and is never the lie.
LEMMA BlockHash ==
    ASSUME NEW h, NEW shard, NEW deploy, NEW post
    PROVE  /\ ProposeBlock(h, shard, deploy, post).hash = <<"block", h, shard, deploy, post>>
           /\ ProposeBlock(h, shard, deploy, post).hash # Lie
<1>1. ProposeBlock(h, shard, deploy, post).hash = <<"block", h, shard, deploy, post>>
  BY DEF ProposeBlock
<1>2. <<"block", h, shard, deploy, post>> # <<"lie", "node-C">>
  OBVIOUS
<1> QED
  BY <1>1, <1>2 DEF Lie

\* What comes first stays first.
LEMMA FirstOf ==
    ASSUME NEW b, NEW q, q = <<>> \/ \E p : q = <<p>>
    PROVE  <<b>> \o q # <<>> /\ (<<b>> \o q)[1] = b
<1>1. PICK T : T = {b} \cup {q[i] : i \in DOMAIN q}
  OBVIOUS
<1>2. <<b>> \in Seq(T) /\ Len(<<b>>) = 1 /\ <<b>>[1] = b
  BY <1>1
<1>3. q \in Seq(T) /\ Len(q) \in Nat
  <2>1. CASE q = <<>>
    BY <2>1
  <2>2. ASSUME NEW p, q = <<p>> PROVE q \in Seq(T) /\ Len(q) \in Nat
    <3>1. DOMAIN q = {1} /\ q[1] = p
      BY <2>2
    <3>2. p \in T
      BY <1>1, <3>1
    <3> QED
      BY <2>2, <3>2
  <2> QED
    BY <2>1, <2>2
<1>4. /\ Len(<<b>> \o q) = 1 + Len(q) /\ \A i \in 1 .. Len(<<b>>) : (<<b>> \o q)[i] = <<b>>[i]
  BY <1>2, <1>3, ConcatProperties
<1> QED
  BY <1>2, <1>3, <1>4

\* A scenario whose capability was taken away is refused.
LEMMA CompileRefused ==
    ASSUME NEW s \in Scenarios, s # "hello-rho"
    PROVE  /\ Refused(Compile(s, "drop-capability"))
           /\ Compile(s, "drop-capability").scenario = s /\ Compile(s, "drop-capability").mutation = "drop-capability"
<1>1. Capability(s, "drop-capability") = Null
  BY DEF Capability
<1> QED
  BY <1>1 DEF Compile, Refused, Certify

\* Under any other mutation it is carried through, to its first block.
LEMMA CompileCarried ==
    ASSUME NEW s \in Scenarios, NEW m \in Mutations, m # "drop-capability"
    PROVE  /\ Carried(Compile(s, m), Primary(s, m), Faults(m))
           /\ Compile(s, m).scenario = s /\ Compile(s, m).mutation = m
           /\ Compile(s, m).capability = Capability(s, "none")
           /\ Compile(s, m).execution = Reducer(Process(s, m))
<1>1. PICK cap : cap = Capability(s, m)
  OBVIOUS
<1>2. cap \in {"cap:room:write", "cap:exchange:bob:prepare"} /\ cap # Null /\ cap = Capability(s, "none")
  BY <1>1, NullAssumption DEF Capability
<1>3. PICK e : e = Reducer(Process(s, m))
  OBVIOUS
<1>4. e # Null /\ e.stuck = FALSE /\ e.comms \in Nat
  BY <1>3, ReducerAssumption
<1>5. PICK bs : bs = Blocks(s, m, e)
  OBVIOUS
<1>6. PICK b : b = Primary(s, m)
  OBVIOUS
<1>7. bs # <<>> /\ bs[1] = b /\ b.hash # Lie
  <2>1. PICK d : d = Process(s, m)
    OBVIOUS
  <2>2. b = ProposeBlock(18492, IF IsExchange(s) THEN "shard-A" ELSE "root", d, e.state)
    BY <1>3, <1>6, <2>1 DEF Primary
  <2>4. PICK q : /\ bs = <<b>> \o q
                 /\ q = <<>> \/ \E p : q = <<p>>
    <3>1. PICK p : p = ProposeBlock(8841, "shard-B", <<d, "_b">>, <<"state-b", e.state>>)
      OBVIOUS
    <3>2. bs = <<b>> \o IF IsExchange(s) /\ ~Aborts(s, m) THEN <<p>> ELSE <<>>
      BY <1>5, <2>1, <2>2, <3>1 DEF Blocks
    <3>3. PICK q : q = IF IsExchange(s) /\ ~Aborts(s, m) THEN <<p>> ELSE <<>>
      BY Zenon
    <3>4. q = <<>> \/ q = <<p>>
      BY <3>3
    <3> QED
      BY <3>2, <3>3, <3>4, Zenon
  <2>7. bs # <<>> /\ bs[1] = b
    BY <2>4, FirstOf
  <2>3. b.hash # Lie
    BY <1>6, BlockHash DEF Primary
  <2> QED
    BY <2>3, <2>7
<1>8. PICK obs : obs = ObserveBlock(b, Faults(m))
  OBVIOUS
<1>9. PICK r : r = Compile(s, m)
  OBVIOUS
<1>10. /\ r.scenario = s /\ r.mutation = m /\ r.capability = cap /\ r.execution = e /\ r.blocks = bs /\ r.observations = obs
       /\ r.qlf = Certify(e.comms, e.comms) /\ r.replay.match = (m # "tamper-trace")
       /\ r.cross = CrossNode(obs) /\ r.lattice = LatticeAnalyze(b, obs)
  BY <1>1, <1>2, <1>3, <1>4, <1>5, <1>7, <1>8, <1>9 DEF Compile
<1>11. r.qlf.positive = e.comms /\ r.qlf.negative = e.comms /\ r.qlf.gap = 0
  BY <1>4, <1>10 DEF Certify
<1>12. Carried(r, b, Faults(m))
  BY <1>2, <1>4, <1>7, <1>8, <1>10, <1>11 DEF Carried
<1> QED
  BY <1>1, <1>2, <1>3, <1>6, <1>9, <1>10, <1>12

-----------------------------------------------------------------------------
(* Four nodes, of which one may lie and one may be out of reach.            *)

\* What the four nodes report of a block b.
LEMMA Observed ==
    ASSUME NEW b, NEW o, NEW obs, obs = ObserveBlock(b, o)
    PROVE  /\ Len(obs) = 4 /\ DOMAIN obs = 1 .. 4
           /\ \A i \in 1 .. 4 : /\ obs[i].reachable = (Nodes[i] # o.unreachable)
                                /\ obs[i].hash = IF Nodes[i] = o.lie THEN Lie ELSE b.hash
                                /\ obs[i].justified = (Nodes[i] # o.unjustified)
                                /\ obs[i].duplicate = (Nodes[i] = o.duplicate)
<1>1. DOMAIN Nodes = 1 .. 4
  BY DEF Nodes
<1> QED
  BY <1>1 DEF ObserveBlock

\* A node's letter stands at one place, and null at none.
LEMMA Letters ==
    /\ ToSet(Nodes) = {Nodes[i] : i \in 1 .. 4}
    /\ \A i, j \in 1 .. 4 : Nodes[i] = Nodes[j] => i = j
    /\ \A i \in 1 .. 4 : Nodes[i] # Null
<1>1. ToSet(Nodes) = {Nodes[i] : i \in 1 .. 4}
  BY DEF ToSet, Nodes
<1>2. \A i, j \in 1 .. 4 : Nodes[i] = Nodes[j] => i = j
  BY DEF Nodes
<1> QED
  BY <1>1, <1>2, NullAssumption

\* How many of the four are left without one or two.
LEMMA LeftOfFour ==
    /\ IsFiniteSet(1 .. 4) /\ Cardinality(1 .. 4) = 4
    /\ \A i \in 1 .. 4 : Cardinality((1 .. 4) \ {i}) = 3
    /\ \A i, j \in 1 .. 4 : i # j => Cardinality((1 .. 4) \ {i, j}) = 2
<1>1. IsFiniteSet(1 .. 4) /\ Cardinality(1 .. 4) = 4
  <2>1. ASSUME NEW k \in Int, NEW n \in Int, k =< n
        PROVE  IsFiniteSet(k .. n) /\ Cardinality(k .. n) = (n - k) + 1
    BY <2>1, FS_Interval
  <2>2. PICK k \in Int, n \in Int : k = 1 /\ n = 4
    OBVIOUS
  <2>3. k =< n /\ (n - k) + 1 = 4
    BY <2>2
  <2>4. IsFiniteSet(k .. n) /\ Cardinality(k .. n) = (n - k) + 1
    BY <2>1, <2>3
  <2> QED
    BY <2>2, <2>3, <2>4
<1>2. ASSUME NEW i \in 1 .. 4 PROVE IsFiniteSet((1 .. 4) \ {i}) /\ Cardinality((1 .. 4) \ {i}) = 3
  <2>1. Cardinality((1 .. 4) \ {i}) = Cardinality(1 .. 4) - 1
    BY <1>1, FS_RemoveElement
  <2>2. IsFiniteSet((1 .. 4) \ {i})
    BY <1>1, FS_RemoveElement
  <2> QED
    BY <1>1, <2>1, <2>2
<1>3. ASSUME NEW i \in 1 .. 4, NEW j \in 1 .. 4, i # j PROVE Cardinality((1 .. 4) \ {i, j}) = 2
  <2>1. PICK T : T = (1 .. 4) \ {i}
    OBVIOUS
  <2>2. IsFiniteSet(T) /\ Cardinality(T) = 3 /\ j \in T
    BY <1>2, <1>3, <2>1
  <2>3. Cardinality(T \ {j}) = Cardinality(T) - 1
    BY <2>2, FS_RemoveElement
  <2>4. T \ {j} = (1 .. 4) \ {i, j}
    BY <2>1
  <2> QED
    BY <2>2, <2>3, <2>4
<1> QED
  BY <1>1, <1>2, <1>3

\* Whom the lattice counts, for a liar and a node out of reach that may be one, the same, or none.
LEMMA VotesCounted ==
    ASSUME NEW lie \in ToSet(Nodes) \cup {Null}, NEW gone \in ToSet(Nodes) \cup {Null},
           NEW V, V = {i \in 1 .. 4 : Nodes[i] # gone /\ Nodes[i] # lie},
           NEW F, F = {lie, gone} \ {Null}
    PROVE  /\ Cardinality(V) >= 3 <=> Cardinality(F) <= 1
           /\ lie = Null /\ gone = Null => Cardinality(V) = 4
<1>1. CASE lie = Null /\ gone = Null
  <2>1. V = 1 .. 4 /\ F = {}
    BY <1>1, Letters
  <2> QED
    BY <2>1, LeftOfFour, FS_EmptySet
<1>2. ASSUME NEW i \in 1 .. 4, {lie, gone} \ {Null} = {Nodes[i]}
      PROVE  Cardinality(V) >= 3 /\ Cardinality(F) <= 1
  <2>1. V = (1 .. 4) \ {i}
    BY <1>2, Letters
  <2>2. Cardinality(F) = 1
    BY <1>2, FS_Singleton
  <2> QED
    BY <2>1, <2>2, LeftOfFour
<1>3. ASSUME NEW i \in 1 .. 4, NEW j \in 1 .. 4, i # j, lie = Nodes[i], gone = Nodes[j]
      PROVE  ~(Cardinality(V) >= 3) /\ ~(Cardinality(F) <= 1)
  <2>1. V = (1 .. 4) \ {i, j}
    BY <1>3, Letters
  <2>2. lie # gone /\ F = {lie, gone}
    BY <1>3, Letters
  <2>3. PICK S : S = {lie}
    OBVIOUS
  <2>5. IsFiniteSet(S) /\ Cardinality(S) = 1 /\ gone \notin S /\ F = S \cup {gone}
    BY <2>2, <2>3, FS_Singleton
  <2>4. Cardinality(F) = 2
    BY <2>5, FS_AddElement
  <2>6. Cardinality(V) = 2
    BY <1>3, <2>1, LeftOfFour
  <2> QED
    BY <2>4, <2>6
<1>4. CASE lie = gone \/ lie = Null \/ gone = Null
  <2>1. CASE lie # Null \/ gone # Null
    <3>1. PICK i \in 1 .. 4 : {lie, gone} \ {Null} = {Nodes[i]}
      BY <1>4, <2>1, Letters
    <3> QED
      BY <1>2, <2>1, <3>1
  <2> QED
    BY <1>1, <2>1
<1>5. CASE lie # gone /\ lie # Null /\ gone # Null
  <2>1. PICK i \in 1 .. 4, j \in 1 .. 4 : lie = Nodes[i] /\ gone = Nodes[j] /\ i # j
    BY <1>5, Letters
  <2> QED
    BY <1>3, <1>5, <2>1
<1> QED
  BY <1>4, <1>5

\* Both judgements on what they report.
LEMMA Judged ==
    ASSUME NEW b, b.hash # Lie, NEW o, o.lie \in ToSet(Nodes) \cup {Null}, o.unreachable \in ToSet(Nodes) \cup {Null},
           NEW obs, obs = ObserveBlock(b, o), NEW F, F = {o.lie, o.unreachable} \ {Null},
           NEW lied, lied = (o.lie \notin {Null, o.unreachable})
    PROVE  /\ LatticeAnalyze(b, obs).committed <=> Cardinality(F) <= 1
           /\ LatticeAnalyze(b, obs).prepared <=> Cardinality(F) <= 1
           /\ LatticeAnalyze(b, obs).conflicting <=> lied
           /\ LatticeAnalyze(b, obs).status = IF Cardinality(F) <= 1 THEN "PASS" ELSE "FAIL"
           /\ CrossNode(obs).hashAgreement <=> ~lied
           /\ CrossNode(obs).status = "FAIL" <=> lied
           /\ CrossNode(obs).status = "PASS" => CrossNode(obs).quorum /\ Cardinality(F) <= 1
           /\ o.unreachable = Null => (CrossNode(obs).hashAgreement <=> CrossNode(obs).agreeing = 4)
           /\ lied <=> \E i \in DOMAIN obs : obs[i].reachable /\ obs[i].hash # CrossNode(obs).common
           /\ CrossNode(obs).target = 4 /\ CrossNode(obs).hashAgreement \in BOOLEAN
           /\ LatticeAnalyze(b, obs).conflicting \in BOOLEAN /\ LatticeAnalyze(b, obs).committed \in BOOLEAN
<1>1. PICK lie \in ToSet(Nodes) \cup {Null}, gone \in ToSet(Nodes) \cup {Null} : lie = o.lie /\ gone = o.unreachable
  OBVIOUS
<1>2. /\ Len(obs) = 4 /\ DOMAIN obs = 1 .. 4
      /\ \A i \in 1 .. 4 : /\ obs[i].reachable = (Nodes[i] # gone)
                           /\ obs[i].hash = IF Nodes[i] = lie THEN Lie ELSE b.hash
  BY <1>1, Observed
<1>3. PICK V : V = {i \in 1 .. 4 : Nodes[i] # gone /\ Nodes[i] # lie}
  OBVIOUS
<1>4. V = {i \in DOMAIN obs : obs[i].reachable /\ obs[i].hash = b.hash}
  BY <1>2, <1>3
<1>5. lied <=> \E i \in DOMAIN obs : obs[i].reachable /\ obs[i].hash # b.hash
  <2>1. ASSUME lied PROVE \E i \in DOMAIN obs : obs[i].reachable /\ obs[i].hash # b.hash
    <3>1. PICK i \in 1 .. 4 : lie = Nodes[i]
      BY <1>1, <2>1, Letters
    <3>2. obs[i].reachable /\ obs[i].hash = Lie
      BY <1>1, <1>2, <2>1, <3>1
    <3> QED
      BY <1>2, <3>2
  <2>2. ASSUME NEW i \in DOMAIN obs, obs[i].reachable, obs[i].hash # b.hash PROVE lied
    <3>1. Nodes[i] # gone /\ Nodes[i] = lie
      BY <1>2, <2>2
    <3> QED
      BY <1>1, <1>2, <3>1, Letters
  <2> QED
    BY <2>1, <2>2
<1>6. (Cardinality(V) >= 3 <=> Cardinality(F) <= 1) /\ (lie = Null /\ gone = Null => Cardinality(V) = 4)
  BY <1>1, <1>3, VotesCounted
<1>7. PICK lat : lat = LatticeAnalyze(b, obs)
  OBVIOUS
<1>8. /\ lat.committed = (Cardinality(V) >= 3) /\ lat.prepared = (Cardinality(V) >= 3)
      /\ lat.conflicting = (\E i \in DOMAIN obs : obs[i].reachable /\ obs[i].hash # b.hash)
      /\ lat.status = IF Cardinality(V) >= 3 THEN "PASS" ELSE "FAIL"
  BY <1>4, <1>7 DEF LatticeAnalyze, Certificates
<1>9. PICK U : U = {i \in DOMAIN obs : obs[i].reachable}
  OBVIOUS
<1>10. U \subseteq 1 .. 4 /\ U # {} /\ IsFiniteSet(U) /\ (gone = Null => U = 1 .. 4)
  <2>1. U \subseteq 1 .. 4 /\ (gone = Null => U = 1 .. 4)
    <3>1. U \subseteq 1 .. 4
      BY <1>2, <1>9
    <3>2. gone = Null => \A i \in 1 .. 4 : i \in U
      BY <1>2, <1>9, Letters
    <3> QED
      BY <3>1, <3>2
  <2>2. ASSUME NEW i \in 1 .. 4, NEW j \in 1 .. 4, i \notin U, j \notin U PROVE i = j
    <3>1. Nodes[i] = gone /\ Nodes[j] = gone
      BY <1>2, <1>9, <2>2
    <3> QED
      BY <3>1, Letters
  <2>3. 1 \in U \/ 2 \in U
    BY <2>2
  <2>4. IsFiniteSet(U)
    BY <2>1, LeftOfFour, FS_Subset
  <2> QED
    BY <2>1, <2>3, <2>4
<1>11. PICK common : common = obs[Min(U)].hash
  OBVIOUS
<1>12. PICK A : A = {i \in U : obs[i].hash = common}
  OBVIOUS
<1>13. PICK cross : cross = CrossNode(obs)
  OBVIOUS
<1>14. /\ cross.target = 4 /\ cross.common = common /\ cross.agreeing = Cardinality(A) /\ cross.quorum = (Cardinality(A) >= 3)
       /\ cross.hashAgreement = (Cardinality(A) = Cardinality(U))
       /\ cross.status = IF Cardinality(A) # Cardinality(U) THEN "FAIL"
                         ELSE IF Cardinality(U) < 4 THEN "WARN" ELSE "PASS"
  <2>1. (4 * 2) \div 3 + 1 = 3
    OBVIOUS
  <2>5. cross.target = Len(obs)
    BY <1>13 DEF CrossNode
  <2>2. /\ cross.common = common /\ cross.agreeing = Cardinality(A)
        /\ cross.hashAgreement = (Cardinality(A) = Cardinality(U))
    BY <1>9, <1>10, <1>11, <1>12, <1>13 DEF CrossNode
  <2>3. cross.quorum = (Cardinality(A) >= (Len(obs) * 2) \div 3 + 1)
    BY <1>9, <1>10, <1>11, <1>12, <1>13 DEF CrossNode
  <2>4. cross.status = IF ~cross.hashAgreement THEN "FAIL"
                       ELSE IF Cardinality(U) < Len(obs) THEN "WARN" ELSE "PASS"
    BY <1>9, <1>10, <1>11, <1>12, <1>13 DEF CrossNode
  <2> QED
    BY <1>2, <2>1, <2>2, <2>3, <2>4, <2>5
<1>15. Min(U) \in U
  <2>1. \E i \in U : \A j \in U : i =< j
    <3>1. \A i \in U : i = 1 \/ i = 2 \/ i = 3 \/ i = 4
      BY <1>10
    <3>2. CASE 1 \in U
      BY <3>1, <3>2
    <3>3. CASE 1 \notin U /\ 2 \in U
      BY <3>1, <3>3
    <3>4. CASE 1 \notin U /\ 2 \notin U /\ 3 \in U
      BY <3>1, <3>4
    <3>5. CASE 1 \notin U /\ 2 \notin U /\ 3 \notin U
      <4>1. 4 \in U /\ \A i \in U : i = 4
        BY <1>10, <3>1, <3>5
      <4> QED
        BY <4>1
    <3> QED
      BY <3>2, <3>3, <3>4, <3>5
  <2> QED
    BY <2>1 DEF Min
<1>18. lat.conflicting \in BOOLEAN /\ lat.committed \in BOOLEAN
  BY <1>8
<1>16. CASE lied
  <2>1. PICK i \in U : obs[i].hash = Lie
    <3>1. PICK i \in 1 .. 4 : lie = Nodes[i]
      BY <1>1, <1>16, Letters
    <3>2. i \in U /\ obs[i].hash = Lie
      BY <1>1, <1>2, <1>9, <1>16, <3>1
    <3> QED
      BY <3>2
  <2>2. PICK j \in U : obs[j].hash = b.hash
    <3>1. \E j \in 1 .. 4 : Nodes[j] # gone /\ Nodes[j] # lie
      <4>1. \A i1, i2, i3 \in 1 .. 4 : i1 # i2 /\ i1 # i3 /\ i2 # i3 => \E j \in {i1, i2, i3} : Nodes[j] # gone /\ Nodes[j] # lie
        BY Letters
      <4> QED
        BY <4>1
    <3> QED
      BY <1>2, <1>9, <3>1
  <2>3. A # U
    BY <1>12, <2>1, <2>2
  <2>4. A \subseteq U /\ Cardinality(A) # Cardinality(U)
    BY <1>10, <1>12, <2>3, FS_Subset
  <2>5. cross.status = "FAIL" /\ cross.hashAgreement = FALSE
    BY <1>14, <2>4
  <2>6. gone = Null => Cardinality(U) = 4
    BY <1>10, LeftOfFour
  <2>7. \E k \in DOMAIN obs : obs[k].reachable /\ obs[k].hash # cross.common
    BY <1>2, <1>9, <1>12, <1>14, <2>1, <2>2
  <2> QED
    BY <1>1, <1>5, <1>6, <1>7, <1>8, <1>13, <1>14, <1>16, <1>18, <2>4, <2>5, <2>6, <2>7
<1>17. CASE ~lied
  <2>1. \A i \in U : obs[i].hash = b.hash
    BY <1>5, <1>9, <1>17
  <2>2. common = b.hash /\ A = U
    BY <1>11, <1>12, <1>15, <2>1
  <2>3. gone = Null => Cardinality(U) = 4
    BY <1>10, LeftOfFour
  <2>4. gone # Null => Cardinality(U) < 4
    <3>1. SUFFICES ASSUME gone # Null PROVE Cardinality(U) < 4
      OBVIOUS
    <3>2. PICK i \in 1 .. 4 : gone = Nodes[i]
      BY <3>1, Letters
    <3>3. U = (1 .. 4) \ {i}
      BY <1>2, <1>9, <3>2, Letters
    <3> QED
      BY <3>3, LeftOfFour
  <2>5. lie = gone \/ lie = Null
    BY <1>1, <1>17
  <2>6. cross.status = "PASS" => cross.quorum /\ Cardinality(F) <= 1
    <3>1. SUFFICES ASSUME cross.status = "PASS" PROVE cross.quorum /\ Cardinality(F) <= 1
      OBVIOUS
    <3>2. gone = Null /\ lie = Null
      BY <1>14, <2>2, <2>4, <2>5, <3>1
    <3>3. Cardinality(V) = 4 /\ Cardinality(A) = 4
      BY <1>6, <2>2, <2>3, <3>2
    <3>4. Cardinality(F) <= 1
      BY <1>6, <3>3
    <3>6. Cardinality(A) >= 3
      BY <3>3
    <3>5. cross.quorum
      BY <1>14, <3>6, Zenon
    <3> QED
      BY <3>4, <3>5
  <2>7. cross.status # "FAIL" /\ cross.hashAgreement = TRUE /\ (gone = Null => cross.agreeing = 4)
    BY <1>14, <2>2, <2>3
  <2>8. ~\E i \in DOMAIN obs : obs[i].reachable /\ obs[i].hash # cross.common
    BY <1>2, <1>9, <1>14, <2>1, <2>2
  <2>9. /\ LatticeAnalyze(b, obs).committed <=> Cardinality(F) <= 1
        /\ LatticeAnalyze(b, obs).prepared <=> Cardinality(F) <= 1
        /\ LatticeAnalyze(b, obs).conflicting <=> lied
        /\ LatticeAnalyze(b, obs).status = IF Cardinality(F) <= 1 THEN "PASS" ELSE "FAIL"
    BY <1>5, <1>6, <1>7, <1>8
  <2> QED
    BY <1>1, <1>7, <1>13, <1>14, <1>17, <1>18, <2>6, <2>7, <2>8, <2>9
<1> QED
  BY <1>16, <1>17

-----------------------------------------------------------------------------
(* The quorums judge right.                                                 *)

\* Scenario and mutation are of the lists, and once the effects have run they go together.
WorkbenchInv ==
    /\ scenario \in Scenarios /\ mutation \in Mutations /\ pending \in BOOLEAN
    /\ ~pending => scenario \in Applies(mutation)

\* They always are and do.
LEMMA WorkbenchStays == WorkbenchSpec => []WorkbenchInv
<1>1. WorkbenchInit => WorkbenchInv
  BY DEF WorkbenchInit, WorkbenchInv, Scenarios, Mutations
<1>2. WorkbenchInv /\ [WorkbenchNext]_workbenchVars => WorkbenchInv'
  <2> SUFFICES ASSUME WorkbenchInv, [WorkbenchNext]_workbenchVars PROVE WorkbenchInv'
    OBVIOUS
  <2>1. ASSUME NEW s \in Scenarios, SetScenario(s) PROVE WorkbenchInv'
    BY <2>1 DEF SetScenario, WorkbenchInv
  <2>2. ASSUME NEW m \in Mutations, SetMutation(m) PROVE WorkbenchInv'
    BY <2>2 DEF SetMutation, WorkbenchInv
  <2>3. CASE ReplayCompile
    BY <2>3 DEF ReplayCompile, WorkbenchInv
  <2>4. CASE Reset
    BY <2>4 DEF Reset, WorkbenchInv, Mutations
  <2>5. CASE Effects
    <3>1. "none" \in Mutations /\ Applies("none") = Scenarios
      BY DEF Mutations, Applies
    <3> QED
      BY <2>5, <3>1 DEF Effects, WorkbenchInv
  <2>6. CASE Advance
    BY <2>6 DEF Advance, WorkbenchInv
  <2>7. CASE UNCHANGED workbenchVars
    BY <2>7 DEF workbenchVars, WorkbenchInv
  <2> QED
    BY <2>1, <2>2, <2>3, <2>4, <2>5, <2>6, <2>7 DEF WorkbenchNext
<1> QED
  BY <1>1, <1>2, PTL DEF WorkbenchSpec

\* A reality that has a block has one that is not the lie.
LEMMA BlockIsHonest ==
    ASSUME NEW s \in Scenarios, NEW m \in Mutations, Compile(s, m).blocks # <<>>, s \in Applies(m)
    PROVE  Compile(s, m).blocks[1].hash # Lie
<1>1. m # "drop-capability"
  <2>1. m = "drop-capability" => s # "hello-rho"
    BY DEF Applies
  <2> QED
    BY <2>1, CompileRefused DEF Refused
<1>2. PICK r, b : r = Compile(s, m) /\ b = Primary(s, m)
  OBVIOUS
<1>3. Carried(r, b, Faults(m))
  BY <1>1, <1>2, CompileCarried
<1>4. r.blocks[1] = b /\ b.hash # Lie
  BY <1>3 DEF Carried
<1> QED
  BY <1>2, <1>4

\* Whoever lies and whoever is out of reach, and whatever a reducer makes of the process, the
\* lattice certifies the block as long as three stand by it, the cross check fails exactly when
\* two reachable nodes differ, and a pass of it has both quorums (crossNode 235-271,
\* latticeAnalyze 308-383).
THEOREM QuorumKept == WorkbenchSpec => []QuorumJudges
<1>1. WorkbenchInv => QuorumJudges
  <2> SUFFICES ASSUME WorkbenchInv, ~pending, Reality.blocks # <<>>,
                      NEW lie \in ToSet(Nodes) \cup {Null}, NEW gone \in ToSet(Nodes) \cup {Null}
               PROVE  LET block == Reality.blocks[1]
                          obs == ObserveBlock(block, [lie |-> lie, unreachable |-> gone, unjustified |-> Null,
                                                      duplicate |-> Null])
                          faulty == {lie, gone} \ {Null}
                          lied == lie \notin {Null, gone}
                          cross == CrossNode(obs)
                          lattice == LatticeAnalyze(block, obs)
                      IN  /\ lattice.committed <=> Cardinality(faulty) <= 1
                          /\ cross.status = "FAIL" <=> lied
                          /\ lattice.conflicting <=> lied
                          /\ cross.status = "PASS" => lattice.status = "PASS" /\ cross.quorum
    BY DEF QuorumJudges
  <2>1. PICK block : block = Reality.blocks[1]
    OBVIOUS
  <2>2. block.hash # Lie
    BY <2>1, BlockIsHonest DEF WorkbenchInv, Reality
  <2>3. PICK o : o = [lie |-> lie, unreachable |-> gone, unjustified |-> Null, duplicate |-> Null]
    OBVIOUS
  <2>4. o.lie = lie /\ o.unreachable = gone
    BY <2>3
  <2>5. PICK obs : obs = ObserveBlock(block, o)
    OBVIOUS
  <2>6. PICK F, lied : F = {lie, gone} \ {Null} /\ lied = (lie \notin {Null, gone})
    OBVIOUS
  <2>7. /\ LatticeAnalyze(block, obs).committed <=> Cardinality(F) <= 1
        /\ LatticeAnalyze(block, obs).conflicting <=> lied
        /\ LatticeAnalyze(block, obs).status = IF Cardinality(F) <= 1 THEN "PASS" ELSE "FAIL"
        /\ CrossNode(obs).status = "FAIL" <=> lied
        /\ CrossNode(obs).status = "PASS" => CrossNode(obs).quorum /\ Cardinality(F) <= 1
    BY <2>2, <2>4, <2>5, <2>6, Judged
  <2> QED
    BY <2>1, <2>3, <2>5, <2>6, <2>7
<1> QED
  BY <1>1, WorkbenchStays, PTL

-----------------------------------------------------------------------------
(* What the envelopes hold.                                                 *)

\* What a sequence and one that follows it hold, and where.
LEMMA Joined ==
    ASSUME NEW T, NEW p \in Seq(T), NEW q \in Seq(T), NEW r, r = p \o q
    PROVE  /\ r \in Seq(T) /\ Len(r) = Len(p) + Len(q)
           /\ \A i \in 1 .. Len(p) : r[i] = p[i]
           /\ \A i \in 1 .. Len(q) : r[Len(p) + i] = q[i]
<1>1. Len(p) \in Nat /\ Len(q) \in Nat
  OBVIOUS
<1>3. /\ r \in Seq(T) /\ Len(r) = Len(p) + Len(q)
      /\ \A i \in 1 .. Len(p) + Len(q) : r[i] = IF i <= Len(p) THEN p[i] ELSE q[i - Len(p)]
  BY ConcatProperties
<1>4. \A i \in 1 .. Len(p) : r[i] = p[i]
  BY <1>1, <1>3
<1>5. \A i \in 1 .. Len(q) : r[Len(p) + i] = q[i]
  BY <1>1, <1>3
<1> QED
  BY <1>3, <1>4, <1>5

\* What three sequences and one more element hold, and where.
LEMMA Followed ==
    ASSUME NEW T, NEW p \in Seq(T), NEW q \in Seq(T), NEW r \in Seq(T), NEW e \in T,
           NEW a, a = p \o q, NEW c, c = a \o r, NEW d, d = Append(c, e)
    PROVE  /\ Len(c) = Len(p) + Len(q) + Len(r) /\ Len(d) = Len(c) + 1
           /\ \A i \in 1 .. Len(p) : d[i] = p[i]
           /\ \A i \in 1 .. Len(q) : d[Len(p) + i] = q[i]
           /\ \A i \in 1 .. Len(r) : d[Len(p) + Len(q) + i] = r[i]
           /\ d[Len(c) + 1] = e
<1>1. /\ a \in Seq(T) /\ Len(a) = Len(p) + Len(q)
      /\ \A i \in 1 .. Len(p) : a[i] = p[i]
      /\ \A i \in 1 .. Len(q) : a[Len(p) + i] = q[i]
  BY Joined
<1>2. /\ c \in Seq(T) /\ Len(c) = Len(a) + Len(r)
      /\ \A i \in 1 .. Len(a) : c[i] = a[i]
      /\ \A i \in 1 .. Len(r) : c[Len(a) + i] = r[i]
  BY <1>1, Joined
<1>3. /\ Len(d) = Len(c) + 1 /\ d[Len(c) + 1] = e
      /\ \A i \in 1 .. Len(c) : d[i] = c[i]
  BY <1>2, AppendProperties
<1>4. Len(p) \in Nat /\ Len(q) \in Nat /\ Len(r) \in Nat
  OBVIOUS
<1>5. ASSUME NEW i \in 1 .. Len(p) PROVE d[i] = p[i]
  BY <1>1, <1>2, <1>3, <1>4
<1>6. ASSUME NEW i \in 1 .. Len(q) PROVE d[Len(p) + i] = q[i]
  <2>1. Len(p) + i \in 1 .. Len(a) /\ Len(p) + i \in 1 .. Len(c)
    BY <1>1, <1>2, <1>4
  <2> QED
    BY <1>1, <1>2, <1>3, <2>1
<1>7. ASSUME NEW i \in 1 .. Len(r) PROVE d[Len(p) + Len(q) + i] = r[i]
  <2>1. Len(a) + i \in 1 .. Len(c) /\ Len(a) + i = Len(p) + Len(q) + i
    BY <1>1, <1>2, <1>4
  <2>2. d[Len(a) + i] = r[i]
    BY <1>2, <1>3, <2>1
  <2> QED
    BY <2>1, <2>2
<1> QED
  BY <1>1, <1>2, <1>3, <1>4, <1>5, <1>6, <1>7

\* Two, two and three make seven, and one more makes eight.
LEMMA InARow ==
    ASSUME NEW e1, NEW e2, NEW e3, NEW e4, NEW e5, NEW e6, NEW e7, NEW e8,
           NEW p, p = <<e1, e2>>, NEW q, q = <<e3, e4>>, NEW r, r = <<e5, e6, e7>>,
           NEW c, c = (p \o q) \o r, NEW d, d = Append(c, e8)
    PROVE  /\ Len(c) = 7 /\ Len(d) = 8
           /\ d[1] = e1 /\ d[2] = e2 /\ d[3] = e3 /\ d[4] = e4 /\ d[5] = e5 /\ d[6] = e6 /\ d[7] = e7 /\ d[8] = e8
<1>1. PICK T : T = {e1, e2, e3, e4, e5, e6, e7, e8}
  OBVIOUS
<1>2. /\ p \in Seq(T) /\ q \in Seq(T) /\ r \in Seq(T) /\ e8 \in T
  BY <1>1
<1>3. /\ Len(p) = 2 /\ Len(q) = 2 /\ Len(r) = 3
      /\ p[1] = e1 /\ p[2] = e2 /\ q[1] = e3 /\ q[2] = e4 /\ r[1] = e5 /\ r[2] = e6 /\ r[3] = e7
  OBVIOUS
<1>4. /\ Len(c) = Len(p) + Len(q) + Len(r) /\ Len(d) = Len(c) + 1
      /\ \A i \in 1 .. Len(p) : d[i] = p[i]
      /\ \A i \in 1 .. Len(q) : d[Len(p) + i] = q[i]
      /\ \A i \in 1 .. Len(r) : d[Len(p) + Len(q) + i] = r[i]
      /\ d[Len(c) + 1] = e8
  BY <1>2, Followed
<1>5. /\ Len(c) = 7 /\ Len(d) = 8 /\ d[8] = e8
      /\ \A i \in 1 .. 2 : d[i] = p[i]
      /\ \A i \in 1 .. 2 : d[2 + i] = q[i]
      /\ \A i \in 1 .. 3 : d[2 + 2 + i] = r[i]
  BY <1>3, <1>4
<1>6. /\ d[1] = p[1] /\ d[2] = p[2] /\ d[2 + 1] = q[1] /\ d[2 + 2] = q[2]
      /\ d[2 + 2 + 1] = r[1] /\ d[2 + 2 + 2] = r[2] /\ d[2 + 2 + 3] = r[3]
  BY <1>5
<1> QED
  BY <1>3, <1>5, <1>6

\* Two alone, and one more, make three.
LEMMA InAShortRow ==
    ASSUME NEW e1, NEW e2, NEW e8, NEW p, p = <<e1, e2>>, NEW q, q = <<>>, NEW c, c = (p \o q) \o q, NEW d, d = Append(c, e8)
    PROVE  Len(c) = 2 /\ Len(d) = 3 /\ d[3] = e8
<1>1. PICK T : T = {e1, e2, e8}
  OBVIOUS
<1>2. p \in Seq(T) /\ q \in Seq(T) /\ e8 \in T
  BY <1>1
<1>3. Len(p) = 2 /\ Len(q) = 0
  OBVIOUS
<1>4. Len(c) = Len(p) + Len(q) + Len(q) /\ Len(d) = Len(c) + 1 /\ d[Len(c) + 1] = e8
  BY <1>2, Followed
<1> QED
  BY <1>3, <1>4

\* The entries of a reality that was carried through.
LEMMA EntriesCarried ==
    ASSUME NEW r, NEW b, NEW o, Carried(r, b, o), NEW es, es = Entries(r)
    PROVE  /\ Len(es) = 8
           /\ es[1].content = r.capability /\ es[2].content = r.qlf /\ es[3].content = r.execution.comms
           /\ es[4].content = <<r.execution.rules, r.execution.state>> /\ es[5].content = b
           /\ \E seen : es[6].content = <<r.cross.agreeing, seen>>
           /\ es[7].content = <<r.lattice.votes, r.lattice.prepared, r.lattice.committed>>
           /\ es[8].content = 8
<1>1. PICK e1, e2, e3, e4, e5, e6, e7 :
         /\ e1 = Entry(<<"evt", r.scenario>>, "quantumos", r.capability)
         /\ e2 = Entry(<<"qlf", r.qlf>>, "qlf", r.qlf)
         /\ e3 = Entry(<<"rho", r.execution.rules>>, "rholang", r.execution.comms)
         /\ e4 = Entry(<<"trace", Len(r.execution.rules)>>, "rspace", <<r.execution.rules, r.execution.state>>)
         /\ e5 = Entry(<<"block", r.blocks[1].height>>, "block", r.blocks[1])
         /\ e6 = Entry(<<"obs_set">>, "sentinel",
                       <<r.cross.agreeing, [i \in DOMAIN r.observations |->
                            IF r.observations[i].reachable THEN r.observations[i].hash ELSE "UNAVAILABLE"]>>)
         /\ e7 = Entry(<<"lattice_cert">>, "lattice", <<r.lattice.votes, r.lattice.prepared, r.lattice.committed>>)
  BY Zenon
<1>2. r.execution # Null /\ r.blocks # <<>> /\ r.blocks[1] = b
  BY DEF Carried
<1>3. PICK p, q, t, row : p = <<e1, e2>> /\ q = <<e3, e4>> /\ t = <<e5, e6, e7>> /\ row = (p \o q) \o t
  OBVIOUS
<1>4. es = Append(row, Entry(<<"verify_final">>, "verification", Len(row) + 1))
  BY <1>1, <1>2, <1>3, Zenon DEF Entries
<1>6. PICK e8 : e8 = Entry(<<"verify_final">>, "verification", Len(row) + 1)
  OBVIOUS
<1>7. /\ Len(row) = 7 /\ Len(es) = 8 /\ es[1] = e1 /\ es[2] = e2 /\ es[3] = e3 /\ es[4] = e4
      /\ es[5] = e5 /\ es[6] = e6 /\ es[7] = e7 /\ es[8] = e8
  BY <1>3, <1>4, <1>6, InARow
<1>8. es[8].content = 8
  <2>1. e8.content = Len(row) + 1
    BY <1>6 DEF Entry
  <2> QED
    BY <1>7, <2>1
<1>9. /\ es[1].content = r.capability /\ es[2].content = r.qlf /\ es[3].content = r.execution.comms
      /\ es[4].content = <<r.execution.rules, r.execution.state>> /\ es[5].content = r.blocks[1]
      /\ es[7].content = <<r.lattice.votes, r.lattice.prepared, r.lattice.committed>>
  BY <1>1, <1>7 DEF Entry
<1>10. \E seen : es[6].content = <<r.cross.agreeing, seen>>
  <2>1. PICK seen : seen = [i \in DOMAIN r.observations |->
                            IF r.observations[i].reachable THEN r.observations[i].hash ELSE "UNAVAILABLE"]
    OBVIOUS
  <2>2. e6 = Entry(<<"obs_set">>, "sentinel", <<r.cross.agreeing, seen>>)
    BY <1>1, <2>1, Zenon
  <2>3. e6.content = <<r.cross.agreeing, seen>>
    BY <2>2 DEF Entry
  <2> QED
    BY <1>7, <2>3
<1> QED
  BY <1>2, <1>7, <1>8, <1>9, <1>10

\* The entries of one that was refused.
LEMMA EntriesRefused ==
    ASSUME NEW r, Refused(r), NEW es, es = Entries(r)
    PROVE  Len(es) = 3 /\ es[3].content = 3
<1>1. PICK e1, e2 : /\ e1 = Entry(<<"evt", r.scenario>>, "quantumos", r.capability)
                    /\ e2 = Entry(<<"qlf", r.qlf>>, "qlf", r.qlf)
  BY Zenon
<1>2. r.execution = Null /\ r.blocks = <<>>
  BY DEF Refused
<1>3. PICK p, q, row : p = <<e1, e2>> /\ q = <<>> /\ row = (p \o q) \o q
  OBVIOUS
<1>4. es = Append(row, Entry(<<"verify_final">>, "verification", Len(row) + 1))
  BY <1>1, <1>2, <1>3, Zenon DEF Entries
<1>6. PICK e8 : e8 = Entry(<<"verify_final">>, "verification", Len(row) + 1)
  OBVIOUS
<1>7. Len(row) = 2 /\ Len(es) = 3 /\ es[3] = e8
  BY <1>3, <1>4, <1>6, InAShortRow
<1>8. e8.content = Len(row) + 1
  BY <1>6 DEF Entry
<1> QED
  BY <1>7, <1>8

-----------------------------------------------------------------------------
(* What a comparison shows.                                                 *)

\* The rows t of a reality r that was carried through to a block b.
RowsOf(t, r, b) ==
    /\ t[1] = r.capability /\ t[2] = TRUE
    /\ t[3] = <<r.qlf.positive, r.qlf.negative>> /\ t[4] = r.qlf.gap
    /\ t[5] = r.execution.comms /\ t[6] = r.execution.rules /\ t[7] = r.execution.state
    /\ t[8] = b.hash /\ t[9] = <<r.cross.agreeing, r.cross.target>> /\ t[10] = r.cross.hashAgreement
    /\ t[11] = r.lattice.committed /\ t[12] = r.lattice.conflicting /\ t[13] = OverallStatus(r)

\* Those are its rows.
LEMMA RowsCarried ==
    ASSUME NEW r, NEW b, NEW o, Carried(r, b, o), NEW t, t = Rows(r)
    PROVE  RowsOf(t, r, b)
<1>1. r.execution # Null /\ r.blocks # <<>> /\ r.blocks[1] = b /\ r.capability # Null
  BY DEF Carried
<1>2. t = <<r.capability, TRUE, <<r.qlf.positive, r.qlf.negative>>, r.qlf.gap,
            r.execution.comms, r.execution.rules, r.execution.state, b.hash,
            <<r.cross.agreeing, r.cross.target>>, r.cross.hashAgreement,
            r.lattice.committed, r.lattice.conflicting, OverallStatus(r)>>
  BY <1>1 DEF Rows
<1> QED
  BY <1>2 DEF RowsOf

\* The layers of the rows, and their places in the order of the pipeline.
LEMMA RowRanks ==
    /\ DOMAIN RowLayers = 1 .. 13
    /\ RowLayers[13] = "verification"
    /\ \A i \in 1 .. 13 : /\ Rank(RowLayers[i]) >= 1
                          /\ i >= 3 => Rank(RowLayers[i]) >= 2
                          /\ i >= 5 => Rank(RowLayers[i]) >= 4
                          /\ i >= 9 => Rank(RowLayers[i]) >= 6
    /\ Rank("quantumos") = 1 /\ Rank("qlf") = 2 /\ Rank("rspace") = 4 /\ Rank("sentinel") = 6
<1>1. DOMAIN Layers = 1 .. 8 /\ \A i, j \in 1 .. 8 : Layers[i] = Layers[j] => i = j
  BY DEF Layers
<1>2. ASSUME NEW i \in 1 .. 8 PROVE Rank(Layers[i]) = i
  BY <1>1 DEF Rank
<1>3. /\ Layers[1] = "quantumos" /\ Layers[2] = "qlf" /\ Layers[4] = "rspace" /\ Layers[5] = "block"
      /\ Layers[6] = "sentinel" /\ Layers[7] = "lattice" /\ Layers[8] = "verification"
  BY DEF Layers
<1>4. /\ Rank("quantumos") = 1 /\ Rank("qlf") = 2 /\ Rank("rspace") = 4 /\ Rank("block") = 5
      /\ Rank("sentinel") = 6 /\ Rank("lattice") = 7 /\ Rank("verification") = 8
  BY <1>2, <1>3
<1>5. DOMAIN RowLayers = 1 .. 13
  BY DEF RowLayers
<1>6. /\ RowLayers[1] = "quantumos" /\ RowLayers[2] = "quantumos" /\ RowLayers[3] = "qlf" /\ RowLayers[4] = "qlf"
      /\ RowLayers[5] = "rspace" /\ RowLayers[6] = "rspace" /\ RowLayers[7] = "rspace" /\ RowLayers[8] = "block"
      /\ RowLayers[9] = "sentinel" /\ RowLayers[10] = "sentinel" /\ RowLayers[11] = "lattice"
      /\ RowLayers[12] = "lattice" /\ RowLayers[13] = "verification"
  BY DEF RowLayers
<1>7. ASSUME NEW i \in 1 .. 13
      PROVE  /\ Rank(RowLayers[i]) >= 1
             /\ i >= 3 => Rank(RowLayers[i]) >= 2
             /\ i >= 5 => Rank(RowLayers[i]) >= 4
             /\ i >= 9 => Rank(RowLayers[i]) >= 6
  BY <1>4, <1>6
<1> QED
  BY <1>4, <1>5, <1>6, <1>7

-----------------------------------------------------------------------------
(* What a mutation does to the judgements.                                  *)

\* The lattice certifies the block under every mutation, the cross check fails when a node lied, and
\* a doubled identity and a missing justification are seen.
LEMMA JudgedCarried ==
    ASSUME NEW r, NEW b, NEW m \in Mutations, Carried(r, b, Faults(m))
    PROVE  /\ r.lattice.committed = TRUE /\ r.lattice.prepared
           /\ r.lattice.conflicting = (m = "node-c-lied")
           /\ r.cross.hashAgreement = (m # "node-c-lied")
           /\ r.cross.hashAgreement <=> r.cross.agreeing = 4
           /\ r.cross.target = 4
           /\ r.observations # <<>> /\ DOMAIN r.observations = 1 .. 4
           /\ (m = "node-c-lied") <=> \E i \in DOMAIN r.observations :
                  r.observations[i].reachable /\ r.observations[i].hash # r.cross.common
           /\ (m = "dup-validator") <=> \E i \in DOMAIN r.observations : r.observations[i].duplicate
           /\ (m = "no-justification") <=> \E i \in DOMAIN r.observations :
                  r.observations[i].reachable /\ ~r.observations[i].justified
<1>1. PICK o : o = Faults(m)
  OBVIOUS
<1>2. /\ o.lie = IF m = "node-c-lied" THEN "C" ELSE Null
      /\ o.unreachable = Null
      /\ o.unjustified = IF m = "no-justification" THEN "A" ELSE Null
      /\ o.duplicate = IF m = "dup-validator" THEN "C" ELSE Null
  BY <1>1 DEF Faults
<1>3. Nodes[1] = "A" /\ Nodes[3] = "C"
  BY DEF Nodes
<1>4. "A" # Null /\ "C" # Null /\ "C" \in ToSet(Nodes)
  BY <1>3, Letters
<1>5. PICK obs : obs = r.observations
  OBVIOUS
<1>6. obs = ObserveBlock(b, o) /\ b.hash # Lie /\ r.cross = CrossNode(obs) /\ r.lattice = LatticeAnalyze(b, obs)
  BY <1>1, <1>5 DEF Carried
<1>7. PICK F, lied : F = {o.lie, o.unreachable} \ {Null} /\ lied = (o.lie \notin {Null, o.unreachable})
  OBVIOUS
<1>8. (lied <=> m = "node-c-lied") /\ lied \in BOOLEAN
  BY <1>2, <1>4, <1>7
<1>9. Cardinality(F) <= 1
  <2>1. CASE m = "node-c-lied"
    <3>1. F = {"C"}
      BY <1>2, <1>4, <1>7, <2>1
    <3> QED
      BY <3>1, FS_Singleton
  <2>2. CASE m # "node-c-lied"
    <3>1. F = {}
      BY <1>2, <1>7, <2>2
    <3> QED
      BY <3>1, FS_EmptySet
  <2> QED
    BY <2>1, <2>2
<1>10. o.lie \in ToSet(Nodes) \cup {Null} /\ o.unreachable \in ToSet(Nodes) \cup {Null}
  BY <1>2, <1>4
<1>11. /\ LatticeAnalyze(b, obs).committed <=> Cardinality(F) <= 1
       /\ LatticeAnalyze(b, obs).prepared <=> Cardinality(F) <= 1
       /\ LatticeAnalyze(b, obs).conflicting <=> lied
       /\ CrossNode(obs).hashAgreement <=> ~lied
       /\ o.unreachable = Null => (CrossNode(obs).hashAgreement <=> CrossNode(obs).agreeing = 4)
       /\ lied <=> \E i \in DOMAIN obs : obs[i].reachable /\ obs[i].hash # CrossNode(obs).common
       /\ CrossNode(obs).target = 4 /\ CrossNode(obs).hashAgreement \in BOOLEAN
       /\ LatticeAnalyze(b, obs).conflicting \in BOOLEAN /\ LatticeAnalyze(b, obs).committed \in BOOLEAN
  BY <1>6, <1>7, <1>10, Judged
<1>12. /\ r.lattice.committed = TRUE /\ r.lattice.prepared
       /\ r.lattice.conflicting = (m = "node-c-lied")
  BY <1>6, <1>8, <1>9, <1>11
<1>13. /\ r.cross.hashAgreement = (m # "node-c-lied")
       /\ r.cross.hashAgreement <=> r.cross.agreeing = 4
       /\ r.cross.target = 4
       /\ (m = "node-c-lied") <=> \E i \in DOMAIN obs : obs[i].reachable /\ obs[i].hash # r.cross.common
  BY <1>2, <1>6, <1>8, <1>11
<1>14. /\ Len(obs) = 4 /\ DOMAIN obs = 1 .. 4
       /\ \A i \in 1 .. 4 : /\ obs[i].reachable = (Nodes[i] # o.unreachable)
                            /\ obs[i].justified = (Nodes[i] # o.unjustified)
                            /\ obs[i].duplicate = (Nodes[i] = o.duplicate)
  BY <1>6, Observed
<1>15. (m = "dup-validator") <=> \E i \in DOMAIN obs : obs[i].duplicate
  <2>1. m = "dup-validator" => obs[3].duplicate
    <3>1. m = "dup-validator" => Nodes[3] = o.duplicate
      BY <1>2, <1>3
    <3>2. 3 \in 1 .. 4
      OBVIOUS
    <3>3. obs[3].duplicate = (Nodes[3] = o.duplicate)
      BY <1>14, <3>2
    <3> QED
      BY <3>1, <3>3, Zenon
  <2>2. ASSUME NEW i \in 1 .. 4, obs[i].duplicate PROVE m = "dup-validator"
    BY <1>2, <1>14, <2>2, Letters
  <2> QED
    BY <1>14, <2>1, <2>2
<1>16. (m = "no-justification") <=> \E i \in DOMAIN obs : obs[i].reachable /\ ~obs[i].justified
  <2>1. m = "no-justification" => obs[1].reachable /\ ~obs[1].justified
    <3>1. m = "no-justification" => Nodes[1] = o.unjustified
      BY <1>2, <1>3
    <3>2. Nodes[1] # o.unreachable
      BY <1>2, <1>3, <1>4
    <3>3. 1 \in 1 .. 4
      OBVIOUS
    <3>4. obs[1].reachable = (Nodes[1] # o.unreachable) /\ obs[1].justified = (Nodes[1] # o.unjustified)
      BY <1>14, <3>3
    <3> QED
      BY <3>1, <3>2, <3>4, Zenon
  <2>2. ASSUME NEW i \in 1 .. 4, ~obs[i].justified PROVE m = "no-justification"
    BY <1>2, <1>14, <2>2, Letters
  <2> QED
    BY <1>14, <2>1, <2>2
<1>17. obs # <<>>
  <2>1. ASSUME obs = <<>> PROVE FALSE
    <3>1. Len(obs) = 0
      BY <2>1
    <3>2. Len(obs) = 4
      BY <1>14
    <3> QED
      BY <3>1, <3>2
  <2> QED
    BY <2>1
<1> QED
  BY <1>5, <1>12, <1>13, <1>14, <1>15, <1>16, <1>17

-----------------------------------------------------------------------------
(* The last envelope binds the whole.                                       *)

\* Two realities that were carried through and are chained to one end differ in no row but the verdict.
LEMMA OneEndOneReality ==
    ASSUME NEW r, NEW b, NEW m \in Mutations, Carried(r, b, Faults(m)),
           NEW t, NEW c, NEW n \in Mutations, Carried(t, c, Faults(n)),
           NEW base, base = LinkEnvelopes(r), NEW chain, chain = LinkEnvelopes(t),
           base[Len(base)].hash = chain[Len(chain)].hash
    PROVE  \A i \in 1 .. 12 : Rows(r)[i] = Rows(t)[i]
<1>1. PICK es, fs : es = Entries(r) /\ fs = Entries(t)
  OBVIOUS
<1>2. /\ Len(es) = 8
      /\ es[1].content = r.capability /\ es[2].content = r.qlf /\ es[3].content = r.execution.comms
      /\ es[4].content = <<r.execution.rules, r.execution.state>> /\ es[5].content = b
      /\ \E seen : es[6].content = <<r.cross.agreeing, seen>>
  BY <1>1, EntriesCarried
<1>3. /\ Len(fs) = 8
      /\ fs[1].content = t.capability /\ fs[2].content = t.qlf /\ fs[3].content = t.execution.comms
      /\ fs[4].content = <<t.execution.rules, t.execution.state>> /\ fs[5].content = c
      /\ \E seen : fs[6].content = <<t.cross.agreeing, seen>>
  BY <1>1, EntriesCarried
<1>4. ChainOf(base, es, 8) /\ ChainOf(chain, fs, 8)
  <2>1. Len(es) \in Nat /\ Len(fs) \in Nat
    BY <1>2, <1>3
  <2>2. ChainOf(base, es, Len(es)) /\ ChainOf(chain, fs, Len(fs))
    BY <1>1, <2>1, ChainIs
  <2> QED
    BY <1>2, <1>3, <2>2
<1>5. Len(base) = 8 /\ Len(chain) = 8
  BY <1>4 DEF ChainOf
<1>6. \A i \in 1 .. 8 : Linked(base, es, i) /\ Linked(chain, fs, i)
  BY <1>4 DEF ChainOf
<1>7. \A i \in 1 .. 8 : es[i].content = fs[i].content
  <2>1. base[8].hash = chain[8].hash
    BY <1>5
  <2>2. \A i \in 1 .. 8 : es[i].id = fs[i].id /\ es[i].layer = fs[i].layer /\ es[i].content = fs[i].content
    <3>1. PICK k \in Nat : k = 8
      OBVIOUS
    <3>2. k > 0 => base[k].hash = chain[k].hash
      BY <2>1, <3>1
    <3>3. AllLinked(base, es, k) /\ AllLinked(chain, fs, k)
      BY <1>6, <3>1 DEF AllLinked
    <3>4. MadeAlike(es, fs, k)
      BY <3>2, <3>3, OneEnd
    <3> QED
      BY <3>1, <3>4 DEF MadeAlike
  <2> QED
    BY <2>2
<1>8. /\ r.capability = t.capability /\ r.qlf = t.qlf /\ r.execution.comms = t.execution.comms
      /\ r.execution.rules = t.execution.rules /\ r.execution.state = t.execution.state
      /\ b = c /\ r.cross.agreeing = t.cross.agreeing
  <2>1. /\ es[1].content = fs[1].content /\ es[2].content = fs[2].content /\ es[3].content = fs[3].content
        /\ es[4].content = fs[4].content /\ es[5].content = fs[5].content /\ es[6].content = fs[6].content
    BY <1>7
  <2>2. r.execution.rules = t.execution.rules /\ r.execution.state = t.execution.state
    BY <1>2, <1>3, <2>1
  <2>3. r.cross.agreeing = t.cross.agreeing
    BY <1>2, <1>3, <2>1
  <2> QED
    BY <1>2, <1>3, <2>1, <2>2, <2>3
<1>9. /\ r.cross.hashAgreement = t.cross.hashAgreement /\ r.cross.target = t.cross.target
      /\ r.lattice.committed = t.lattice.committed /\ r.lattice.conflicting = t.lattice.conflicting
  <2>1. /\ r.lattice.committed = TRUE /\ r.lattice.conflicting = (m = "node-c-lied")
        /\ r.cross.hashAgreement = (m # "node-c-lied")
        /\ r.cross.hashAgreement <=> r.cross.agreeing = 4
        /\ r.cross.target = 4
    BY JudgedCarried
  <2>2. /\ t.lattice.committed = TRUE /\ t.lattice.conflicting = (n = "node-c-lied")
        /\ t.cross.hashAgreement = (n # "node-c-lied")
        /\ t.cross.hashAgreement <=> t.cross.agreeing = 4
        /\ t.cross.target = 4
    BY JudgedCarried
  <2>3. m = "node-c-lied" <=> n = "node-c-lied"
    BY <1>8, <2>1, <2>2
  <2> QED
    BY <2>1, <2>2, <2>3
<1>10. PICK p, q, o, u : /\ p = Rows(r) /\ Carried(r, b, o)
                        /\ q = Rows(t) /\ Carried(t, c, u)
  OBVIOUS
<1>11. RowsOf(p, r, b) /\ RowsOf(q, t, c)
  BY <1>10, RowsCarried
<1>13. /\ p[1] = q[1] /\ p[2] = q[2] /\ p[3] = q[3] /\ p[4] = q[4] /\ p[5] = q[5] /\ p[6] = q[6]
       /\ p[7] = q[7] /\ p[8] = q[8] /\ p[9] = q[9] /\ p[10] = q[10] /\ p[11] = q[11] /\ p[12] = q[12]
  <2>1. p[1] = q[1] /\ p[2] = q[2] /\ p[3] = q[3] /\ p[4] = q[4]
    BY <1>8, <1>11, Zenon DEF RowsOf
  <2>2. p[5] = q[5] /\ p[6] = q[6] /\ p[7] = q[7] /\ p[8] = q[8]
    BY <1>8, <1>11, Zenon DEF RowsOf
  <2>3. p[9] = q[9] /\ p[10] = q[10]
    BY <1>8, <1>9, <1>11, Zenon DEF RowsOf
  <2>4. p[11] = q[11] /\ p[12] = q[12]
    BY <1>9, <1>11, Zenon DEF RowsOf
  <2> QED
    BY <2>1, <2>2, <2>3, <2>4
<1> QED
  BY <1>10, <1>13

\* A reality is carried through, or it was refused.
LEMMA RefusedOrCarried ==
    ASSUME NEW s \in Scenarios, NEW m \in Mutations, s \in Applies(m), NEW r, r = Compile(s, m)
    PROVE  /\ m = "drop-capability" => Refused(r)
           /\ m # "drop-capability" => Carried(r, Primary(s, m), Faults(m))
           /\ r.scenario = s /\ r.mutation = m
<1>1. m = "drop-capability" => s # "hello-rho"
  BY DEF Applies
<1> QED
  BY <1>1, CompileRefused, CompileCarried

\* The chain of a reality: each envelope names the one before and carries its hash.
LEMMA EachCarriesTheLast ==
    ASSUME NEW r, Refused(r) \/ \E b, o : Carried(r, b, o), NEW chain, chain = LinkEnvelopes(r)
    PROVE  \A i \in 2 .. Len(chain) : chain[i].prev = chain[i - 1].hash /\ chain[i].parent = chain[i - 1].id
<1>1. PICK es : es = Entries(r)
  OBVIOUS
<1>2. Len(es) \in Nat
  BY <1>1, EntriesRefused, EntriesCarried
<1>3. ChainOf(chain, es, Len(es))
  BY <1>1, <1>2, ChainIs
<1>4. Len(chain) = Len(es)
  BY <1>2, <1>3 DEF ChainOf
<1>5. ASSUME NEW i \in 2 .. Len(chain)
      PROVE  chain[i].prev = chain[i - 1].hash /\ chain[i].parent = chain[i - 1].id
  <2>1. i \in 1 .. Len(es) /\ i # 1
    BY <1>2, <1>4
  <2>2. chain[i] = Envelope(es[i], chain[i - 1].id, chain[i - 1].hash)
    BY <1>3, <2>1 DEF ChainOf, Linked
  <2> QED
    BY <2>2 DEF Envelope
<1> QED
  BY <1>5

\* Whatever a reducer makes of the process, the last envelope binds all that two realities differ in
\* before the verdict, and each envelope carries the hash and the name of the one before
\* (linkEnvelopes 429-642).
THEOREM ChainKept == WorkbenchSpec => []ChainBinds
<1>1. WorkbenchInv => ChainBinds
  <2> SUFFICES ASSUME WorkbenchInv, ~pending PROVE ChainBinds
    BY DEF ChainBinds
  <2>1. PICK r, t : r = BaselineReality /\ t = Reality
    OBVIOUS
  <2>2. scenario \in Scenarios /\ mutation \in Mutations /\ scenario \in Applies(mutation)
    BY DEF WorkbenchInv
  <2>3. "none" \in Mutations /\ scenario \in Applies("none") /\ "none" # "drop-capability"
    BY <2>2 DEF Mutations, Applies
  <2>4. PICK b : Carried(r, b, Faults("none"))
    BY <2>1, <2>2, <2>3, RefusedOrCarried DEF BaselineReality
  <2>5. /\ mutation = "drop-capability" => Refused(t)
        /\ mutation # "drop-capability" => Carried(t, Primary(scenario, mutation), Faults(mutation))
    BY <2>1, <2>2, RefusedOrCarried DEF Reality
  <2>6. PICK base, chain : base = LinkEnvelopes(r) /\ chain = LinkEnvelopes(t)
    OBVIOUS
  <2>7. \A i \in 2 .. Len(chain) : chain[i].prev = chain[i - 1].hash /\ chain[i].parent = chain[i - 1].id
    BY <2>5, <2>6, EachCarriesTheLast
  <2>8. ASSUME NEW i \in Diff, RowLayers[i] # "verification", base[Len(base)].hash = chain[Len(chain)].hash
        PROVE  FALSE
    <3>1. i \in 1 .. 12 /\ Rows(r)[i] # Rows(t)[i]
      BY <2>1, <2>8, RowRanks DEF Diff, DiffReality
    <3>2. CASE mutation # "drop-capability"
      BY <2>2, <2>3, <2>4, <2>5, <2>6, <2>8, <3>1, <3>2, OneEndOneReality
    <3>3. CASE mutation = "drop-capability"
      <4>1. PICK es, fs : es = Entries(r) /\ fs = Entries(t)
        OBVIOUS
      <4>2. Len(es) = 8 /\ es[8].content = 8
        BY <2>4, <4>1, EntriesCarried
      <4>3. Len(fs) = 3 /\ fs[3].content = 3
        BY <2>5, <3>3, <4>1, EntriesRefused
      <4>4. ChainOf(base, es, 8) /\ ChainOf(chain, fs, 3)
        <5>1. Len(es) \in Nat /\ Len(fs) \in Nat
          BY <4>2, <4>3
        <5>2. ChainOf(base, es, Len(es)) /\ ChainOf(chain, fs, Len(fs))
          BY <2>6, <4>1, <5>1, ChainIs
        <5> QED
          BY <4>2, <4>3, <5>2
      <4>5. Len(base) = 8 /\ Len(chain) = 3 /\ Linked(base, es, 8) /\ Linked(chain, fs, 3)
        BY <4>4 DEF ChainOf
      <4>6. PICK p, x : base[8] = Envelope(es[8], p, x)
        BY <4>5 DEF Linked
      <4>7. PICK q, y : chain[3] = Envelope(fs[3], q, y)
        BY <4>5 DEF Linked
      <4>8. Envelope(es[8], p, x).hash = Envelope(fs[3], q, y).hash
        BY <2>8, <4>5, <4>6, <4>7
      <4>9. es[8].content = fs[3].content
        BY <4>8, HashTells
      <4> QED
        BY <4>2, <4>3, <4>9
    <3> QED
      BY <3>2, <3>3
  <2> QED
    BY <2>1, <2>6, <2>7, <2>8 DEF ChainBinds
<1> QED
  BY <1>1, WorkbenchStays, PTL

-----------------------------------------------------------------------------
(* The verdict on a reality.                                                *)

\* A set of numbers has a least one.
LEMMA LeastOf ==
    ASSUME NEW S \in SUBSET Nat, S # {}
    PROVE  Min(S) \in S /\ \A y \in S : Min(S) =< y
<1>1. IsWellFoundedOn(OpToRel(<, Nat), Nat)
  BY NatLessThanWellFounded
<1>2. PICK x \in S : \A y \in S : <<y, x>> \notin OpToRel(<, Nat)
  BY <1>1, WFMin
<1>3. ASSUME NEW y \in S PROVE x =< y
  <2>1. x \in Nat /\ y \in Nat
    OBVIOUS
  <2>2. ~(y < x)
    BY <1>2, <2>1 DEF OpToRel
  <2> QED
    BY <2>1, <2>2
<1> QED
  BY <1>3 DEF Min

\* A list of findings shows a status when one of them has it.
Shows(findings, status) == \E f \in ToSet(findings) : f.status = status

\* That is when the findings of that status are some.
LEMMA ShowsIt ==
    ASSUME NEW findings, NEW status
    PROVE  Having(findings, status) # {} <=> Shows(findings, status)
BY DEF Having, Shows, ToSet

\* A list of members of T that are those of U.
Finds(T, found, U) == found \in Seq(T) /\ ToSet(found) = U

\* Two lists in a row have the members of both.
LEMMA FindsBoth ==
    ASSUME NEW T, NEW p, NEW q, NEW U, NEW V, Finds(T, p, U), Finds(T, q, V), NEW r, r = p \o q
    PROVE  Finds(T, r, U \cup V)
<1>1. p \in Seq(T) /\ q \in Seq(T) /\ ToSet(p) = U /\ ToSet(q) = V
  BY DEF Finds
<1>2. /\ r \in Seq(T) /\ Len(r) = Len(p) + Len(q)
      /\ \A i \in 1 .. Len(p) : r[i] = p[i]
      /\ \A i \in 1 .. Len(q) : r[Len(p) + i] = q[i]
  BY <1>1, Joined
<1>3. Len(p) \in Nat /\ Len(q) \in Nat
  BY <1>1
<1>4. DOMAIN r = 1 .. Len(p) + Len(q) /\ DOMAIN p = 1 .. Len(p) /\ DOMAIN q = 1 .. Len(q)
  BY <1>1, <1>2
<1>5. ASSUME NEW x \in ToSet(r) PROVE x \in ToSet(p) \cup ToSet(q)
  <2>1. PICK i \in 1 .. Len(p) + Len(q) : x = r[i]
    BY <1>4, <1>5 DEF ToSet
  <2>2. CASE i <= Len(p)
    BY <1>2, <1>3, <1>4, <2>1, <2>2 DEF ToSet
  <2>3. CASE ~(i <= Len(p))
    <3>1. i - Len(p) \in 1 .. Len(q) /\ Len(p) + (i - Len(p)) = i
      BY <1>3, <2>3
    <3>2. r[i] = q[i - Len(p)]
      BY <1>2, <3>1
    <3> QED
      BY <1>4, <2>1, <3>1, <3>2 DEF ToSet
  <2> QED
    BY <2>2, <2>3
<1>6. ASSUME NEW x \in ToSet(p) \cup ToSet(q) PROVE x \in ToSet(r)
  <2>1. CASE x \in ToSet(p)
    <3>1. PICK i \in 1 .. Len(p) : x = p[i]
      BY <1>4, <2>1 DEF ToSet
    <3>2. i \in DOMAIN r /\ r[i] = x
      BY <1>2, <1>3, <1>4, <3>1
    <3> QED
      BY <3>2 DEF ToSet
  <2>2. CASE x \in ToSet(q)
    <3>1. PICK i \in 1 .. Len(q) : x = q[i]
      BY <1>4, <2>2 DEF ToSet
    <3>2. Len(p) + i \in DOMAIN r /\ r[Len(p) + i] = x
      BY <1>2, <1>3, <1>4, <3>1
    <3> QED
      BY <3>2 DEF ToSet
  <2> QED
    BY <1>6, <2>1, <2>2
<1> QED
  BY <1>1, <1>2, <1>5, <1>6 DEF Finds

\* What short lists hold.
LEMMA ShortLists ==
    ASSUME NEW T, NEW p
    PROVE  /\ p = <<>> => Finds(T, p, {})
           /\ \A x \in T : p = <<x>> => Finds(T, p, {x})
           /\ \A x, y \in T : p = <<x, y>> => Finds(T, p, {x, y})
           /\ \A x, y, z \in T : p = <<x, y, z>> => Finds(T, p, {x, y, z})
<1>1. p = <<>> => Finds(T, p, {})
  BY DEF Finds, ToSet
<1>2. ASSUME NEW x \in T, p = <<x>> PROVE Finds(T, p, {x})
  BY <1>2 DEF Finds, ToSet
<1>3. ASSUME NEW x \in T, NEW y \in T, p = <<x, y>> PROVE Finds(T, p, {x, y})
  BY <1>3 DEF Finds, ToSet
<1>4. ASSUME NEW x \in T, NEW y \in T, NEW z \in T, p = <<x, y, z>> PROVE Finds(T, p, {x, y, z})
  BY <1>4 DEF Finds, ToSet
<1> QED
  BY <1>1, <1>2, <1>3, <1>4

\* Five lists in a row.
LEMMA FiveJoined ==
    ASSUME NEW T, NEW p1, NEW p2, NEW p3, NEW p4, NEW p5, NEW U1, NEW U2, NEW U3, NEW U4, NEW U5,
           Finds(T, p1, U1), Finds(T, p2, U2), Finds(T, p3, U3), Finds(T, p4, U4), Finds(T, p5, U5),
           NEW all, all = (((p1 \o p2) \o p3) \o p4) \o p5
    PROVE  Finds(T, all, (((U1 \cup U2) \cup U3) \cup U4) \cup U5)
<1>1. PICK q1, q2, q3 : q1 = p1 \o p2 /\ q2 = q1 \o p3 /\ q3 = q2 \o p4 /\ all = q3 \o p5
  OBVIOUS
<1>2. Finds(T, q1, U1 \cup U2)
  BY <1>1, FindsBoth, Zenon
<1>3. Finds(T, q2, (U1 \cup U2) \cup U3)
  BY <1>1, <1>2, FindsBoth, Zenon
<1>4. Finds(T, q3, ((U1 \cup U2) \cup U3) \cup U4)
  BY <1>1, <1>3, FindsBoth, Zenon
<1> QED
  BY <1>1, <1>4, FindsBoth, Zenon

\* A list whose members are those of U.
Lists(found, U) == \E T : Finds(T, found, U)

\* What is found of a reality that was carried through with a mutation, and what is checked of it.
FoundOf(m) ==
    {Finding("I-QOS-01", "quantumos", "PASS"), Finding("I-QLF-01", "qlf", "PASS"),
     Finding("I-RHO-01", "rspace", "PASS"), Finding("I-RPL-01", "rspace", PassIf(m # "tamper-trace")),
     Finding("I-01", "sentinel", "PASS"), Finding("I-02", "sentinel", PassIf(m # "node-c-lied")),
     Finding("I-05", "sentinel", PassIf(m # "dup-validator")),
     Finding("I-06", "sentinel", PassIf(m # "no-justification")),
     Finding("L-01", "lattice", "PASS"), Finding("L-02", "lattice", "PASS")}

CheckedOf(m) ==
    {Finding("finalized_block_cross_check", "sentinel", PassIf(m # "node-c-lied")),
     Finding("replay_match", "rspace", PassIf(m # "tamper-trace")),
     Finding("capability_gate", "quantumos", "PASS")}

\* The same of one that was refused.
FoundOfNone ==
    {Finding("I-QOS-01", "quantumos", "FAIL"), Finding("I-QLF-01", "qlf", "FAIL"),
     Finding("I-RHO-01", "rspace", "UNAVAILABLE"), Finding("I-01", "sentinel", "UNAVAILABLE"),
     Finding("I-05", "sentinel", "UNAVAILABLE"), Finding("I-06", "sentinel", "UNAVAILABLE")}

CheckedOfNone == {Finding("capability_gate", "quantumos", "FAIL")}

\* The invariants of a reality that was carried through.
LEMMA EvaluatedCarried ==
    ASSUME NEW r, NEW b, NEW m \in Mutations, Carried(r, b, Faults(m)), r.mutation = m, NEW found, found = Evaluated(r)
    PROVE  Lists(found, FoundOf(m))
<1>1. PICK f1, f2, f3, f4, f5, f6, f7, f8, f9, f10 :
         /\ f1 = Finding("I-QOS-01", "quantumos", "PASS") /\ f2 = Finding("I-QLF-01", "qlf", "PASS")
         /\ f3 = Finding("I-RHO-01", "rspace", "PASS") /\ f4 = Finding("I-RPL-01", "rspace", PassIf(m # "tamper-trace"))
         /\ f5 = Finding("I-01", "sentinel", "PASS") /\ f6 = Finding("I-02", "sentinel", PassIf(m # "node-c-lied"))
         /\ f7 = Finding("I-05", "sentinel", PassIf(m # "dup-validator"))
         /\ f8 = Finding("I-06", "sentinel", PassIf(m # "no-justification"))
         /\ f9 = Finding("L-01", "lattice", "PASS") /\ f10 = Finding("L-02", "lattice", "PASS")
  BY Zenon
<1>2. /\ r.execution # Null /\ r.execution.stuck = FALSE /\ r.blocks # <<>> /\ r.capability # Null
      /\ Balanced(r.qlf) /\ r.replay.match = (m # "tamper-trace")
  BY DEF Carried, Balanced
<1>3. PICK obs : obs = r.observations
  OBVIOUS
<1>4. /\ r.lattice.committed = TRUE /\ r.lattice.prepared
      /\ obs # <<>>
      /\ (m = "node-c-lied") <=> \E i \in DOMAIN obs : obs[i].reachable /\ obs[i].hash # r.cross.common
      /\ (m = "dup-validator") <=> \E i \in DOMAIN obs : obs[i].duplicate
      /\ (m = "no-justification") <=> \E i \in DOMAIN obs : obs[i].reachable /\ ~obs[i].justified
  BY <1>3, JudgedCarried
<1>5. /\ PassIf(r.capability # Null) = "PASS" /\ PassIf(Balanced(r.qlf)) = "PASS"
      /\ PassIf(r.lattice.committed) = "PASS" /\ PassIf(r.lattice.conflicting => r.lattice.prepared) = "PASS"
  BY <1>2, <1>4 DEF PassIf
<1>6. /\ PassIf(r.replay.match) = PassIf(m # "tamper-trace")
      /\ PassIf(~\E i \in DOMAIN obs : obs[i].reachable /\ obs[i].hash # r.cross.common) = PassIf(m # "node-c-lied")
      /\ PassIf(~\E i \in DOMAIN obs : obs[i].duplicate) = PassIf(m # "dup-validator")
      /\ PassIf(~\E i \in DOMAIN obs : obs[i].reachable /\ ~obs[i].justified) = PassIf(m # "no-justification")
  BY <1>2, <1>4 DEF PassIf
<1>7. found = (((<<f1, f2, f3>> \o <<f4>>) \o <<f5, f6>>) \o <<f7, f8>>) \o <<f9, f10>>
  BY <1>1, <1>2, <1>3, <1>4, <1>5, <1>6 DEF Evaluated
<1>8. PICK T : T = {f1, f2, f3, f4, f5, f6, f7, f8, f9, f10}
  OBVIOUS
<1>9. PICK p1, p2, p3, p4, p5 :
         p1 = <<f1, f2, f3>> /\ p2 = <<f4>> /\ p3 = <<f5, f6>> /\ p4 = <<f7, f8>> /\ p5 = <<f9, f10>>
  OBVIOUS
<1>10. /\ Finds(T, p1, {f1, f2, f3}) /\ Finds(T, p2, {f4}) /\ Finds(T, p3, {f5, f6})
       /\ Finds(T, p4, {f7, f8}) /\ Finds(T, p5, {f9, f10})
  <2>1. /\ f1 \in T /\ f2 \in T /\ f3 \in T /\ f4 \in T /\ f5 \in T /\ f6 \in T /\ f7 \in T /\ f8 \in T
        /\ f9 \in T /\ f10 \in T
    BY <1>8
  <2> QED
    BY <1>9, <2>1, ShortLists
<1>11. found = (((p1 \o p2) \o p3) \o p4) \o p5
  BY <1>7, <1>9
<1>12. Finds(T, found, ((({f1, f2, f3} \cup {f4}) \cup {f5, f6}) \cup {f7, f8}) \cup {f9, f10})
  BY <1>10, <1>11, FiveJoined
<1>13. ((({f1, f2, f3} \cup {f4}) \cup {f5, f6}) \cup {f7, f8}) \cup {f9, f10} = T
  BY <1>8
<1>14. FoundOf(m) = T
  BY <1>1, <1>8 DEF FoundOf
<1> QED
  BY <1>12, <1>13, <1>14 DEF Lists

\* Its checks.
LEMMA ChecksCarried ==
    ASSUME NEW r, NEW b, NEW m \in Mutations, Carried(r, b, Faults(m)), r.mutation = m, NEW done, done = Checks(r)
    PROVE  Lists(done, CheckedOf(m))
<1>1. PICK f1, f2, f3 : /\ f1 = Finding("finalized_block_cross_check", "sentinel", PassIf(m # "node-c-lied"))
                        /\ f2 = Finding("replay_match", "rspace", PassIf(m # "tamper-trace"))
                        /\ f3 = Finding("capability_gate", "quantumos", "PASS")
  BY Zenon
<1>2. /\ r.execution # Null /\ r.blocks # <<>> /\ r.capability # Null /\ r.replay.match = (m # "tamper-trace")
  BY DEF Carried
<1>3. r.cross.hashAgreement = (m # "node-c-lied")
  BY JudgedCarried
<1>4. /\ PassIf(r.capability # Null) = "PASS" /\ PassIf(r.replay.match) = PassIf(m # "tamper-trace")
      /\ PassIf(r.cross.hashAgreement) = PassIf(m # "node-c-lied")
  BY <1>2, <1>3 DEF PassIf
<1>5. done = (<<f1>> \o <<f2>>) \o <<f3>>
  BY <1>1, <1>2, <1>4 DEF Checks
<1>6. PICK T, p1, p2, p3, q : /\ T = {f1, f2, f3} /\ p1 = <<f1>> /\ p2 = <<f2>> /\ p3 = <<f3>> /\ q = p1 \o p2
  OBVIOUS
<1>7. Finds(T, p1, {f1}) /\ Finds(T, p2, {f2}) /\ Finds(T, p3, {f3})
  BY <1>6, ShortLists
<1>8. Finds(T, q, {f1} \cup {f2})
  BY <1>6, <1>7, FindsBoth
<1>9. done = q \o p3
  BY <1>5, <1>6
<1>10. Finds(T, done, ({f1} \cup {f2}) \cup {f3})
  BY <1>7, <1>8, <1>9, FindsBoth
<1>11. ({f1} \cup {f2}) \cup {f3} = T
  BY <1>6
<1>12. CheckedOf(m) = T
  BY <1>1, <1>6 DEF CheckedOf
<1> QED
  BY <1>10, <1>11, <1>12 DEF Lists

\* What a list holds it holds among more.
LEMMA AmongMore ==
    ASSUME NEW T, NEW p, NEW U, Finds(T, p, U), NEW S, T \subseteq S
    PROVE  Finds(S, p, U)
<1>1. p \in Seq(T)
  BY DEF Finds
<1>2. p \in Seq(S)
  BY <1>1
<1> QED
  BY <1>2 DEF Finds

\* Two lists one after the other.
ListsBoth(p, q, r, U, V) == ToSet(r) = U \cup V /\ ToSet(p) = U /\ ToSet(q) = V /\ \E T : p \in Seq(T)

\* What they hold, one by one and in a row.
LEMMA FindsAll ==
    ASSUME NEW p, NEW q, NEW U, NEW V, Lists(p, U), Lists(q, V), NEW r, r = p \o q
    PROVE  ListsBoth(p, q, r, U, V)
<1>1. PICK T, S : Finds(T, p, U) /\ Finds(S, q, V)
  BY DEF Lists
<1>2. PICK X : X = T \cup S
  OBVIOUS
<1>3. Finds(X, p, U) /\ Finds(X, q, V)
  BY <1>1, <1>2, AmongMore
<1>4. Finds(X, r, U \cup V)
  BY <1>3, FindsBoth
<1> QED
  BY <1>3, <1>4 DEF Finds, ListsBoth

\* The findings on a reality that was refused.
LEMMA FindingsRefused ==
    ASSUME NEW r, Refused(r), NEW found, found = Evaluated(r), NEW done, done = Checks(r)
    PROVE  Lists(found, FoundOfNone) /\ Lists(done, CheckedOfNone)
<1>1. PICK f1, f2, f3, f4, f5, f6, f7 :
         /\ f1 = Finding("I-QOS-01", "quantumos", "FAIL") /\ f2 = Finding("I-QLF-01", "qlf", "FAIL")
         /\ f3 = Finding("I-RHO-01", "rspace", "UNAVAILABLE") /\ f4 = Finding("I-01", "sentinel", "UNAVAILABLE")
         /\ f5 = Finding("I-05", "sentinel", "UNAVAILABLE") /\ f6 = Finding("I-06", "sentinel", "UNAVAILABLE")
         /\ f7 = Finding("capability_gate", "quantumos", "FAIL")
  BY Zenon
<1>2. r.capability = Null /\ r.execution = Null /\ r.blocks = <<>> /\ r.observations = <<>> /\ ~Balanced(r.qlf)
  BY DEF Refused, Balanced
<1>3. PassIf(r.capability # Null) = "FAIL" /\ PassIf(Balanced(r.qlf)) = "FAIL"
  BY <1>2 DEF PassIf
<1>4. PICK n, p1, p3, p4, p5 : n = <<>> /\ p1 = <<f1, f2, f3>> /\ p3 = <<f4>> /\ p4 = <<f5, f6>> /\ p5 = <<f7>>
  OBVIOUS
<1>5. found = (((p1 \o n) \o p3) \o p4) \o n
  BY <1>1, <1>2, <1>3, <1>4 DEF Evaluated
<1>6. done = (n \o n) \o p5
  BY <1>1, <1>2, <1>3, <1>4 DEF Checks
<1>7. PICK T : T = {f1, f2, f3, f4, f5, f6, f7}
  OBVIOUS
<1>8. Finds(T, n, {}) /\ Finds(T, p1, {f1, f2, f3}) /\ Finds(T, p3, {f4}) /\ Finds(T, p4, {f5, f6}) /\ Finds(T, p5, {f7})
  <2>1. f1 \in T /\ f2 \in T /\ f3 \in T /\ f4 \in T /\ f5 \in T /\ f6 \in T /\ f7 \in T
    BY <1>7
  <2> QED
    BY <1>4, <2>1, ShortLists
<1>9. Finds(T, found, ((({f1, f2, f3} \cup {}) \cup {f4}) \cup {f5, f6}) \cup {})
  BY <1>5, <1>8, FiveJoined
<1>10. ((({f1, f2, f3} \cup {}) \cup {f4}) \cup {f5, f6}) \cup {} = {f1, f2, f3, f4, f5, f6}
  OBVIOUS
<1>11. PICK q : q = n \o n
  OBVIOUS
<1>12. Finds(T, q, {} \cup {})
  BY <1>8, <1>11, FindsBoth
<1>13. Finds(T, done, ({} \cup {}) \cup {f7})
  BY <1>6, <1>8, <1>11, <1>12, FindsBoth
<1>14. ({} \cup {}) \cup {f7} = {f7}
  OBVIOUS
<1>15. FoundOfNone = {f1, f2, f3, f4, f5, f6} /\ CheckedOfNone = {f7}
  BY <1>1 DEF FoundOfNone, CheckedOfNone
<1> QED
  BY <1>9, <1>10, <1>13, <1>14, <1>15 DEF Lists

\* The parts of a finding.
LEMMA FindingIs ==
    ASSUME NEW id, NEW layer, NEW status
    PROVE  Finding(id, layer, status).layer = layer /\ Finding(id, layer, status).status = status
BY DEF Finding

\* Whether the checks of a reality make its record diverge.
LEMMA RecordDiverges ==
    ASSUME NEW r, NEW done, done = Checks(r)
    PROVE  RecordState(r) = "DIVERGENT" <=> Shows(done, "FAIL") \/ (r.execution # Null /\ ~r.replay.match)
<1>1. PICK states : states = {VerificationState(done[i].status) : i \in DOMAIN done} \cup {ReplayState(r)}
  OBVIOUS
<1>2. RecordState(r) = "DIVERGENT" <=> "DIVERGENT" \in states
  BY <1>1 DEF RecordState
<1>3. ReplayState(r) = "DIVERGENT" <=> r.execution # Null /\ ~r.replay.match
  BY DEF ReplayState
<1>4. \A x : VerificationState(x) = "DIVERGENT" <=> x = "FAIL"
  BY DEF VerificationState
<1>5. Shows(done, "FAIL") <=> \E i \in DOMAIN done : done[i].status = "FAIL"
  BY DEF Shows, ToSet
<1> QED
  BY <1>1, <1>2, <1>3, <1>4, <1>5

\* The verdict on a reality that was refused.
LEMMA VerdictRefused ==
    ASSUME NEW r, Refused(r), r.mutation = "drop-capability"
    PROVE  OverallStatus(r) = "FAIL" /\ Witness(r).layer = "quantumos" /\ RecordState(r) = "DIVERGENT"
<1>1. PICK found, done, all : found = Evaluated(r) /\ done = Checks(r) /\ all = found \o done
  OBVIOUS
<1>2. PICK U, V : U = FoundOfNone /\ V = CheckedOfNone
  OBVIOUS
<1>4. Lists(found, U) /\ Lists(done, V)
  BY <1>1, <1>2, FindingsRefused
<1>5. ToSet(found) = U /\ ToSet(done) = V /\ ToSet(all) = U \cup V
  <2>1. ListsBoth(found, done, all, U, V)
    BY <1>1, <1>4, FindsAll
  <2> QED
    BY <2>1 DEF ListsBoth
<1>6. Finding("I-QOS-01", "quantumos", "FAIL") \in U /\ Finding("capability_gate", "quantumos", "FAIL") \in V
  BY <1>2 DEF FoundOfNone, CheckedOfNone
<1>7. Shows(found, "FAIL") /\ Shows(done, "FAIL") /\ Shows(all, "FAIL")
  BY <1>5, <1>6, FindingIs DEF Shows
<1>8. Having(found, "FAIL") # {} /\ Having(all, "FAIL") # {}
  BY <1>7, ShowsIt
<1>9. OverallStatus(r) = "FAIL"
  BY <1>1, <1>8 DEF OverallStatus
<1>10. Witness(r) = Finding("I-QOS-01", "quantumos", "FAIL")
  BY <1>1, <1>8 DEF Witness
<1>11. RecordState(r) = "DIVERGENT"
  BY <1>1, <1>7, RecordDiverges
<1> QED
  BY <1>9, <1>10, <1>11, FindingIs

\* The verdict on one that was carried through.
LEMMA VerdictCarried ==
    ASSUME NEW r, NEW b, NEW m \in Mutations, m # "drop-capability", Carried(r, b, Faults(m)), r.mutation = m
    PROVE  /\ m \in {"none", "force-abort"} => OverallStatus(r) = "PASS" /\ Witness(r) = Null
           /\ m \notin {"none", "force-abort"} => OverallStatus(r) = "FAIL" /\ Witness(r).layer = Struck(m)
           /\ RecordState(r) = "DIVERGENT" <=> m \in {"node-c-lied", "tamper-trace"}
<1>1. PICK found, done, all : found = Evaluated(r) /\ done = Checks(r) /\ all = found \o done
  OBVIOUS
<1>2. PICK U, V : U = FoundOf(m) /\ V = CheckedOf(m)
  OBVIOUS
<1>4. Lists(found, U) /\ Lists(done, V)
  BY <1>1, <1>2, EvaluatedCarried, ChecksCarried
<1>5. ToSet(found) = U /\ ToSet(done) = V /\ ToSet(all) = U \cup V /\ \E T : found \in Seq(T)
  <2>1. ListsBoth(found, done, all, U, V)
    BY <1>1, <1>4, FindsAll
  <2> QED
    BY <2>1 DEF ListsBoth
<1>6. /\ \A f \in U \cup V : f.status \in {"PASS", "FAIL"}
      /\ \A f \in U \cup V : f.status = "FAIL" => f.layer \in {"rspace", "sentinel"} /\ m \notin {"none", "force-abort"}
      /\ \A f \in U : f.status = "FAIL" /\ m \in {"dup-validator", "no-justification"} => f.layer = "sentinel"
      /\ \A f \in V : f.status = "FAIL" => m \in {"node-c-lied", "tamper-trace"}
  BY <1>2, FindingIs DEF PassIf, FoundOf, CheckedOf
<1>7. ~Shows(found, "WARN") /\ ~Shows(all, "WARN")
  BY <1>5, <1>6 DEF Shows
<1>8. m \in {"none", "force-abort"} => ~Shows(found, "FAIL") /\ ~Shows(all, "FAIL")
  BY <1>5, <1>6 DEF Shows
<1>9. m \notin {"none", "force-abort"} => Shows(found, "FAIL")
  <2>1. m \in {"node-c-lied", "dup-validator", "no-justification", "tamper-trace"} \/ m \in {"none", "force-abort"}
    BY DEF Mutations
  <2>2. \E f \in U : m \in {"node-c-lied", "dup-validator", "no-justification", "tamper-trace"} => f.status = "FAIL"
    BY <1>2, <2>1, FindingIs DEF PassIf, FoundOf
  <2> QED
    BY <1>5, <2>1, <2>2 DEF Shows
<1>10. m \notin {"none", "force-abort"} => Shows(all, "FAIL")
  BY <1>5, <1>9 DEF Shows
<1>11. Shows(done, "FAIL") <=> m \in {"node-c-lied", "tamper-trace"}
  <2>1. m = "node-c-lied" => \E f \in V : f.status = "FAIL"
    BY <1>2, FindingIs DEF PassIf, CheckedOf
  <2>2. m = "tamper-trace" => \E f \in V : f.status = "FAIL"
    BY <1>2, FindingIs DEF PassIf, CheckedOf
  <2> QED
    BY <1>5, <1>6, <2>1, <2>2 DEF Shows
<1>12. r.execution # Null /\ r.replay.match = (m # "tamper-trace")
  BY DEF Carried
<1>13. RecordState(r) = "DIVERGENT" <=> m \in {"node-c-lied", "tamper-trace"}
  BY <1>1, <1>11, <1>12, RecordDiverges
<1>14. PICK failed, warned : failed = Having(found, "FAIL") /\ warned = Having(found, "WARN")
  OBVIOUS
<1>15. warned = {} /\ (failed # {} <=> Shows(found, "FAIL"))
  BY <1>7, <1>14, ShowsIt
<1>16. ASSUME m \in {"none", "force-abort"} PROVE OverallStatus(r) = "PASS" /\ Witness(r) = Null
  <2>1. Having(all, "FAIL") = {} /\ Having(all, "WARN") = {}
    BY <1>7, <1>8, <1>16, ShowsIt
  <2>2. OverallStatus(r) = "PASS"
    BY <1>1, <2>1 DEF OverallStatus
  <2>3. failed \cup warned = {}
    BY <1>8, <1>15, <1>16
  <2> QED
    BY <1>1, <1>14, <2>2, <2>3 DEF Witness
<1>17. ASSUME m \notin {"none", "force-abort"} PROVE OverallStatus(r) = "FAIL" /\ Witness(r).layer = Struck(m)
  <2>1. Having(all, "FAIL") # {} /\ failed # {} /\ failed \cup warned # {}
    BY <1>9, <1>10, <1>15, <1>17, ShowsIt
  <2>2. OverallStatus(r) = "FAIL"
    BY <1>1, <2>1 DEF OverallStatus
  <2>3. CASE m = "node-c-lied"
    <3>1. Witness(r) = Finding("I-02", "sentinel", "FAIL")
      BY <1>1, <1>14, <2>1, <2>3 DEF Witness
    <3> QED
      BY <2>2, <2>3, <3>1, FindingIs DEF Struck
  <2>4. CASE m = "tamper-trace"
    <3>1. Witness(r) = Finding("I-RPL-01", "rspace", "FAIL")
      BY <1>1, <1>12, <1>14, <2>1, <2>4 DEF Witness
    <3> QED
      BY <2>2, <2>4, <3>1, FindingIs DEF Struck
  <2>5. CASE m \in {"dup-validator", "no-justification"}
    <3>1. Witness(r) = found[Min(failed)]
      BY <1>1, <1>14, <2>1, <2>5 DEF Witness
    <3>2. failed \subseteq DOMAIN found /\ DOMAIN found \subseteq Nat
      <4>1. PICK T : found \in Seq(T)
        BY <1>5
      <4> QED
        BY <1>14, <4>1 DEF Having
    <3>3. Min(failed) \in failed
      BY <2>1, <3>2, LeastOf
    <3>4. found[Min(failed)] \in U /\ found[Min(failed)].status = "FAIL"
      BY <1>5, <1>14, <3>3 DEF Having, ToSet
    <3> QED
      BY <1>6, <2>2, <2>5, <3>1, <3>4 DEF Struck
  <2> QED
    BY <1>17, <2>3, <2>4, <2>5 DEF Mutations
<1> QED
  BY <1>13, <1>16, <1>17

-----------------------------------------------------------------------------
(* The comparison blames the layer that was struck.                         *)

\* The length of two sequences in a row.
LEMMA JoinedLength ==
    ASSUME NEW T, NEW p \in Seq(T), NEW q \in Seq(T), NEW r, r = p \o q
    PROVE  Len(r) = Len(p) + Len(q)
BY ConcatProperties

\* An exchange has a send and a receive for each of its verbs.
LEMMA TwiceTheVerbs ==
    ASSUME NEW n \in Nat, NEW verbs, DOMAIN verbs = 1 .. n
    PROVE  Len(ExchangeProc(verbs).p.ps) = n + n
<1>1. PICK p : p = [i \in DOMAIN verbs |-> Send(Var("pool"), <<verbs[i]>>)]
  OBVIOUS
<1>2. PICK q : q = [i \in DOMAIN verbs |-> For(Var("pool"), <<"ack">>, Nil)]
  OBVIOUS
<1>3. PICK T : T = {p[i] : i \in 1 .. n} \cup {q[i] : i \in 1 .. n}
  OBVIOUS
<1>4. p \in Seq(T) /\ Len(p) = n
  BY <1>1, <1>3
<1>5. q \in Seq(T) /\ Len(q) = n
  BY <1>2, <1>3
<1>6. PICK r : r = p \o q
  OBVIOUS
<1>7. Len(r) = Len(p) + Len(q)
  BY <1>4, <1>5, <1>6, JoinedLength
<1>8. ExchangeProc(verbs).p.ps = r
  BY <1>1, <1>2, <1>6 DEF ExchangeProc, NewIn, Par
<1> QED
  BY <1>4, <1>5, <1>7, <1>8

\* An exchange that is aborted is another process than the one that commits.
LEMMA AbortIsAnother == Process("exchange-commit", "force-abort") # Process("exchange-commit", "none")
<1>1. PICK x, y : /\ x = <<"deposit", "prepare", "abort">>
                  /\ y = <<"deposit", "prepare", "prepareReceive", "commit", "commit">>
  OBVIOUS
<1>2. Process("exchange-commit", "force-abort") = ExchangeProc(x)
  BY <1>1 DEF Process, Aborts
<1>3. Process("exchange-commit", "none") = ExchangeProc(y)
  BY <1>1 DEF Process, Aborts
<1>4. DOMAIN x = 1 .. 3 /\ DOMAIN y = 1 .. 5
  BY <1>1
<1>5. Len(ExchangeProc(x).p.ps) = 6
  <2>1. Len(ExchangeProc(x).p.ps) = 3 + 3
    BY <1>4, TwiceTheVerbs
  <2> QED
    BY <2>1
<1>6. Len(ExchangeProc(y).p.ps) = 10
  <2>1. Len(ExchangeProc(y).p.ps) = 5 + 5
    BY <1>4, TwiceTheVerbs
  <2> QED
    BY <2>1
<1> QED
  BY <1>2, <1>3, <1>5, <1>6

\* A mutation that does not abort leaves the process, and with it the first block, as it was.
LEMMA SameProcess ==
    ASSUME NEW s \in Scenarios, NEW m \in Mutations, m # "force-abort"
    PROVE  Process(s, m) = Process(s, "none") /\ Primary(s, m) = Primary(s, "none")
<1>1. Process(s, m) = Process(s, "none")
  BY DEF Process, Aborts
<1> QED
  BY <1>1 DEF Primary

\* Where a comparison with the baseline begins to differ.
LEMMA Differs ==
    ASSUME NEW s \in Scenarios, NEW m \in Mutations, m # "none", s \in Applies(m),
           NEW p, p = Rows(Compile(s, "none")), NEW q, q = Rows(Compile(s, m))
    PROVE  /\ \E i \in 1 .. 13 : p[i] # q[i]
           /\ m = "force-abort" => p[1] = q[1] /\ p[2] = q[2]
           /\ m = "tamper-trace" => \A i \in 1 .. 4 : p[i] = q[i]
           /\ m \notin {"drop-capability", "force-abort", "tamper-trace"} => \A i \in 1 .. 8 : p[i] = q[i]
<1>1. PICK r, t : r = Compile(s, "none") /\ t = Compile(s, m)
  OBVIOUS
<1>2. "none" \in Mutations /\ s \in Applies("none") /\ "none" # "drop-capability"
  BY DEF Mutations, Applies
<1>3. PICK b : b = Primary(s, "none")
  OBVIOUS
<1>4. Carried(r, b, Faults("none")) /\ r.mutation = "none"
  BY <1>1, <1>2, <1>3, RefusedOrCarried
<1>5. RowsOf(p, r, b)
  BY <1>1, <1>4, RowsCarried
<1>6. CASE m = "drop-capability"
  <2>1. t.capability = Null
    BY <1>1, <1>6, RefusedOrCarried DEF Refused
  <2>2. q[1] = t.capability
    BY <1>1 DEF Rows
  <2>3. p[1] = r.capability /\ r.capability # Null
    BY <1>4, <1>5 DEF RowsOf, Carried
  <2>4. 1 \in 1 .. 13 /\ p[1] # q[1]
    BY <2>1, <2>2, <2>3
  <2> QED
    BY <1>6, <2>4
<1>7. CASE m # "drop-capability"
  <2>1. PICK c : c = Primary(s, m)
    OBVIOUS
  <2>2. Carried(t, c, Faults(m)) /\ t.mutation = m
    BY <1>1, <1>7, <2>1, RefusedOrCarried
  <2>3. RowsOf(q, t, c)
    BY <1>1, <2>2, RowsCarried
  <2>4. r.capability = t.capability /\ r.execution = Reducer(Process(s, "none")) /\ t.execution = Reducer(Process(s, m))
    BY <1>1, <1>2, <1>7, CompileCarried
  <2>5. p[1] = q[1] /\ p[2] = q[2]
    BY <1>5, <2>3, <2>4, Zenon DEF RowsOf
  <2>6. CASE m = "force-abort"
    <3>1. s = "exchange-commit"
      BY <2>6 DEF Applies
    <3>2. PICK d, e : d = Process(s, "none") /\ e = Process(s, m)
      OBVIOUS
    <3>3. d # e
      BY <2>6, <3>1, <3>2, AbortIsAnother
    <3>4. PICK x, y, v, w : b.hash = <<"block", x, y, d, v>> /\ c.hash = <<"block", x, y, e, w>>
      BY <1>3, <2>1, <3>2, BlockHash DEF Primary
    <3>5. b.hash # c.hash
      BY <3>3, <3>4
    <3>6. p[8] = b.hash /\ q[8] = c.hash
      BY <1>5, <2>3, Zenon DEF RowsOf
    <3>7. 8 \in 1 .. 13 /\ p[8] # q[8]
      BY <3>5, <3>6
    <3> QED
      BY <2>5, <2>6, <3>7
  <2>7. CASE m # "force-abort"
    <3>1. b = c /\ r.execution = t.execution
      BY <1>3, <2>1, <2>4, <2>7, SameProcess
    <3>2. /\ r.qlf.positive = t.qlf.positive /\ r.qlf.negative = t.qlf.negative /\ r.qlf.gap = t.qlf.gap
      BY <1>4, <2>2, <3>1 DEF Carried
    <3>3. p[3] = q[3] /\ p[4] = q[4]
      BY <1>5, <2>3, <3>2, Zenon DEF RowsOf
    <3>4. p[5] = q[5] /\ p[6] = q[6] /\ p[7] = q[7] /\ p[8] = q[8]
      BY <1>5, <2>3, <3>1, Zenon DEF RowsOf
    <3>5. OverallStatus(r) = "PASS"
      BY <1>2, <1>4, VerdictCarried
    <3>6. OverallStatus(t) = "FAIL"
      BY <1>7, <2>2, <2>7, VerdictCarried
    <3>7. p[13] = OverallStatus(r) /\ q[13] = OverallStatus(t)
      BY <1>5, <2>3, Zenon DEF RowsOf
    <3>8. 13 \in 1 .. 13 /\ p[13] # q[13]
      BY <3>5, <3>6, <3>7
    <3>9. \A i \in 1 .. 8 : p[i] = q[i]
      BY <2>5, <3>3, <3>4
    <3> QED
      BY <2>7, <3>8, <3>9
  <2> QED
    BY <2>6, <2>7
<1> QED
  BY <1>6, <1>7

\* Whatever a reducer makes of the process, the comparison tells what the mutation did: the baseline
\* passes, a deviation fails, is blamed on the layer it struck and differs in no layer before it,
\* an abort is no failure, and the sealed record diverges with the checks (evaluate 644-1017,
\* diffReality 1033-1131, realityToRecord 199-219).
THEOREM BlameKept == WorkbenchSpec => []BlameLands
<1>1. WorkbenchInv => BlameLands
  <2> SUFFICES ASSUME WorkbenchInv, ~pending PROVE BlameLands
    BY DEF BlameLands
  <2>1. scenario \in Scenarios /\ mutation \in Mutations /\ scenario \in Applies(mutation)
    BY DEF WorkbenchInv
  <2>2. "none" \in Mutations /\ scenario \in Applies("none") /\ "none" # "drop-capability"
    BY <2>1 DEF Mutations, Applies
  <2>3. PICK r, t, m : r = BaselineReality /\ t = Reality /\ m = mutation
    OBVIOUS
  <2>4. r = Compile(scenario, "none") /\ t = Compile(scenario, m) /\ m \in Mutations
    BY <2>1, <2>3 DEF BaselineReality, Reality
  <2>5. Carried(r, Primary(scenario, "none"), Faults("none")) /\ r.mutation = "none"
    BY <2>1, <2>2, <2>4, RefusedOrCarried
  <2>6. OverallStatus(r) = "PASS" /\ Witness(r) = Null
    BY <2>2, <2>5, VerdictCarried
  <2>7. /\ m \in {"none", "force-abort"} => OverallStatus(t) = "PASS" /\ Witness(t) = Null
        /\ m \notin {"none", "force-abort"} => OverallStatus(t) = "FAIL" /\ Witness(t).layer = Struck(m)
        /\ RecordState(t) = "DIVERGENT" <=> m \in {"node-c-lied", "drop-capability", "tamper-trace"}
    <3>1. CASE m = "drop-capability"
      <4>1. Refused(t) /\ t.mutation = "drop-capability"
        BY <2>1, <2>3, <2>4, <3>1, RefusedOrCarried
      <4>2. OverallStatus(t) = "FAIL" /\ Witness(t).layer = "quantumos" /\ RecordState(t) = "DIVERGENT"
        BY <4>1, VerdictRefused
      <4> QED
        BY <3>1, <4>2 DEF Struck
    <3>2. CASE m # "drop-capability"
      <4>1. Carried(t, Primary(scenario, m), Faults(m)) /\ t.mutation = m
        BY <2>1, <2>3, <2>4, <3>2, RefusedOrCarried
      <4>2. /\ m \in {"none", "force-abort"} => OverallStatus(t) = "PASS" /\ Witness(t) = Null
            /\ m \notin {"none", "force-abort"} => OverallStatus(t) = "FAIL" /\ Witness(t).layer = Struck(m)
            /\ RecordState(t) = "DIVERGENT" <=> m \in {"node-c-lied", "tamper-trace"}
        BY <2>4, <3>2, <4>1, VerdictCarried
      <4> QED
        BY <3>2, <4>2
    <3> QED
      BY <3>1, <3>2
  <2>8. m = "none" => Diff = {}
    BY <2>3, <2>4 DEF Diff, DiffReality
  <2>9. ASSUME m # "none" PROVE Diff # {} /\ Rank(RowLayers[Min(Diff)]) >= Rank(Struck(m))
    <3>1. PICK p, q : p = Rows(r) /\ q = Rows(t)
      OBVIOUS
    <3>2. /\ \E i \in 1 .. 13 : p[i] # q[i]
          /\ m = "force-abort" => p[1] = q[1] /\ p[2] = q[2]
          /\ m = "tamper-trace" => \A i \in 1 .. 4 : p[i] = q[i]
          /\ m \notin {"drop-capability", "force-abort", "tamper-trace"} => \A i \in 1 .. 8 : p[i] = q[i]
      BY <2>1, <2>3, <2>4, <2>9, <3>1, Differs
    <3>3. Diff = {i \in 1 .. 13 : p[i] # q[i]}
      BY <2>3, <3>1, RowRanks DEF Diff, DiffReality
    <3>4. Diff # {} /\ Diff \in SUBSET Nat
      BY <3>2, <3>3
    <3>5. PICK i : i = Min(Diff)
      OBVIOUS
    <3>6. i \in 1 .. 13 /\ p[i] # q[i]
      BY <3>3, <3>4, <3>5, LeastOf
    <3>7. CASE m = "drop-capability"
      BY <3>4, <3>5, <3>6, <3>7, RowRanks DEF Struck
    <3>8. CASE m = "force-abort"
      <4>1. i >= 3 /\ Struck(m) = "qlf"
        BY <3>2, <3>6, <3>8 DEF Struck
      <4> QED
        BY <3>4, <3>5, <3>6, <4>1, RowRanks
    <3>9. CASE m = "tamper-trace"
      <4>1. i >= 5 /\ Struck(m) = "rspace"
        BY <3>2, <3>6, <3>9 DEF Struck
      <4> QED
        BY <3>4, <3>5, <3>6, <4>1, RowRanks
    <3>10. CASE m \notin {"drop-capability", "force-abort", "tamper-trace"}
      <4>1. i >= 9 /\ Struck(m) = "sentinel"
        BY <3>2, <3>6, <3>10 DEF Struck
      <4> QED
        BY <3>4, <3>5, <3>6, <4>1, RowRanks
    <3> QED
      BY <3>7, <3>8, <3>9, <3>10
  <2> QED
    BY <2>3, <2>6, <2>7, <2>8, <2>9 DEF BlameLands
<1> QED
  BY <1>1, WorkbenchStays, PTL
================================================================================
