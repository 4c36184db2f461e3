------------------------------- MODULE P2PRoom -------------------------------
(***************************************************************************)
(* Two members of a room of src/lib/multiplayer/p2p.ts that find and keep  *)
(* one WebRTC connection, signalling through a relay that they poll.       *)
(*                                                                         *)
(* In a full mesh the pairs only share the poll loop, so one pair is the   *)
(* unit.  Member 2 dials: the larger id creates the channels, is impolite, *)
(* and rebuilds a pair that stalls.  A step is what a handler does between *)
(* two awaits.  A poll is started by a timer which other code also sets,   *)
(* so two of them can be under way, each between awaits of its own.        *)
(*                                                                         *)
(* External: the relay (a roster, and per member a log of signals), and    *)
(* RTCPeerConnection, as a state machine of descriptions: it chains its    *)
(* operations, and closing it leaves those still chained unsettled for     *)
(* ever, and with them the poll that awaits one.  Left out: candidates,    *)
(* which follow their description; pings; what the app sees.               *)
(***************************************************************************)
EXTENDS Integers, Sequences, FiniteSets

CONSTANTS
    Peer,         \* {1, 2}: ids in their order
    Polls,        \* Polls[p]: numbers for the polls under way at p
    MaxAttempts,  \* MAX_RECOVERY_ATTEMPTS
    MaxFaults,    \* bound on lost, doubled and late calls and broken links
    Suspended,    \* members whose connections may refuse an offer
    Leavers       \* members who may close the room

ASSUME ConstantsAssumption ==
    /\ Peer = {1, 2}
    /\ \A p \in Peer : Polls[p] \subseteq Nat \ {0} /\ IsFiniteSet(Polls[p])
    /\ MaxAttempts \in Nat
    /\ MaxFaults \in Nat
    /\ Suspended \subseteq Peer
    /\ Leavers \subseteq Peer

VARIABLES
    closed,  \* per member: close() was called
    timer,   \* per member: the next poll is scheduled
    polls,   \* per member and identifier: a poll
    cursor,  \* per member: id of the last signal it has begun to handle
    slot,    \* per member: its PeerSlot for the other one
    pcs,     \* per member: its open RTCPeerConnections, by creation number
    last,    \* per member: how many it has created
    queue,   \* per member: signals it still has to post, first one under way
    roster,  \* relay: who is in the room
    relay,   \* relay: per member, all signals addressed to it
    faults   \* faults so far

vars == <<closed, timer, polls, cursor, slot, pcs, last, queue, roster, relay, faults>>

Other(p) == 3 - p

Dialer(p) == p > Other(p)

Polite(p) == p < Other(p)

-----------------------------------------------------------------------------
(* Data.                                                                    *)

\* A session description: the n-th offer of connection pc, or connection pc's
\* answer to the offer `re`.
NoDescription == [type |-> "none", pc |-> 0, n |-> 0, re |-> <<0, 0>>]

OfferOf(i, n) == [type |-> "offer", pc |-> i, n |-> n, re |-> <<0, 0>>]

AnswerOf(i, offer) == [type |-> "answer", pc |-> i, n |-> 0, re |-> <<offer.pc, offer.n>>]

\* An RTCPeerConnection.  pending is a local offer that waits for an answer;
\* need: negotiationneeded will fire; chain: the polls whose operations are
\* under way or wait for their turn; mate and session: the connection it is or
\* was connected to, and by which offer.
NewConnection(initiator) ==
    [signaling |-> "stable", offers |-> 0, pending |-> NoDescription,
     local |-> NoDescription, remote |-> NoDescription,
     need |-> initiator, chain |-> <<>>, state |-> "new", mate |-> 0,
     session |-> <<0, 0, 0>>]

NoSlot == [pc |-> 0, attempts |-> 0, terminal |-> FALSE, recreated |-> FALSE]

\* stage: where the poll is, "remote", "answer" and "post" being the awaits of
\* setRemoteDescription, setLocalDescription and sendSignal in onSignal; next
\* and upto: the signals it still has to handle; known: the roster it was
\* given; pc: of the slot onSignal has in hand.
NoPoll == [stage |-> "idle", next |-> 1, upto |-> 0, known |-> {}, pc |-> 0]

\* setLocalDescription() in state stable makes an offer.
Offering(c, i) ==
    [c EXCEPT !.signaling = "have-local-offer", !.offers = @ + 1, !.need = FALSE,
              !.pending = OfferOf(i, c.offers + 1)]

\* ... and after a remote offer an answer.
Answering(c, i) ==
    [c EXCEPT !.signaling = "stable", !.local = AnswerOf(i, c.remote)]

\* setRemoteDescription(offer) rolls an own offer back.
Offered(c, offer) ==
    [c EXCEPT !.signaling = "have-remote-offer", !.remote = offer,
              !.pending = NoDescription, !.need = FALSE]

\* setRemoteDescription(answer), to whatever offer is outstanding.
Answered(c, answer) ==
    [c EXCEPT !.signaling = "stable", !.remote = answer,
              !.local = c.pending, !.pending = NoDescription]

Fits(c, d) ==
    \/ d.type = "offer"
    \/ d.type = "answer" /\ c.signaling = "have-local-offer"

Described(c, d) == IF d.type = "offer" THEN Offered(c, d) ELSE Answered(c, d)

\* connectTo: a new connection beside those of `open`.
With(open, i, initiator) ==
    [j \in DOMAIN open \cup {i} |-> IF j = i THEN NewConnection(initiator) ELSE open[j]]

Without(open, i) == [j \in DOMAIN open \ {i} |-> open[j]]

\* slot.makingOffer: an offer of the slot's connection is not posted yet.
MakingOffer(p, i) ==
    \E k \in 1..Len(queue[p]) : /\ queue[p][k].kind = "offer"
                                /\ queue[p][k].description.pc = i

\* Both ends hold the two descriptions of one negotiation.
Agreed(p, i, j) ==
    LET c == pcs[p][i]
        d == pcs[Other(p)][j]
    IN  /\ c.signaling = "stable" /\ d.signaling = "stable"
        /\ c.local.pc = i /\ d.local.pc = j
        /\ c.remote = d.local /\ d.remote = c.local
        /\ \/ c.remote.type = "answer" /\ c.remote.re = <<i, c.local.n>>
           \/ d.remote.type = "answer" /\ d.remote.re = <<j, d.local.n>>

Session(p, i) ==
    LET c == pcs[p][i]
    IN  IF c.local.type = "offer" THEN <<p, i, c.local.n>>
                                  ELSE <<Other(p), c.remote.pc, c.remote.n>>

Connected(p) == slot[p] # NoSlot /\ pcs[p][slot[p].pc].state = "connected"

-----------------------------------------------------------------------------
(* The poll loop.                                                           *)

Init ==
    /\ closed = [p \in Peer |-> FALSE]
    /\ timer = [p \in Peer |-> TRUE]
    /\ polls = [p \in Peer |-> [k \in Polls[p] |-> NoPoll]]
    /\ cursor = [p \in Peer |-> 0]
    /\ slot = [p \in Peer |-> NoSlot]
    /\ pcs = [p \in Peer |-> <<>>]
    /\ last = [p \in Peer |-> 0]
    /\ queue = [p \in Peer |-> <<>>]
    /\ roster = {}
    /\ relay = [p \in Peer |-> <<>>]
    /\ faults = 0

Fault == faults < MaxFaults /\ faults' = faults + 1

\* A poll whose operation was chained on a connection closed since.
Hung(p, k) ==
    /\ polls[p][k].stage \in {"remote", "answer"}
    /\ polls[p][k].pc \notin DOMAIN pcs[p]

Free(p, k) == polls[p][k].stage = "idle" \/ Hung(p, k)

Begin(p, k) ==
    /\ ~closed[p]
    /\ timer[p]
    /\ Free(p, k)
    /\ \A j \in Polls[p] : Free(p, j) => k <= j
    /\ timer' = [timer EXCEPT ![p] = FALSE]
    /\ polls' = [polls EXCEPT ![p][k] = [NoPoll EXCEPT !.stage = "fetch",
                                                       !.next = cursor[p] + 1]]
    /\ UNCHANGED <<closed, cursor, slot, pcs, last, queue, roster, relay, faults>>

\* The relay registers who polls, late polls of a leaver included.
Serve(p, k) ==
    /\ polls[p][k].stage = "fetch"
    /\ roster' = roster \cup {p}
    /\ polls' = [polls EXCEPT ![p][k] = [@ EXCEPT !.stage = "reply",
                    !.upto = Len(relay[p]), !.known = roster \cup {p}]]
    /\ UNCHANGED <<closed, timer, cursor, slot, pcs, last, queue, relay, faults>>

\* A poll that fails is caught; the loop goes on.
Fail(p, k) ==
    /\ ~closed[p]
    /\ polls[p][k].stage \in {"fetch", "reply"}
    /\ Fault
    /\ polls' = [polls EXCEPT ![p][k] = NoPoll]
    /\ timer' = [timer EXCEPT ![p] = TRUE]
    /\ UNCHANGED <<closed, cursor, slot, pcs, last, queue, roster, relay>>

\* After each await: if (this.closed) return.
Abandon(p, k) ==
    /\ closed[p]
    /\ polls[p][k].stage \in {"reply", "run", "post"}
    /\ polls' = [polls EXCEPT ![p][k] = NoPoll]
    /\ UNCHANGED <<closed, timer, cursor, slot, pcs, last, queue, roster, relay, faults>>

Connect(p, initiator, attempts, recreated, open) ==
    /\ last' = [last EXCEPT ![p] = @ + 1]
    /\ pcs' = [pcs EXCEPT ![p] = With(open, last[p] + 1, initiator)]
    /\ slot' = [slot EXCEPT ![p] = [pc |-> last[p] + 1, attempts |-> attempts,
                                    terminal |-> FALSE, recreated |-> recreated]]

Drop(p) ==
    /\ slot' = [slot EXCEPT ![p] = NoSlot]
    /\ pcs' = [pcs EXCEPT ![p] = Without(@, slot[p].pc)]

\* Mutant: the roster only adds members.
ReconcileMutant(p, k) ==
    /\ ~closed[p]
    /\ polls[p][k].stage = "reply"
    /\ polls' = [polls EXCEPT ![p][k].stage = "run"]
    /\ IF Other(p) \in polls[p][k].known /\ slot[p] = NoSlot
       THEN Connect(p, Dialer(p), 0, FALSE, pcs[p])
       ELSE UNCHANGED <<slot, pcs, last>>
    /\ UNCHANGED <<closed, timer, cursor, queue, roster, relay, faults>>

Reconcile(p, k) ==
    /\ ~closed[p]
    /\ polls[p][k].stage = "reply"
    /\ polls' = [polls EXCEPT ![p][k].stage = "run"]
    /\ IF Other(p) \in polls[p][k].known
       THEN IF slot[p] = NoSlot
            THEN Connect(p, Dialer(p), 0, FALSE, pcs[p])
            ELSE UNCHANGED <<slot, pcs, last>>
       ELSE Drop(p) /\ UNCHANGED last
    /\ UNCHANGED <<closed, timer, cursor, queue, roster, relay, faults>>

End(p, k) ==
    /\ ~closed[p]
    /\ polls[p][k].stage = "run"
    /\ polls[p][k].next > polls[p][k].upto
    /\ polls' = [polls EXCEPT ![p][k] = NoPoll]
    /\ timer' = [timer EXCEPT ![p] = TRUE]
    /\ UNCHANGED <<closed, cursor, slot, pcs, last, queue, roster, relay, faults>>

-----------------------------------------------------------------------------
(* onSignal, for the next signal of a poll.                                 *)

Sig(p, k) == relay[p][polls[p][k].next]

\* Mutant: nothing looks whether the room was closed meanwhile.
HandlingMutant(p, k) ==
    /\ polls[p][k].stage = "run"
    /\ polls[p][k].next <= polls[p][k].upto
    /\ cursor' = [cursor EXCEPT ![p] = IF @ < polls[p][k].next THEN polls[p][k].next ELSE @]

Handling(p, k) ==
    /\ ~closed[p]
    /\ polls[p][k].stage = "run"
    /\ polls[p][k].next <= polls[p][k].upto
    /\ cursor' = [cursor EXCEPT ![p] = IF @ < polls[p][k].next THEN polls[p][k].next ELSE @]

\* The poll goes on at `stage`, with connection i in hand.
Proceed(p, k, stage, i) ==
    polls' = [polls EXCEPT ![p][k].stage = stage, ![p][k].next = @ + 1, ![p][k].pc = i]

\* Nobody vouches for the sender: signals outlive membership.
Stranger(p, k) ==
    /\ Handling(p, k)
    /\ slot[p] = NoSlot
    /\ Other(p) \notin polls[p][k].known
    /\ Proceed(p, k, "run", 0)
    /\ UNCHANGED <<closed, timer, slot, pcs, last, queue, roster, relay, faults>>

Known(p, k) == slot[p] # NoSlot \/ Other(p) \in polls[p][k].known

\* The slot of the sender, made anew when another poll has dropped it since
\* the roster was read.
Target(p) == IF slot[p] = NoSlot THEN last[p] + 1 ELSE slot[p].pc

Open(p) == IF slot[p] = NoSlot THEN With(pcs[p], Target(p), FALSE) ELSE pcs[p]

Welcome(p, open) ==
    /\ pcs' = [pcs EXCEPT ![p] = open]
    /\ IF slot[p] = NoSlot
       THEN /\ slot' = [slot EXCEPT ![p] = [NoSlot EXCEPT !.pc = Target(p)]]
            /\ last' = [last EXCEPT ![p] = Target(p)]
       ELSE UNCHANGED <<slot, last>>

IgnoreOffer(p, k) ==
    /\ slot[p] # NoSlot
    /\ ~Polite(p)
    /\ Sig(p, k).kind = "offer"
    /\ MakingOffer(p, slot[p].pc) \/ pcs[p][slot[p].pc].signaling # "stable"

Ignore(p, k) ==
    /\ Handling(p, k)
    /\ IgnoreOffer(p, k)
    /\ Proceed(p, k, "run", 0)
    /\ UNCHANGED <<closed, timer, slot, pcs, last, queue, roster, relay, faults>>

\* setRemoteDescription is called, and awaited.
Call(p, k) ==
    /\ Handling(p, k)
    /\ Known(p, k)
    /\ ~IgnoreOffer(p, k)
    /\ Welcome(p, [Open(p) EXCEPT ![Target(p)].chain = Append(@, k)])
    /\ Proceed(p, k, "remote", Target(p))
    /\ UNCHANGED <<closed, timer, queue, roster, relay, faults>>

\* The poll's operation is first in the chain of its connection, and settles.
Settles(p, k, stage) ==
    /\ ~closed[p]
    /\ polls[p][k].stage = stage
    /\ ~Hung(p, k)
    /\ Head(pcs[p][polls[p][k].pc].chain) = k

\* It has no connection in hand any more.
GoesOn(p, k, stage) == [polls EXCEPT ![p][k] = [@ EXCEPT !.stage = stage, !.pc = 0]]

InHand(p, k) == relay[p][polls[p][k].next - 1]

\* The description is taken, and of an offer setLocalDescription called.
Apply(p, k) ==
    /\ Settles(p, k, "remote")
    /\ LET i == polls[p][k].pc
           s == InHand(p, k)
           calls == IF s.kind = "offer" THEN <<k>> ELSE <<>>
       IN  /\ Fits(pcs[p][i], s.description)
           /\ pcs' = [pcs EXCEPT ![p][i] =
                  [Described(@, s.description) EXCEPT !.chain = Tail(@) \o calls]]
           /\ polls' = IF s.kind = "offer" THEN [polls EXCEPT ![p][k].stage = "answer"]
                                           ELSE GoesOn(p, k, "run")
    /\ UNCHANGED <<closed, timer, cursor, slot, last, queue, roster, relay, faults>>

\* A connection resumed from suspend may refuse an offer from another
\* connection of the other side than it has described.
Rejects(p, k) ==
    LET c == pcs[p][polls[p][k].pc]
        d == InHand(p, k).description
    IN  \/ ~Fits(c, d)
        \/ p \in Suspended /\ d.type = "offer" /\ c.remote.pc \notin {0, d.pc}

Rebuilds(p, k) == InHand(p, k).kind = "offer" /\ ~slot[p].recreated

Reject(p, k) ==
    /\ Settles(p, k, "remote")
    /\ Rejects(p, k)
    /\ ~Rebuilds(p, k)
    /\ pcs' = [pcs EXCEPT ![p][polls[p][k].pc].chain = Tail(@)]
    /\ polls' = GoesOn(p, k, "run")
    /\ UNCHANGED <<closed, timer, cursor, slot, last, queue, roster, relay, faults>>

\* connectTo, beside `others`, and setRemoteDescription of the same offer.
Rebuild(p, k, others) ==
    LET fresh == last[p] + 1
    IN  /\ last' = [last EXCEPT ![p] = fresh]
        /\ slot' = [slot EXCEPT ![p] = [@ EXCEPT !.pc = fresh, !.terminal = FALSE,
                                                !.recreated = TRUE]]
        /\ pcs' = [pcs EXCEPT ![p] =
               [With(others, fresh, FALSE) EXCEPT ![fresh].chain = <<k>>]]
        /\ polls' = [polls EXCEPT ![p][k].pc = fresh]

\* Mutant: the connection that rejected the offer is not closed.
RecreateMutant(p, k) ==
    /\ Settles(p, k, "remote")
    /\ Rejects(p, k)
    /\ Rebuilds(p, k)
    /\ Rebuild(p, k, pcs[p])
    /\ UNCHANGED <<closed, timer, cursor, queue, roster, relay, faults>>

\* The pair is rebuilt, once.
Recreate(p, k) ==
    /\ Settles(p, k, "remote")
    /\ Rejects(p, k)
    /\ Rebuilds(p, k)
    /\ Rebuild(p, k, Without(pcs[p], polls[p][k].pc))
    /\ UNCHANGED <<closed, timer, cursor, queue, roster, relay, faults>>

Enqueue(p, kind, description, k) ==
    queue' = [queue EXCEPT ![p] =
                 Append(@, [kind |-> kind, description |-> description, poll |-> k])]

\* setLocalDescription() settles, and localDescription is sent.  When another
\* poll has answered meanwhile, what is made and sent is an offer.
Reply(p, k) ==
    /\ Settles(p, k, "answer")
    /\ LET i == polls[p][k].pc
           c == [pcs[p][i] EXCEPT !.chain = Tail(@)]
           d == IF c.signaling = "have-remote-offer" THEN Answering(c, i)
                                                     ELSE Offering(c, i)
       IN  /\ pcs' = [pcs EXCEPT ![p][i] = d]
           /\ Enqueue(p, "answer", IF d.signaling = "stable" THEN d.local ELSE d.pending, k)
    /\ polls' = GoesOn(p, k, "post")
    /\ UNCHANGED <<closed, timer, cursor, slot, last, roster, relay, faults>>

-----------------------------------------------------------------------------
(* sendSignal: one post after the other.                                    *)

\* The head of the queue is done with; the poll that waited for it goes on.
Posted(p) ==
    LET k == Head(queue[p]).poll
    IN  /\ queue' = [queue EXCEPT ![p] = Tail(@)]
        /\ polls' = IF k \in Polls[p] /\ polls[p][k].stage = "post"
                    THEN [polls EXCEPT ![p][k].stage = "run"] ELSE polls

Delivered(p) ==
    LET s == Head(queue[p])
    IN  <<[kind |-> s.kind, description |-> s.description]>>

Post(p) ==
    /\ queue[p] # <<>>
    /\ Posted(p)
    /\ relay' = [relay EXCEPT ![Other(p)] = @ \o Delivered(p)]
    /\ UNCHANGED <<closed, timer, cursor, slot, pcs, last, roster, faults>>

\* The relay's answer is lost, and the signal posted again; or all attempts
\* fail, and it is given up.
PostAgain(p) ==
    /\ ~closed[p]
    /\ queue[p] # <<>>
    /\ Fault
    /\ Posted(p)
    /\ relay' = [relay EXCEPT ![Other(p)] = @ \o Delivered(p) \o Delivered(p)]
    /\ UNCHANGED <<closed, timer, cursor, slot, pcs, last, roster>>

GiveUp(p) ==
    /\ queue[p] # <<>>
    /\ IF closed[p] THEN UNCHANGED faults ELSE Fault
    /\ Posted(p)
    /\ UNCHANGED <<closed, timer, cursor, slot, pcs, last, roster, relay>>

-----------------------------------------------------------------------------
(* The connection's events, and recovery.                                   *)

Negotiate(p) ==
    /\ \E i \in DOMAIN pcs[p] :
        /\ pcs[p][i].need
        /\ pcs[p][i].signaling = "stable"
        /\ pcs[p][i].chain = <<>>
        /\ pcs' = [pcs EXCEPT ![p][i] = Offering(@, i)]
        /\ Enqueue(p, "offer", OfferOf(i, pcs[p][i].offers + 1), 0)
    /\ UNCHANGED <<closed, timer, polls, cursor, slot, last, roster, relay, faults>>

\* connectionstatechange: connected.
Up(p) ==
    /\ \E i \in DOMAIN pcs[p], j \in DOMAIN pcs[Other(p)] :
        /\ pcs[p][i].state # "connected"
        /\ ~pcs[p][i].need
        /\ Agreed(p, i, j)
        /\ pcs' = [pcs EXCEPT ![p][i] = [@ EXCEPT !.state = "connected", !.mate = j,
                                                     !.session = Session(p, i)]]
        /\ slot' = IF slot[p].pc = i
                   THEN [slot EXCEPT ![p] = [@ EXCEPT !.attempts = 0, !.terminal = FALSE]]
                   ELSE slot
    /\ UNCHANGED <<closed, timer, polls, cursor, last, queue, roster, relay, faults>>

\* The end it is connected to is closed, or has failed itself.
Deserted(p, i) ==
    LET c == pcs[p][i]
        others == pcs[Other(p)]
    IN  /\ c.state = "connected"
        /\ \/ c.mate \notin DOMAIN others
           \/ others[c.mate].state = "failed" /\ others[c.mate].session = c.session

\* connectionstatechange: failed, of a connection that was connected, or that
\* has both descriptions and finds no path.  restartIce() asks for a negotiation.
Down(p) ==
    /\ \E i \in DOMAIN pcs[p] :
        /\ pcs[p][i].state # "failed"
        /\ pcs[p][i].local # NoDescription
        /\ pcs[p][i].remote # NoDescription
        /\ IF Deserted(p, i) THEN UNCHANGED faults ELSE Fault
        /\ pcs' = [pcs EXCEPT ![p][i] = [@ EXCEPT !.state = "failed", !.need = TRUE]]
    /\ timer' = [timer EXCEPT ![p] = TRUE]
    /\ UNCHANGED <<closed, polls, cursor, slot, last, queue, roster, relay>>

\* Nothing is on its way any more between the two.
Quiet ==
    \A p \in Peer :
        /\ slot[p] # NoSlot
        /\ queue[p] = <<>>
        /\ cursor[p] = Len(relay[p])
        /\ \A k \in Polls[p] : Free(p, k) \/ polls[p][k].stage \in {"fetch", "reply", "run"}
        /\ ~ENABLED Negotiate(p)
        /\ ~ENABLED Up(p)

\* No progress for STALL_MS: the network is slow (a fault), or nothing comes.
Stalled(p) ==
    /\ ~closed[p]
    /\ slot[p] # NoSlot
    /\ ~slot[p].terminal
    /\ ~Connected(p)
    /\ IF Quiet THEN UNCHANGED faults ELSE Fault

\* Mutant: one attempt more is expected than Recover makes.
StallEndsMutant(p) ==
    /\ Stalled(p)
    /\ slot[p].attempts > MaxAttempts
    /\ slot' = [slot EXCEPT ![p].terminal = TRUE]
    /\ UNCHANGED <<closed, timer, polls, cursor, pcs, last, queue, roster, relay>>

StallEnds(p) ==
    /\ Stalled(p)
    /\ slot[p].attempts >= MaxAttempts
    /\ slot' = [slot EXCEPT ![p].terminal = TRUE]
    /\ UNCHANGED <<closed, timer, polls, cursor, pcs, last, queue, roster, relay>>

\* The dialer rebuilds the pair, the other one counts and waits.
Recover(p) ==
    /\ Stalled(p)
    /\ slot[p].attempts < MaxAttempts
    /\ IF Dialer(p)
       THEN /\ Connect(p, TRUE, slot[p].attempts + 1, FALSE, Without(pcs[p], slot[p].pc))
            /\ timer' = [timer EXCEPT ![p] = TRUE]
       ELSE /\ slot' = [slot EXCEPT ![p].attempts = @ + 1]
            /\ UNCHANGED <<pcs, last, timer>>
    /\ UNCHANGED <<closed, polls, cursor, queue, roster, relay>>

\* Of the signals to post, only the one under way may still arrive.
Close(p) ==
    /\ p \in Leavers
    /\ ~closed[p]
    /\ Fault
    /\ closed' = [closed EXCEPT ![p] = TRUE]
    /\ timer' = [timer EXCEPT ![p] = FALSE]
    /\ Drop(p)
    /\ queue' = [queue EXCEPT ![p] = IF @ = <<>> THEN @ ELSE <<Head(@)>>]
    /\ UNCHANGED <<polls, cursor, last, roster, relay>>

\* The leaver's call arrives, or the relay misses his polls.
Forget(p) ==
    /\ closed[p]
    /\ p \in roster
    /\ roster' = roster \ {p}
    /\ UNCHANGED <<closed, timer, polls, cursor, slot, pcs, last, queue, relay, faults>>

-----------------------------------------------------------------------------

PollStep(p, k) ==
    \/ Begin(p, k) \/ Serve(p, k) \/ Abandon(p, k) \/ Reconcile(p, k) \/ End(p, k)
    \/ Stranger(p, k) \/ Ignore(p, k) \/ Call(p, k)
    \/ Apply(p, k) \/ Reject(p, k) \/ Recreate(p, k) \/ Reply(p, k)

Event(p) == Negotiate(p) \/ Up(p) \/ (UNCHANGED faults /\ Down(p))

Watchdog(p) == StallEnds(p) \/ Recover(p)

Next ==
    \E p \in Peer :
        \/ \E k \in Polls[p] : PollStep(p, k) \/ Fail(p, k)
        \/ Post(p) \/ PostAgain(p) \/ GiveUp(p)
        \/ Negotiate(p) \/ Up(p) \/ Down(p)
        \/ Watchdog(p)
        \/ Close(p) \/ Forget(p)

Spec == Init /\ [][Next]_vars

\* Timers fire and calls are answered: the browser's event loop and the relay.
Fairness ==
    \A p \in Peer :
        /\ \A k \in Polls[p] : WF_vars(PollStep(p, k))
        /\ WF_vars(Post(p))
        /\ WF_vars(Event(p))
        /\ WF_vars(UNCHANGED faults /\ Watchdog(p))
        /\ WF_vars(Forget(p))

FairSpec == Spec /\ Fairness

-----------------------------------------------------------------------------

Left == \E p \in Peer : closed[p]

\* "After MAX_RECOVERY_ATTEMPTS the pair is terminal": whatever is lost,
\* doubled, late or done twice by overlapping polls, and whoever offers at the
\* same time, in the end each side is connected or has given the pair up, for
\* good; none is left trying or waiting for ever.
Decided == <>[](Left \/ \A p \in Peer : Connected(p) \/ slot[p].terminal)

\* A handler that was waiting when the room was closed opens nothing, and what
\* was open is closed: close() leaves no connection behind.
ClosedIsClosed == \A p \in Peer : closed[p] => pcs[p] = <<>>

\* "everyone's next poll drops this peer": for good, whatever polls and signals
\* of the leaver are still on their way.
LeaverDropped == <>[](\A p \in Peer : closed[p] => slot[Other(p)] = NoSlot)

\* "one RTCPeerConnection per remote peer": none is forgotten while it is open,
\* however overlapping polls, refused offers, recovery and the roster meet.
OneConnection == \A p \in Peer : Cardinality(DOMAIN pcs[p]) <= 1
=============================================================================
