----------------------------- MODULE LatticeNode -----------------------------
(***************************************************************************)
(* The nodes of a lattice and the exchange between them: startNode,        *)
(* exchange and receivePages of src/lib/lattice/node.ts, with the          *)
(* supervisor of src/lib/assurance/engine.ts as the owner's other process, *)
(* which puts submissions into the owner's journal behind its back.        *)
(*                                                                         *)
(* A node is one event loop.  A step of a node is what it does between two *)
(* awaits; work() runs without one, but each receipt is a transaction of   *)
(* its own, so a crash may fall between two of them.  /sync pulls a peer   *)
(* page by page under a ceiling fixed by the first page, pushes its whole  *)
(* journal one post at a time, verifies, and does both again.              *)
(*                                                                         *)
(* Abstracted: a submission's task, claim and evidence are one "task"      *)
(* event; all signers are honest (Replay deals with the others), so an     *)
(* event is ready when what it refers to is stored; an append is atomic    *)
(* and durable, which Journal shows.                                       *)
(***************************************************************************)
EXTENDS Integers, Sequences, FiniteSets

CONSTANTS
    Node,        \* the running nodes, each the one signer of its identity
    Owner,       \* the node whose identity the supervisor signs with
    Peers,       \* Peers[n]: the configured peers of n, in order
    Task,        \* workloads a caller may submit
    NoTask,      \* what a capability is about
    Verifiable,  \* <<n, t>>: n's domain and registry cover t, and it runs
    PageSize,    \* MAX_BATCH_EVENTS
    Capacity,    \* MAX_STORED_EVENTS
    MaxFaults    \* bound on crashes and spurious timeouts

Kinds == {"capability", "task", "verification_request", "verification"}

Event == [actor: Node, sequence: Nat \ {0}, kind: Kinds, task: Task \cup {NoTask}]

Row == [position: Nat \ {0}, event: Event]

ASSUME ConstantsAssumption ==
    /\ IsFiniteSet(Node)
    /\ Owner \in Node
    /\ Peers \in [Node -> Seq(Node)]
    /\ \A n \in Node : \A i \in 1..Len(Peers[n]) : Peers[n][i] # n
    /\ NoTask \notin Task
    /\ Verifiable \subseteq (Node \ {Owner}) \X Task
    /\ PageSize \in Nat \ {0}
    /\ Capacity \in Nat
    /\ MaxFaults \in Nat

VARIABLES
    journal,  \* per node: the committed rows; survives a crash
    handler,  \* per node: "down", or what its event loop is in the middle of
    sync,     \* per node: its /sync request
    wire,     \* posts that are on their way, or in the hands of the receiver
    faults,   \* crashes and spurious timeouts so far
    due       \* history: per peer of the running sync, what either side held

vars == <<journal, handler, sync, wire, faults, due>>

Handlers == {"down", "listen", "start", "post", "turn"}

Phases == {"idle", "ask", "page", "push", "posted", "work", "done"}

\* peer and turn say which exchange it is; cursor how far the pull (phases ask
\* and page) or the push has come; ceiling where it ends, -1 before the first
\* page; page is the page that has arrived.
Sync == [phase: Phases, peer: Nat \ {0}, turn: {1, 2}, cursor: Nat,
         ceiling: Nat \cup {-1}, page: SUBSET Row]

\* live: the sender still waits for the answer.
Post == [from: Node, to: Node, event: Event, live: BOOLEAN, taken: BOOLEAN]

NoSync == [phase |-> "idle", peer |-> 1, turn |-> 1, cursor |-> 0,
           ceiling |-> -1, page |-> {}]

Events(J) == {r.event : r \in J}

High(J) == Cardinality(J)   \* max(position): positions are dense

Peer(n) == Peers[n][sync[n].peer]

-----------------------------------------------------------------------------
(* The journal's operations, as Journal models them.                        *)

Unseen(J, R) == {r \in R : r.event \notin Events(J)}

Rank(r, R) == Cardinality({q \in R : q.position <= r.position})

\* J with the events of rows R, in their order, stored behind its own.
Appended(J, R) ==
    J \cup {[position |-> High(J) + Rank(r, Unseen(J, R)), event |-> r.event] :
                r \in Unseen(J, R)}

Fits(J, R) == Cardinality(J) + Cardinality(Unseen(J, R)) <= Capacity

\* A batch in the order of a sequence.
Batch(s) == {[position |-> i, event |-> s[i]] : i \in 1..Len(s)}

\* Mutants.  A definition named ...Mutant is a plausible bug of the definition
\* that follows it; PROJECT.json says which property refutes it.

SequencesOfMutant(n, J) ==  \* signers number each kind of event by itself
    {e.sequence : e \in {f \in Events(J) : f.actor = n /\ f.kind # "capability"}}

SequencesOf(n, J) == {e.sequence : e \in {f \in Events(J) : f.actor = n}}

NextSequence(n, J) ==
    CHOOSE k \in {1} \cup {i + 1 : i \in SequencesOf(n, J)} :
        \A i \in SequencesOf(n, J) : i < k

NextCursor(after, ceiling) ==
    IF after + PageSize < ceiling THEN after + PageSize ELSE ceiling

Slice(J, after, ceiling) ==
    {r \in J : after < r.position /\ r.position <= NextCursor(after, ceiling)}

Sign(n, J, kind, task) ==
    [actor |-> n, sequence |-> NextSequence(n, J), kind |-> kind, task |-> task]

-----------------------------------------------------------------------------
(* work(): which requests still want a receipt of this node.                *)

Has(J, kind, task) == \E e \in Events(J) : e.kind = kind /\ e.task = task

Answered(n, J, task) ==
    \E e \in Events(J) : e.actor = n /\ e.kind = "verification" /\ e.task = task

\* Rows of ready requests that n can reproduce and has not answered.
Owed(n, J) ==
    {r \in J : /\ r.event.kind = "verification_request"
               /\ Has(J, "task", r.event.task)
               /\ <<n, r.event.task>> \in Verifiable
               /\ ~Answered(n, J, r.event.task)}

Working(n) == handler[n] \in {"start", "post", "turn"}

\* One round of the loop of work(), in the order of the journal.
Verify(n) ==
    /\ Working(n)
    /\ High(journal[n]) < Capacity
    /\ \E r \in Owed(n, journal[n]) :
        /\ \A q \in Owed(n, journal[n]) : r.position <= q.position
        /\ journal' = [journal EXCEPT ![n] = Appended(@,
                Batch(<<Sign(n, @, "verification", r.event.task)>>))]
    /\ UNCHANGED <<handler, sync, wire, faults, due>>

\* work() is over: nothing is owed, or each append is refused and swallowed.
Worked(n) ==
    \/ Owed(n, journal[n]) = {}
    \/ High(journal[n]) >= Capacity

-----------------------------------------------------------------------------
(* The life of a node.                                                      *)

Init ==
    /\ journal = [n \in Node |-> {}]
    /\ handler = [n \in Node |-> "down"]
    /\ sync = [n \in Node |-> NoSync]
    /\ wire = {}
    /\ faults = 0
    /\ due = [n \in Node |-> <<>>]

Advertised(n, J) == \E e \in Events(J) : e.actor = n /\ e.kind = "capability"

Advertisement(n, J) ==
    IF Advertised(n, J) THEN {} ELSE Batch(<<Sign(n, J, "capability", NoTask)>>)

StartMutant(n) ==  \* a restarted node advertises itself again
    /\ handler[n] = "down"
    /\ LET ad == Batch(<<Sign(n, journal[n], "capability", NoTask)>>)
       IN  /\ Fits(journal[n], ad)
           /\ journal' = [journal EXCEPT ![n] = Appended(@, ad)]
    /\ handler' = [handler EXCEPT ![n] = "start"]
    /\ UNCHANGED <<sync, wire, faults, due>>

\* startNode, after a crash too: a full journal without a capability refuses.
Start(n) ==
    /\ handler[n] = "down"
    /\ Fits(journal[n], Advertisement(n, journal[n]))
    /\ journal' = [journal EXCEPT ![n] = Appended(@, Advertisement(n, @))]
    /\ handler' = [handler EXCEPT ![n] = "start"]
    /\ UNCHANGED <<sync, wire, faults, due>>

StartDone(n) ==
    /\ handler[n] = "start"
    /\ Worked(n)
    /\ handler' = [handler EXCEPT ![n] = "listen"]
    /\ UNCHANGED <<journal, sync, wire, faults, due>>

\* The posts of n that someone may still receive although n stopped waiting.
Orphaned(n, posts) ==
    {IF p.from = n THEN [p EXCEPT !.live = FALSE] ELSE p : p \in posts}

CrashMutant(n) ==  \* a receipt is acknowledged before it is durable
    /\ handler[n] # "down"
    /\ faults < MaxFaults
    /\ faults' = faults + 1
    /\ journal' = [journal EXCEPT ![n] =
                      {r \in @ : r.position < High(@) \/ handler[n] = "listen"}]
    /\ handler' = [handler EXCEPT ![n] = "down"]
    /\ sync' = [sync EXCEPT ![n] = NoSync]
    /\ wire' = Orphaned(n, {p \in wire : p.to # n})
    /\ due' = [due EXCEPT ![n] = <<>>]

\* The process dies, or is stopped.  Connections into it break.
Crash(n) ==
    /\ handler[n] # "down"
    /\ faults < MaxFaults
    /\ faults' = faults + 1
    /\ handler' = [handler EXCEPT ![n] = "down"]
    /\ sync' = [sync EXCEPT ![n] = NoSync]
    /\ wire' = Orphaned(n, {p \in wire : p.to # n})
    /\ due' = [due EXCEPT ![n] = <<>>]
    /\ UNCHANGED journal

Submission(t) ==
    LET task    == Sign(Owner, journal[Owner], "task", t)
        request == [Sign(Owner, journal[Owner], "verification_request", t)
                       EXCEPT !.sequence = @ + 1]
    IN  Batch(<<task, request>>)

SubmitMutant(t) ==  \* a persisted submission is not looked up
    /\ Advertised(Owner, journal[Owner])
    /\ Fits(journal[Owner], Submission(t))
    /\ journal' = [journal EXCEPT ![Owner] = Appended(@, Submission(t))]
    /\ UNCHANGED <<handler, sync, wire, faults, due>>

\* AssuranceEngine.run, in the supervisor's process, whether or not the
\* owner's node is up: one batch, unless the workload was submitted before.
Submit(t) ==
    /\ Advertised(Owner, journal[Owner])
    /\ ~Has(journal[Owner], "task", t)
    /\ Fits(journal[Owner], Submission(t))
    /\ journal' = [journal EXCEPT ![Owner] = Appended(@, Submission(t))]
    /\ UNCHANGED <<handler, sync, wire, faults, due>>

-----------------------------------------------------------------------------
(* POST /sync: an exchange, work(), an exchange, with each peer in turn.    *)

Resting(n) == sync[n].phase \in {"idle", "done"}

Both(n, m) == Events(journal[n]) \cup Events(journal[m])

\* A request while one runs is answered 409 and changes nothing.
SyncBegin(n) ==
    /\ handler[n] = "listen"
    /\ Resting(n)
    /\ Peers[n] # <<>>
    /\ sync' = [sync EXCEPT ![n] = [NoSync EXCEPT !.phase = "ask"]]
    /\ due' = [due EXCEPT ![n] = <<Both(n, Peers[n][1])>>]
    /\ UNCHANGED <<journal, handler, wire, faults>>

AskMutant(n) ==  \* pages come newest first
    /\ handler[n] = "listen"
    /\ sync[n].phase = "ask"
    /\ handler[Peer(n)] = "listen"
    /\ LET J == journal[Peer(n)]
           c == IF sync[n].ceiling = -1 THEN High(J) ELSE sync[n].ceiling
       IN  sync' = [sync EXCEPT ![n] = [@ EXCEPT !.phase = "page", !.ceiling = c,
                !.page = {[r EXCEPT !.position = High(J) + 1 - @] :
                            r \in Slice(J, sync[n].cursor, c)}]]
    /\ UNCHANGED <<journal, handler, wire, faults, due>>

\* GET /events: the peer reads a page; the first one fixes the ceiling.
Ask(n) ==
    /\ handler[n] = "listen"
    /\ sync[n].phase = "ask"
    /\ handler[Peer(n)] = "listen"
    /\ LET J == journal[Peer(n)]
           c == IF sync[n].ceiling = -1 THEN High(J) ELSE sync[n].ceiling
       IN  sync' = [sync EXCEPT ![n] = [@ EXCEPT !.phase = "page", !.ceiling = c,
                                          !.page = Slice(J, sync[n].cursor, c)]]
    /\ UNCHANGED <<journal, handler, wire, faults, due>>

TakeMutant(n) ==  \* hasMore is ignored
    /\ handler[n] = "listen"
    /\ sync[n].phase = "page"
    /\ Fits(journal[n], sync[n].page)
    /\ journal' = [journal EXCEPT ![n] = Appended(@, sync[n].page)]
    /\ sync' = [sync EXCEPT ![n] = [@ EXCEPT !.phase = "push", !.cursor = 0,
                    !.page = {}, !.ceiling = High(journal'[n])]]
    /\ UNCHANGED <<handler, wire, faults, due>>

\* A page is stored whole.  After the last one the push begins, over the
\* journal as it is now.
Take(n) ==
    /\ handler[n] = "listen"
    /\ sync[n].phase = "page"
    /\ Fits(journal[n], sync[n].page)
    /\ journal' = [journal EXCEPT ![n] = Appended(@, sync[n].page)]
    /\ LET cursor == NextCursor(sync[n].cursor, sync[n].ceiling)
       IN  sync' = [sync EXCEPT ![n] =
                IF cursor < @.ceiling
                THEN [@ EXCEPT !.phase = "ask", !.cursor = cursor, !.page = {}]
                ELSE [@ EXCEPT !.phase = "push", !.cursor = 0, !.page = {},
                               !.ceiling = High(journal'[n])]]
    /\ UNCHANGED <<handler, wire, faults, due>>

\* The next event goes out; the one before it has been answered.
Push(n) ==
    /\ handler[n] = "listen"
    /\ sync[n].phase = "push"
    /\ \E r \in journal[n] :
        /\ r.position = sync[n].cursor + 1
        /\ r.position <= sync[n].ceiling
        /\ wire' = wire \cup {[from |-> n, to |-> Peer(n), event |-> r.event,
                               live |-> TRUE, taken |-> FALSE]}
    /\ sync' = [sync EXCEPT ![n] = [@ EXCEPT !.phase = "posted",
                                          !.cursor = sync[n].cursor + 1]]
    /\ UNCHANGED <<journal, handler, faults, due>>

Pushed(n) ==
    /\ handler[n] = "listen"
    /\ sync[n].phase = "push"
    /\ sync[n].cursor >= sync[n].ceiling

\* The first exchange with a peer is over: work().
FirstTurnEnds(n) ==
    /\ Pushed(n)
    /\ sync[n].turn = 1
    /\ handler' = [handler EXCEPT ![n] = "turn"]
    /\ sync' = [sync EXCEPT ![n].phase = "work"]
    /\ UNCHANGED <<journal, wire, faults, due>>

TurnDone(n) ==
    /\ handler[n] = "turn"
    /\ Worked(n)
    /\ handler' = [handler EXCEPT ![n] = "listen"]
    /\ sync' = [sync EXCEPT ![n] = [NoSync EXCEPT !.phase = "ask", !.turn = 2,
                                                  !.peer = sync[n].peer]]
    /\ UNCHANGED <<journal, wire, faults, due>>

SecondTurnEndsMutant(n) ==  \* the second exchange is left out after all
    /\ \/ Pushed(n)
       \/ handler[n] = "listen" /\ sync[n].phase = "ask"
    /\ sync[n].turn = 2
    /\ IF sync[n].peer < Len(Peers[n])
       THEN /\ sync' = [sync EXCEPT ![n] = [NoSync EXCEPT !.phase = "ask",
                                                          !.peer = sync[n].peer + 1]]
            /\ due' = [due EXCEPT ![n] = Append(@, Both(n, Peers[n][sync[n].peer + 1]))]
       ELSE /\ sync' = [sync EXCEPT ![n] = [NoSync EXCEPT !.phase = "done",
                                                          !.peer = sync[n].peer]]
            /\ UNCHANGED due
    /\ UNCHANGED <<journal, handler, wire, faults>>

\* The second one is: on to the next peer, or the sync is answered 200.
SecondTurnEnds(n) ==
    /\ Pushed(n)
    /\ sync[n].turn = 2
    /\ IF sync[n].peer < Len(Peers[n])
       THEN /\ sync' = [sync EXCEPT ![n] = [NoSync EXCEPT !.phase = "ask",
                                                          !.peer = sync[n].peer + 1]]
            /\ due' = [due EXCEPT ![n] = Append(@, Both(n, Peers[n][sync[n].peer + 1]))]
       ELSE /\ sync' = [sync EXCEPT ![n] = [NoSync EXCEPT !.phase = "done",
                                                          !.peer = sync[n].peer]]
            /\ UNCHANGED due
    /\ UNCHANGED <<journal, handler, wire, faults>>

\* A sync fails as a whole: `syncing` is released, what is stored stays.
Failed(n) ==
    /\ sync' = [sync EXCEPT ![n] = NoSync]
    /\ due' = [due EXCEPT ![n] = <<>>]

\* "capacity exhausted" while a page is stored.
TakeRefused(n) ==
    /\ handler[n] = "listen"
    /\ sync[n].phase = "page"
    /\ ~Fits(journal[n], sync[n].page)
    /\ Failed(n)
    /\ UNCHANGED <<journal, handler, wire, faults>>

\* Nobody will answer: the peer is down, or went down with the post.
Unanswered(n) ==
    \/ sync[n].phase \in {"ask", "page", "push", "posted"} /\ handler[Peer(n)] = "down"
    \/ /\ sync[n].phase = "posted"
       /\ ~\E p \in wire : p.from = n /\ p.live

Timeout(n) ==
    /\ handler[n] = "listen"
    /\ sync[n].phase \in {"ask", "page", "push", "posted"}
    /\ \/ Unanswered(n) /\ UNCHANGED faults
       \/ ~Unanswered(n) /\ faults < MaxFaults /\ faults' = faults + 1
    /\ Failed(n)
    /\ wire' = Orphaned(n, wire)
    /\ UNCHANGED <<journal, handler>>

-----------------------------------------------------------------------------
(* POST /events at the receiving node.                                      *)

\* The sender of an answered post goes on, unless it has given up.
Resume(p) ==
    sync' = IF p.live THEN [sync EXCEPT ![p.from].phase = "push"] ELSE sync

\* append, then work().
Receive(p) ==
    /\ ~p.taken
    /\ handler[p.to] = "listen"
    /\ LET posted == Batch(<<p.event>>)
       IN  /\ Fits(journal[p.to], posted)
           /\ journal' = [journal EXCEPT ![p.to] = Appended(@, posted)]
    /\ handler' = [handler EXCEPT ![p.to] = "post"]
    /\ wire' = (wire \ {p}) \cup {[p EXCEPT !.taken = TRUE]}
    /\ UNCHANGED <<sync, faults, due>>

Answer(p) ==
    /\ p.taken
    /\ handler[p.to] = "post"
    /\ Worked(p.to)
    /\ handler' = [handler EXCEPT ![p.to] = "listen"]
    /\ wire' = wire \ {p}
    /\ Resume(p)
    /\ UNCHANGED <<journal, faults, due>>

\* "capacity exhausted", answered 429: the sender's sync fails.
Refuse(p) ==
    /\ ~p.taken
    /\ handler[p.to] = "listen"
    /\ ~Fits(journal[p.to], Batch(<<p.event>>))
    /\ wire' = wire \ {p}
    /\ IF p.live THEN Failed(p.from) ELSE UNCHANGED <<sync, due>>
    /\ UNCHANGED <<journal, handler, faults>>

-----------------------------------------------------------------------------

Exchange(n) ==
    \/ Ask(n) \/ Take(n) \/ TakeRefused(n) \/ Push(n)
    \/ FirstTurnEnds(n) \/ TurnDone(n) \/ SecondTurnEnds(n)

Serve(n) ==
    \/ Verify(n)
    \/ StartDone(n)
    \/ \E p \in wire : p.to = n /\ (Receive(p) \/ Answer(p) \/ Refuse(p))

Next ==
    \/ \E n \in Node :
        \/ Start(n) \/ Crash(n)
        \/ SyncBegin(n) \/ Exchange(n) \/ Timeout(n)
        \/ Serve(n)
    \/ \E t \in Task : Submit(t)

Spec == Init /\ [][Next]_vars

\* The event loops run on, and a call that nobody answers times out.
EventLoops ==
    \A n \in Node :
        /\ WF_vars(Exchange(n))
        /\ WF_vars(Serve(n))
        /\ WF_vars(Timeout(n) /\ Unanswered(n))

\* Someone restarts what is down and keeps asking for a sync.
Operator == \A n \in Node : WF_vars(Start(n)) /\ WF_vars(SyncBegin(n))

FairSpec == Spec /\ EventLoops

OperatedSpec == FairSpec /\ Operator

-----------------------------------------------------------------------------

TypeOK ==
    /\ journal \in [Node -> SUBSET Row]
    /\ handler \in [Node -> Handlers]
    /\ sync \in [Node -> Sync]
    /\ wire \subseteq Post
    /\ faults \in 0..MaxFaults
    /\ due \in [Node -> Seq(SUBSET Event)]

Everything == UNION {Events(journal[n]) : n \in Node}

\* Across all journals no identity fills a slot twice, although it signs from
\* two processes (owner) or again after a crash (workers), and numbers its
\* events from its own journal alone.
NoEquivocation ==
    \A e, f \in Everything :
        e.actor = f.actor /\ e.sequence = f.sequence => e = f

\* A crash in the middle of work(), a repeated submission, a restart or a
\* second sync never make an actor say a thing twice: one capability, one
\* submission per workload, one receipt per request.
SaidOnce ==
    \A e, f \in Everything :
        e.actor = f.actor /\ e.kind = f.kind /\ e.task = f.task => e = f

Before(kind) ==
    CASE kind = "verification_request" -> {"task"}
      [] kind = "verification" -> {"task", "verification_request"}
      [] OTHER -> {}

\* Although append takes events in any order, what nodes exchange is stored
\* after what it refers to, in every journal and at every moment: no abort,
\* late post or page boundary leaves an event waiting for its parents.
CausalOrder ==
    \A n \in Node : \A r \in journal[n] : \A kind \in Before(r.event.kind) :
        \E q \in journal[n] :
            /\ q.position < r.position
            /\ q.event.kind = kind
            /\ q.event.task = r.event.task

\* What a sync that was answered 200 has achieved (an exchange of it, as soon
\* as it has moved to the next peer): all that either side held when it began
\* is on both sides, and so is this node's receipt for each request among it.
Concluded(n) ==
    {i \in 1..Len(due[n]) : i < sync[n].peer \/ sync[n].phase = "done"}

SyncKeepsPromise ==
    \A n \in Node : \A i \in Concluded(n) :
        LET here  == journal[n]
            there == journal[Peers[n][i]]
        IN  /\ due[n][i] \subseteq Events(here) \cap Events(there)
            /\ High(here) < Capacity =>
                \A e \in due[n][i] :
                    e.kind = "verification_request" /\ <<n, e.task>> \in Verifiable
                        => Answered(n, here, e.task) /\ Answered(n, there, e.task)

\* Nodes are restarted when down and asked again to sync.  Then each submitted
\* workload gets, at the owner, the receipt of each node able to verify it,
\* however its earlier attempts were torn; unless some journal is full.
ReceiptsArrive ==
    \A t \in Task : \A n \in Node :
        Has(journal[Owner], "verification_request", t) /\ <<n, t>> \in Verifiable
            ~> \/ Answered(n, journal[Owner], t)
               \/ \E m \in Node : High(journal[m]) = Capacity

-----------------------------------------------------------------------------
(* The inductive invariant behind NoEquivocation, SaidOnce and the           *)
(* refinement below.                                                         *)

Finite == \A n \in Node : IsFiniteSet(journal[n]) /\ IsFiniteSet(sync[n].page)

\* Who exchanges, or has exchanged, has a peer to do so with.
PeersConfigured ==
    /\ \A n \in Node :
        /\ Peers[n] # <<>> => sync[n].peer \in 1..Len(Peers[n])
        /\ sync[n].phase # "idle" \/ handler[n] = "turn" => Peers[n] # <<>>
    /\ \A p \in wire : Peers[p.from] # <<>>

\* What is on its way is stored somewhere.
InHandStored ==
    /\ \A n \in Node : Events(sync[n].page) \subseteq Everything
    /\ \A p \in wire : p.event \in Everything

\* A signer has all it ever signed, after a crash too: its own journal tells
\* it which numbers are taken and what it has said.
SignersRemember == \A e \in Everything : e \in Events(journal[e.actor])

\* A request is signed together with its task.
TasksFirst ==
    \A n \in Node : \A e \in Events(journal[n]) :
        e.actor = n /\ e.kind = "verification_request" => Has(journal[n], "task", e.task)

IInv ==
    /\ TypeOK
    /\ Finite
    /\ PeersConfigured
    /\ InHandStored
    /\ SignersRemember
    /\ TasksFirst
    /\ NoEquivocation
    /\ SaidOnce

-----------------------------------------------------------------------------

\* The nodes implement growing sets of events that spread from their signers.
Abstract == INSTANCE EventSet WITH held <- [n \in Node |-> Events(journal[n])]

SpreadsFromSigners == Abstract!Spec
=============================================================================
