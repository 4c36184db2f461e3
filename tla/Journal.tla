------------------------------- MODULE Journal -------------------------------
(***************************************************************************)
(* The durable event journal of one lattice node: EventJournal of          *)
(* src/lib/lattice/journal.ts over one SQLite database in WAL mode, opened *)
(* by several operating-system processes at once.                          *)
(*                                                                         *)
(* A process is synchronous code, so only other processes interleave with  *)
(* it, and what they can observe is what is committed.  An append is one   *)
(* BEGIN IMMEDIATE transaction worked off event by event on a private      *)
(* copy; the sequence number a signer uses is read in a statement of its   *)
(* own, BEFORE that transaction.  A process may die between any two steps. *)
(*                                                                         *)
(* External: SQLite's isolation (one writer, readers see commits, a dead   *)
(* writer is rolled back) and AUTOINCREMENT (the counter is part of the    *)
(* transaction, so it rolls back with it).                                 *)
(***************************************************************************)
EXTENDS Integers, Sequences, FiniteSets

CONSTANTS
    Process,      \* the processes that open this journal
    Actor,        \* the identities of the lattice
    SignerOf,     \* SignerOf[p]: the identity p signs with
    Policy,       \* membership policies a process may be configured with
    PolicyOf,     \* PolicyOf[p]: the policy p is configured with
    NoPolicy,     \* what metadata holds before the first opening
    Body,         \* what a signer may put in an event
    Signature,    \* encodings of a valid signature
    Deterministic,\* the one node:crypto's sign returns
    Foreign,      \* valid events of other actors, as peers post them
    SignSizes,    \* lengths of the batches a process signs
    ForeignSizes, \* lengths of the pages and posts a process receives
    Capacity,     \* MAX_STORED_EVENTS
    BatchLimit    \* MAX_BATCH_EVENTS

Event == [actor: Actor, sequence: Nat \ {0}, policy: Policy,
          body: Body, signature: Signature]

Signers == {SignerOf[p] : p \in Process}

ASSUME ConstantsAssumption ==
    /\ SignerOf \in [Process -> Actor]
    /\ PolicyOf \in [Process -> Policy]
    /\ NoPolicy \notin Policy
    /\ Deterministic \in Signature
    /\ Foreign \subseteq Event
    /\ \A e \in Foreign : e.actor \notin Signers
    /\ SignSizes \subseteq Nat \ {0}
    /\ ForeignSizes \subseteq Nat \ {0}
    /\ Capacity \in Nat \ {0}
    /\ BatchLimit \in Nat \ {0}

\* The identifier is the digest of everything but the signature.
Id(e) == <<e.actor, e.sequence, e.policy, e.body>>

Row == [position: Nat \ {0}, event: Event]

\* Table `events` with its AUTOINCREMENT counter (sqlite_sequence).
Table == [rows: SUBSET Row, autoincrement: Nat]

VARIABLES
    table,   \* the committed table
    pinned,  \* metadata.policy
    writer,  \* the processes inside a write transaction
    pc,      \* per process: "closed", "idle" or "append"
    next,    \* per process: the sequence number read for signing, or 0
    batch,   \* per process: the batch being appended
    done,    \* per process: how many events of the batch are worked off
    txn      \* per process: the table as its transaction sees it

vars == <<table, pinned, writer, pc, next, batch, done, txn>>

EmptyTable == [rows |-> {}, autoincrement |-> 0]

Events(t) == {r.event : r \in t.rows}

\* Every position from 1 on is used, once: the check of allEvents.
Dense(t) ==
    /\ {r.position : r \in t.rows} = 1..Cardinality(t.rows)
    /\ \A r, s \in t.rows : r.position = s.position => r = s

Readable(t) == Cardinality(t.rows) <= Capacity /\ Dense(t)

SequencesOf(a, t) == {e.sequence : e \in {f \in Events(t) : f.actor = a}}

\* Mutants.  A definition named ...Mutant is a plausible bug of the definition
\* that follows it; PROJECT.json says which property refutes it.

\* nextSequence: one more than the largest committed sequence of the actor.
NextSequence(a, t) ==
    CHOOSE n \in {1} \cup {m + 1 : m \in SequencesOf(a, t)} :
        \A m \in SequencesOf(a, t) : m < n

\* What createEvent and createSubmission make of consecutive sequence numbers.
Signed(p, bodies) ==
    [i \in 1..Len(bodies) |->
        [actor |-> SignerOf[p], sequence |-> next[p] + i - 1,
         policy |-> PolicyOf[p], body |-> bodies[i],
         signature |-> Deterministic]]

\* What validateEvent leaves of a candidate: the policy must be this one's.
Valid(p, e) == e.policy = PolicyOf[p]

-----------------------------------------------------------------------------

Init ==
    /\ table = EmptyTable
    /\ pinned = NoPolicy
    /\ writer = {}
    /\ pc = [p \in Process |-> "closed"]
    /\ next = [p \in Process |-> 0]
    /\ batch = [p \in Process |-> <<>>]
    /\ done = [p \in Process |-> 0]
    /\ txn = [p \in Process |-> EmptyTable]

\* The constructor: a journal bound to another policy refuses to open.
Open(p) ==
    /\ pc[p] = "closed"
    /\ writer = {}
    /\ pinned \in {NoPolicy, PolicyOf[p]}
    /\ Readable(table)
    /\ pinned' = PolicyOf[p]
    /\ pc' = [pc EXCEPT ![p] = "idle"]
    /\ UNCHANGED <<table, writer, next, batch, done, txn>>

ReadSequence(p) ==
    /\ pc[p] = "idle"
    /\ next' = [next EXCEPT ![p] = NextSequence(SignerOf[p], table)]
    /\ UNCHANGED <<table, pinned, writer, pc, batch, done, txn>>

BeginCachedMutant(p, events) ==  \* the number read is used again later
    /\ pc[p] = "idle"
    /\ writer = {}
    /\ Len(events) <= BatchLimit
    /\ \A i \in 1..Len(events) : Valid(p, events[i])
    /\ writer' = {p}
    /\ pc' = [pc EXCEPT ![p] = "append"]
    /\ batch' = [batch EXCEPT ![p] = events]
    /\ done' = [done EXCEPT ![p] = 0]
    /\ txn' = [txn EXCEPT ![p] = table]
    /\ UNCHANGED <<table, pinned, next>>

\* append: batch limit and validation first, then BEGIN IMMEDIATE.
Begin(p, events) ==
    /\ pc[p] = "idle"
    /\ writer = {}
    /\ Len(events) <= BatchLimit
    /\ \A i \in 1..Len(events) : Valid(p, events[i])
    /\ writer' = {p}
    /\ pc' = [pc EXCEPT ![p] = "append"]
    /\ next' = [next EXCEPT ![p] = 0]
    /\ batch' = [batch EXCEPT ![p] = events]
    /\ done' = [done EXCEPT ![p] = 0]
    /\ txn' = [txn EXCEPT ![p] = table]
    /\ UNCHANGED <<table, pinned>>

AppendSigned(p) ==
    /\ next[p] # 0
    /\ \E k \in SignSizes : \E bodies \in [1..k -> Body] :
            Begin(p, Signed(p, bodies))

\* A page pulled from a peer, or a post: the events of others, or what the
\* journal already holds (its own events come back this way too).
AppendReceived(p) ==
    \E k \in ForeignSizes : \E events \in [1..k -> Foreign \cup Events(table)] :
        Begin(p, events)

\* BEGIN IMMEDIATE outlasts busy_timeout: append throws, the batch is dropped.
Busy(p) ==
    /\ pc[p] = "idle"
    /\ next[p] # 0
    /\ writer # {}
    /\ next' = [next EXCEPT ![p] = 0]
    /\ UNCHANGED <<table, pinned, writer, pc, batch, done, txn>>

Current(p) == batch[p][done[p] + 1]

Working(p) == pc[p] = "append" /\ done[p] < Len(batch[p])

SameId(p) == {r \in txn[p].rows : Id(r.event) = Id(Current(p))}

Duplicate(p) ==
    /\ Working(p)
    /\ SameId(p) # {}
    /\ \A r \in SameId(p) : r.event = Current(p)
    /\ done' = [done EXCEPT ![p] = @ + 1]
    /\ UNCHANGED <<table, pinned, writer, pc, next, batch, txn>>

Insert(p) ==
    /\ Working(p)
    /\ SameId(p) = {}
    /\ Cardinality(txn[p].rows) < Capacity
    /\ LET n == txn[p].autoincrement + 1
       IN  txn' = [txn EXCEPT ![p] =
                     [rows |-> @.rows \cup {[position |-> n, event |-> Current(p)]},
                      autoincrement |-> n]]
    /\ done' = [done EXCEPT ![p] = @ + 1]
    /\ UNCHANGED <<table, pinned, writer, pc, next, batch>>

\* Leaving the transaction, whatever became of it.
Leave(p, where) ==
    /\ writer' = writer \ {p}
    /\ pc' = [pc EXCEPT ![p] = where]
    /\ batch' = [batch EXCEPT ![p] = <<>>]
    /\ done' = [done EXCEPT ![p] = 0]
    /\ txn' = [txn EXCEPT ![p] = EmptyTable]

\* "event ID collision": same identifier, other bytes.  The batch is undone.
Collision(p) ==
    /\ Working(p)
    /\ \E r \in SameId(p) : r.event # Current(p)
    /\ Leave(p, "idle")
    /\ UNCHANGED <<table, pinned, next>>

ExhaustedMutant(p) ==  \* what fitted is committed
    /\ Working(p)
    /\ SameId(p) = {}
    /\ Cardinality(txn[p].rows) >= Capacity
    /\ table' = txn[p]
    /\ Leave(p, "idle")
    /\ UNCHANGED <<pinned, next>>

\* "capacity exhausted".  The batch is undone, its first events too.
Exhausted(p) ==
    /\ Working(p)
    /\ SameId(p) = {}
    /\ Cardinality(txn[p].rows) >= Capacity
    /\ Leave(p, "idle")
    /\ UNCHANGED <<table, pinned, next>>

Commit(p) ==
    /\ pc[p] = "append"
    /\ done[p] = Len(batch[p])
    /\ table' = txn[p]
    /\ Leave(p, "idle")
    /\ UNCHANGED <<pinned, next>>

\* close(), or the process dies: SQLite rolls an open transaction back.
Stop(p) ==
    /\ pc[p] # "closed"
    /\ Leave(p, "closed")
    /\ next' = [next EXCEPT ![p] = 0]
    /\ UNCHANGED <<table, pinned>>

Step(p) ==
    \/ Duplicate(p)
    \/ Insert(p)
    \/ Collision(p)
    \/ Exhausted(p)
    \/ Commit(p)

Next ==
    \E p \in Process :
        \/ Open(p)
        \/ ReadSequence(p)
        \/ AppendSigned(p)
        \/ AppendReceived(p)
        \/ Busy(p)
        \/ Step(p)
        \/ Stop(p)

Spec == Init /\ [][Next]_vars

-----------------------------------------------------------------------------

TypeOK ==
    /\ table \in Table
    /\ pinned \in Policy \cup {NoPolicy}
    /\ writer \in SUBSET Process
    /\ pc \in [Process -> {"closed", "idle", "append"}]
    /\ next \in [Process -> Nat]
    /\ batch \in [Process -> Seq(Event)]
    /\ done \in [Process -> Nat]
    /\ txn \in [Process -> Table]

\* The journal can always be opened and read again: no interleaving of
\* appends, rollbacks and crashes leaves a gap in the positions or more rows
\* than the capacity ("journal cursor corruption", "capacity exceeded").
AlwaysReadable == Readable(table)

\* An identifier is stored once: no later event replaces or shadows one.
UniqueIds ==
    \A r, s \in table.rows : Id(r.event) = Id(s.event) => r = s

\* A journal holds events of the policy it is pinned to, whatever the other
\* processes that tried to open it were configured with.
PolicyPinned ==
    \A e \in Events(table) : e.policy = pinned

\* One signing process per actor never signs two events into one slot, even
\* though it reads the number before its transaction and may crash, be
\* refused, or get its own events back from peers in between.
NoSelfEquivocation ==
    \A e, f \in Events(table) :
        (e.actor = f.actor /\ e.sequence = f.sequence /\ e.actor \in Signers)
            => e = f

\* What is committed is never lost, moved or changed, by a rollback neither.
AppendOnly ==
    [][ /\ table.rows \subseteq table'.rows
        /\ \A r \in table'.rows \ table.rows : \A s \in table.rows :
                r.position > s.position ]_vars

\* A batch is stored whole or not at all: a submission of task, claim,
\* evidence and request never becomes visible in part.
BatchAtomic ==
    [][ Events(table') # Events(table) =>
          \E p \in Process :
              /\ pc[p] = "append"
              /\ Events(table') = Events(table) \cup
                    {batch[p][i] : i \in 1..Len(batch[p])} ]_vars

-----------------------------------------------------------------------------
(***************************************************************************)
(* The inductive invariant behind the invariants above.                    *)
(***************************************************************************)

\* A table that SQLite and append keep in order: committed, or in the making.
Sound(t) ==
    /\ IsFiniteSet(t.rows)
    /\ t.autoincrement = Cardinality(t.rows)
    /\ t.autoincrement <= Capacity
    /\ {r.position : r \in t.rows} = 1..t.autoincrement
    /\ \A r, s \in t.rows : r.position = s.position => r = s
    /\ \A r, s \in t.rows : Id(r.event) = Id(s.event) => r = s
    /\ \A e \in Events(t) : e.policy = pinned

OneWriter ==
    /\ \A p, q \in writer : p = q
    /\ \A p \in Process : pc[p] = "append" <=> p \in writer

OpenPolicy ==
    /\ \A p \in Process : pc[p] # "closed" => pinned = PolicyOf[p]
    /\ pinned = NoPolicy => table = EmptyTable

FirstOf(b, n) == {b[i] : i \in 1..n}

BatchSet(p) == FirstOf(batch[p], Len(batch[p]))

\* What a transaction sees: the committed table and the part worked off.
InProgress ==
    \A p \in writer :
        /\ Sound(txn[p])
        /\ table.rows \subseteq txn[p].rows
        /\ \A r \in txn[p].rows \ table.rows : r.position > table.autoincrement
        /\ done[p] <= Len(batch[p])
        /\ Events(txn[p]) = Events(table) \cup FirstOf(batch[p], done[p])
        /\ \A e \in BatchSet(p) : e.policy = PolicyOf[p]

SameSlot(e, f) == e.actor = f.actor /\ e.sequence = f.sequence

\* One signing process per actor, as docs/INTELLIGENCE_LATTICE_EVENT_CORE.md
\* asks of whoever runs the nodes; no code in this module enforces it.
OneSigner == \A p, q \in Process : SignerOf[p] = SignerOf[q] => p = q

\* A number read for signing is still beyond every committed one.
FreshSequence ==
    \A p \in Process :
        next[p] # 0 =>
            /\ pc[p] = "idle"
            /\ \A e \in Events(table) :
                    e.actor = SignerOf[p] => e.sequence < next[p]

\* A batch takes no slot twice, and signs for nobody else.
BatchSlots ==
    \A p \in writer :
        /\ \A e, f \in Events(table) \cup BatchSet(p) :
                SameSlot(e, f) /\ e.actor \in Signers => e = f
        /\ \A e \in BatchSet(p) :
                \/ e \in Events(table)
                \/ e.actor \notin Signers
                \/ e.actor = SignerOf[p]

IInv ==
    /\ TypeOK
    /\ Sound(table)
    /\ OneWriter
    /\ OpenPolicy
    /\ InProgress

SlotInv == FreshSequence /\ BatchSlots /\ NoSelfEquivocation
=============================================================================
