---------------------------- MODULE JournalProofs ----------------------------
(* Proofs about Journal, for any number of processes, actors, bodies,       *)
(* foreign events and any capacity.                                         *)
EXTENDS Journal, FiniteNumbers, TLAPS

-----------------------------------------------------------------------------
(* nextSequence.                                                            *)

\* A finite table holds finitely many sequence numbers of an actor.
LEMMA SequencesFinite ==
    ASSUME NEW t \in Table, IsFiniteSet(t.rows), NEW a
    PROVE  IsFiniteSet(SequencesOf(a, t)) /\ SequencesOf(a, t) \subseteq Nat \ {0}
<1> DEFINE D == {r \in t.rows : r.event.actor = a}
           f == [r \in D |-> r.event.sequence]
<1>1. IsFiniteSet(D)
  BY FS_Subset
<1>2. \A r \in t.rows : r.event.sequence \in Nat \ {0}
  BY DEF Table, Row, Event
<1>3. f \in Surjection(D, SequencesOf(a, t))
  BY DEF Surjection, SequencesOf, Events
<1>4. IsFiniteSet(SequencesOf(a, t))
  BY <1>1, <1>3, FS_Surjection
<1> QED
  BY <1>2, <1>4 DEF SequencesOf, Events

\* nextSequence answers a number beyond every committed one of the actor.
LEMMA NextSequenceFresh ==
    ASSUME NEW t \in Table, IsFiniteSet(t.rows), NEW a
    PROVE  /\ NextSequence(a, t) \in Nat \ {0}
           /\ \A e \in Events(t) : e.actor = a => e.sequence < NextSequence(a, t)
<1> DEFINE S == SequencesOf(a, t)
           C == {1} \cup {m + 1 : m \in S}
<1>1. IsFiniteSet(S) /\ S \subseteq Nat \ {0}
  BY SequencesFinite
<1>2. \E n \in C : \A m \in S : m < n
  BY <1>1, NextNumberExists
<1>3. NextSequence(a, t) \in C /\ \A m \in S : m < NextSequence(a, t)
  BY <1>2 DEF NextSequence
<1> QED
  BY <1>1, <1>3 DEF SequencesOf
-----------------------------------------------------------------------------
(* What the parts of append keep.                                           *)

\* Inserting an event of a new identifier keeps a table sound.
LEMMA SoundInsert ==
    ASSUME NEW t \in Table, Sound(t), NEW e \in Event, e.policy = pinned,
           \A r \in t.rows : Id(r.event) # Id(e),
           Cardinality(t.rows) < Capacity,
           NEW n, n = t.autoincrement + 1,
           NEW u, u = [rows |-> t.rows \cup {[position |-> n, event |-> e]},
                       autoincrement |-> n]
    PROVE  /\ u \in Table
           /\ Sound(u)
           /\ Events(u) = Events(t) \cup {e}
           /\ \A r \in u.rows \ t.rows : r.position = n
<1> DEFINE row == [position |-> n, event |-> e]
<1>1. /\ n \in Nat \ {0}
      /\ row \in Row
      /\ t.rows \subseteq Row
      /\ u.rows = t.rows \cup {row}
      /\ u.autoincrement = n
  BY DEF Table, Row
<1>2. u \in Table
  BY <1>1 DEF Table
<1>3. row \notin t.rows
  BY <1>1
<1>4. IsFiniteSet(u.rows) /\ Cardinality(u.rows) = n
  BY <1>1, <1>3, FS_AddElement DEF Sound
<1>5. {r.position : r \in u.rows} = 1..n
  <2>1. {r.position : r \in u.rows} = {r.position : r \in t.rows} \cup {n}
    BY <1>1
  <2>2. 1..n = 1..(n - 1) \cup {n} /\ t.autoincrement = n - 1
    BY <1>1 DEF Table
  <2> QED
    BY <2>1, <2>2 DEF Sound
<1>6. \A r \in t.rows : r.position < n
  BY <1>1 DEF Sound, Table
<1>7. Events(u) = Events(t) \cup {e}
  BY <1>1 DEF Events
<1>8. \A r, s \in u.rows : r.position = s.position => r = s
  BY <1>1, <1>6 DEF Sound, Row
<1>9. \A r, s \in u.rows : Id(r.event) = Id(s.event) => r = s
  BY <1>1 DEF Sound
<1>10. n <= Capacity
  BY <1>1, ConstantsAssumption DEF Sound, Table
<1>11. \A f \in Events(u) : f.policy = pinned
  BY <1>7 DEF Sound
<1>12. Sound(u)
  BY <1>1, <1>4, <1>5, <1>8, <1>9, <1>10, <1>11, Zenon DEF Sound
<1>13. \A r \in u.rows \ t.rows : r.position = n
  BY <1>1
<1> QED
  BY <1>2, <1>7, <1>12, <1>13, Zenon

\* What a process signs is well typed, under its policy and its name.
LEMMA SignedType ==
    ASSUME TypeOK, NEW p \in Process, next[p] # 0,
           NEW k \in Nat \ {0}, NEW bodies \in [1..k -> Body]
    PROVE  /\ Signed(p, bodies) \in Seq(Event)
           /\ Len(Signed(p, bodies)) = k
           /\ \A i \in 1..k :
                /\ Signed(p, bodies)[i].actor = SignerOf[p]
                /\ Signed(p, bodies)[i].sequence = next[p] + i - 1
                /\ Signed(p, bodies)[i].policy = PolicyOf[p]
<1>1. bodies \in Seq(Body) /\ Len(bodies) = k
  OBVIOUS
<1>2. \A i \in 1..k : next[p] + i - 1 \in Nat \ {0}
  BY DEF TypeOK
<1>3. \A i \in 1..k : Signed(p, bodies)[i] \in Event
  BY <1>1, <1>2, ConstantsAssumption DEF Signed, Event
<1>4. Signed(p, bodies) \in [1..k -> Event]
  BY <1>1, <1>3 DEF Signed
<1> QED
  BY <1>1, <1>4 DEF Signed

\* Every batch that begins is signed or received.
LEMMA BeginCases ==
    ASSUME TypeOK, NEW p \in Process,
           AppendSigned(p) \/ AppendReceived(p)
    PROVE  \E events \in Seq(Event) : Begin(p, events)
<1>1. CASE AppendSigned(p)
  <2>0. PICK k \in SignSizes :
            \E bodies \in [1..k -> Body] : Begin(p, Signed(p, bodies))
    BY <1>1 DEF AppendSigned
  <2>1. PICK bodies \in [1..k -> Body] : Begin(p, Signed(p, bodies))
    BY <2>0
  <2>2. Signed(p, bodies) \in Seq(Event)
    BY <1>1, <2>0, <2>1, SignedType, ConstantsAssumption DEF AppendSigned
  <2> QED
    BY <2>1, <2>2
<1>2. CASE AppendReceived(p)
  <2>0. PICK k \in ForeignSizes :
            \E events \in [1..k -> Foreign \cup Events(table)] : Begin(p, events)
    BY <1>2 DEF AppendReceived
  <2>1. PICK events \in [1..k -> Foreign \cup Events(table)] : Begin(p, events)
    BY <2>0
  <2>2. Foreign \cup Events(table) \subseteq Event
    BY ConstantsAssumption DEF TypeOK, Table, Row, Events
  <2>3. events \in Seq(Event)
    BY <2>0, <2>1, <2>2, ConstantsAssumption
  <2> QED
    BY <2>1, <2>3
<1> QED
  BY <1>1, <1>2
-----------------------------------------------------------------------------
(* The inductive invariant.                                                 *)

LEMMA EmptyTableType == EmptyTable \in Table
BY DEF EmptyTable, Table

LEMMA InitIInv == Init => IInv
<1> SUFFICES ASSUME Init
             PROVE  IInv
  OBVIOUS
<1>1. Sound(EmptyTable)
  BY FS_EmptySet, ConstantsAssumption DEF Sound, EmptyTable, Events
<1>3. TypeOK
  BY EmptyTableType DEF Init, TypeOK
<1> QED
  BY <1>1, <1>3 DEF Init, IInv, OneWriter, OpenPolicy, InProgress

\* Leaving a transaction without committing it keeps the invariant.
LEMMA LeaveKeeps ==
    ASSUME IInv, NEW p \in Process, NEW where \in {"idle", "closed"},
           Leave(p, where), UNCHANGED <<table, pinned>>, pc[p] # "closed",
           next' \in [Process -> Nat]
    PROVE  IInv'
<1> USE DEF IInv, Leave
<1>1. TypeOK'
  <2>1. writer' \in SUBSET Process /\ table' \in Table
    BY DEF TypeOK
  <2>2. pc' \in [Process -> {"closed", "idle", "append"}]
    BY DEF TypeOK
  <2>3. batch' \in [Process -> Seq(Event)] /\ done' \in [Process -> Nat]
    BY DEF TypeOK
  <2>4. txn' \in [Process -> Table]
    BY EmptyTableType DEF TypeOK
  <2> QED
    BY <2>1, <2>2, <2>3, <2>4 DEF TypeOK
<1>2. Sound(table)'
  BY DEF Sound, Events
<1>3. OneWriter'
  BY DEF OneWriter, TypeOK
<1>4. OpenPolicy'
  BY DEF OpenPolicy, TypeOK
<1>5. InProgress'
  <2> SUFFICES ASSUME NEW q \in writer'
               PROVE  InProgress!(q)'
    BY DEF InProgress
  <2>1. q \in writer /\ q # p /\ q \in Process
    BY DEF TypeOK
  <2>2. txn'[q] = txn[q] /\ batch'[q] = batch[q] /\ done'[q] = done[q]
    BY <2>1 DEF TypeOK
  <2>3. Sound(txn[q])'
    BY <2>1, <2>2 DEF InProgress, Sound, Events
  <2>4. Events(txn[q])' = Events(table)' \cup FirstOf(batch'[q], done'[q])
    <3>1. /\ Events(txn[q])' = Events(txn[q])
          /\ Events(table)' = Events(table)
          /\ FirstOf(batch'[q], done'[q]) = FirstOf(batch[q], done[q])
      BY <2>2 DEF Events
    <3> QED
      BY <2>1, <3>1 DEF InProgress
  <2>5. \A e \in BatchSet(q)' : e.policy = PolicyOf[q]
    BY <2>1, <2>2 DEF InProgress, BatchSet
  <2> QED
    BY <2>1, <2>2, <2>3, <2>4, <2>5 DEF InProgress
<1> QED
  BY <1>1, <1>2, <1>3, <1>4, <1>5

\* What a commit publishes is the sound table the transaction has built.
LEMMA CommitKeeps ==
    ASSUME IInv, NEW p \in Process, Commit(p)
    PROVE  IInv'
<1> USE DEF IInv, Commit, Leave
<1>1. p \in writer /\ writer' = {}
  BY DEF OneWriter, TypeOK
<1>2. TypeOK'
  BY EmptyTableType DEF TypeOK
<1>3. Sound(table)'
  BY <1>1 DEF InProgress, Sound, Events
<1>4. OneWriter'
  BY <1>1 DEF OneWriter, TypeOK
<1>5. OpenPolicy'
  <2>1. pinned' = PolicyOf[p] /\ pinned' # NoPolicy
    BY ConstantsAssumption DEF OpenPolicy
  <2>2. \A q \in Process : pc'[q] # "closed" => pc[q] # "closed"
    BY DEF TypeOK
  <2> QED
    BY <2>1, <2>2 DEF OpenPolicy
<1> QED
  BY <1>1, <1>2, <1>3, <1>4, <1>5 DEF InProgress

\* A transaction begins on the committed table.
LEMMA BeginKeeps ==
    ASSUME IInv, NEW p \in Process, NEW events \in Seq(Event), Begin(p, events)
    PROVE  IInv'
<1> USE DEF IInv, Begin
<1>1. TypeOK'
  BY DEF TypeOK
<1>2. Sound(table)'
  BY DEF Sound, Events
<1>3. OneWriter'
  BY DEF OneWriter, TypeOK
<1>4. OpenPolicy'
  BY DEF OpenPolicy, TypeOK
<1>5. InProgress'
  <2> SUFFICES ASSUME NEW q \in writer'
               PROVE  InProgress!(q)'
    BY DEF InProgress
  <2>1. q = p /\ txn'[p] = table /\ done'[p] = 0 /\ batch'[p] = events
    BY DEF TypeOK
  <2>2. Sound(txn[q])'
    BY <2>1 DEF Sound, Events
  <2>3. Events(txn[q])' = Events(table)' \cup FirstOf(batch'[q], done'[q])
    BY <2>1 DEF Events, FirstOf
  <2>4. \A e \in BatchSet(q)' : e.policy = PolicyOf[q]
    BY <2>1 DEF BatchSet, FirstOf, Valid
  <2> QED
    BY <2>1, <2>2, <2>3, <2>4 DEF TypeOK
<1> QED
  BY <1>1, <1>2, <1>3, <1>4, <1>5

\* Working off an event: the working process is the writer, its table sound.
LEMMA WorkingFacts ==
    ASSUME IInv, NEW p \in Process, Working(p)
    PROVE  /\ writer = {p}
           /\ txn[p] \in Table
           /\ Sound(txn[p])
           /\ Current(p) \in Event
           /\ Current(p) \in BatchSet(p)
           /\ Current(p).policy = pinned
           /\ done[p] + 1 \in 1..Len(batch[p])
           /\ FirstOf(batch[p], done[p] + 1) =
                 FirstOf(batch[p], done[p]) \cup {Current(p)}
<1> USE DEF IInv, Working
<1>1. writer = {p}
  BY DEF OneWriter, TypeOK
<1>2. done[p] \in Nat /\ batch[p] \in Seq(Event)
  BY DEF TypeOK
<1>3. done[p] + 1 \in 1..Len(batch[p])
  BY <1>2
<1>4. Current(p) \in Event /\ Current(p) \in BatchSet(p)
  BY <1>2, <1>3 DEF Current, BatchSet, FirstOf
<1>5. Current(p).policy = pinned
  BY <1>1, <1>4 DEF InProgress, OpenPolicy
<1>6. 1..(done[p] + 1) = 1..done[p] \cup {done[p] + 1}
  BY <1>2
<1>7. FirstOf(batch[p], done[p] + 1) =
         FirstOf(batch[p], done[p]) \cup {Current(p)}
  BY <1>6 DEF Current, FirstOf
<1>8. txn[p] \in Table /\ Sound(txn[p])
  BY <1>1 DEF TypeOK, InProgress
<1> QED
  BY <1>1, <1>3, <1>4, <1>5, <1>7, <1>8

\* An event that is already stored only moves the index of the loop.
LEMMA DuplicateKeeps ==
    ASSUME IInv, NEW p \in Process, Duplicate(p)
    PROVE  IInv'
<1> USE DEF IInv, Duplicate
<1>1. TypeOK'
  BY DEF TypeOK
<1>2. Sound(table)' /\ OneWriter' /\ OpenPolicy'
  BY DEF Sound, Events, OneWriter, OpenPolicy, TypeOK
<1>3. Current(p) \in Events(txn[p])
  <2>1. PICK r \in txn[p].rows : r.event = Current(p)
    BY DEF SameId
  <2> QED
    BY <2>1 DEF Events
<1>4. InProgress'
  <2>1. writer' = {p} /\ done'[p] = done[p] + 1
    BY WorkingFacts DEF TypeOK
  <2>2. Sound(txn[p])'
    BY WorkingFacts DEF Sound, Events
  <2>3. Events(txn[p])' = Events(table)' \cup FirstOf(batch'[p], done'[p])
    <3>1. Events(txn[p])' = Events(txn[p]) /\ Events(table)' = Events(table)
      BY DEF Events
    <3>2. Events(txn[p]) = Events(table) \cup FirstOf(batch[p], done[p])
      BY WorkingFacts DEF InProgress
    <3> QED
      BY <1>3, <2>1, <3>1, <3>2, WorkingFacts
  <2>4. done'[p] <= Len(batch'[p]) /\ BatchSet(p)' = BatchSet(p)
    BY <2>1, WorkingFacts DEF BatchSet
  <2> QED
    BY <2>1, <2>2, <2>3, <2>4, WorkingFacts DEF InProgress
<1> QED
  BY <1>1, <1>2, <1>4

\* Inserting extends what the transaction sees, beyond the committed rows.
LEMMA InsertKeeps ==
    ASSUME IInv, NEW p \in Process, Insert(p)
    PROVE  IInv'
<1> USE DEF IInv, Insert
<1> DEFINE n == txn[p].autoincrement + 1
           t == txn[p]
           u == [rows |-> t.rows \cup {[position |-> n, event |-> Current(p)]},
                 autoincrement |-> n]
<1>1. \A r \in t.rows : Id(r.event) # Id(Current(p))
  BY DEF SameId
<1>2. /\ u \in Table
      /\ Sound(u)
      /\ Events(u) = Events(t) \cup {Current(p)}
      /\ \A r \in u.rows \ t.rows : r.position = n
  BY <1>1, WorkingFacts, SoundInsert
<1>3. txn'[p] = u /\ done'[p] = done[p] + 1 /\ writer' = {p}
  BY WorkingFacts DEF TypeOK
<1> HIDE DEF u
<1>4. TypeOK'
  <2>1. txn' \in [Process -> Table]
    BY <1>2, <1>3 DEF TypeOK
  <2> QED
    BY <2>1 DEF TypeOK
<1>5. Sound(table)' /\ OneWriter' /\ OpenPolicy'
  BY DEF Sound, Events, OneWriter, OpenPolicy, TypeOK
<1>6. InProgress'
  <2>1. Sound(txn[p])'
    BY <1>2, <1>3 DEF Sound, Events
  <2>2. table'.rows \subseteq txn'[p].rows
    BY <1>3, WorkingFacts DEF InProgress, u
  <2>3. \A r \in txn'[p].rows \ table'.rows : r.position > table'.autoincrement
    <3>1. table.autoincrement \in Nat /\ t.autoincrement \in Nat
      BY DEF TypeOK, Table
    <3>2. table.autoincrement <= t.autoincrement
      <4>1. CASE table.autoincrement = 0
        BY <3>1, <4>1
      <4>2. CASE table.autoincrement # 0
        <5>1. PICK r \in table.rows : r.position = table.autoincrement
          BY <3>1, <4>2 DEF Sound
        <5>2. r \in t.rows /\ r.position \in 1..t.autoincrement
          BY <5>1, WorkingFacts DEF InProgress, Sound
        <5> QED
          BY <3>1, <5>1, <5>2
      <4> QED
        BY <4>1, <4>2
    <3>3. \A r \in t.rows \ table.rows : r.position > table.autoincrement
      BY WorkingFacts DEF InProgress
    <3> QED
      BY <1>2, <1>3, <3>1, <3>2, <3>3
  <2>4. Events(txn[p])' = Events(table)' \cup FirstOf(batch'[p], done'[p])
    <3>1. Events(txn[p])' = Events(u) /\ Events(table)' = Events(table)
      BY <1>3 DEF Events
    <3>2. Events(t) = Events(table) \cup FirstOf(batch[p], done[p])
      BY WorkingFacts DEF InProgress
    <3> QED
      BY <1>2, <1>3, <3>1, <3>2, WorkingFacts, ZenonT(60)
  <2>5. done'[p] <= Len(batch'[p]) /\ BatchSet(p)' = BatchSet(p)
    BY <1>3, WorkingFacts DEF BatchSet
  <2>6. \A e \in BatchSet(p)' : e.policy = PolicyOf[p]
    BY <2>5, WorkingFacts DEF InProgress
  <2>7. writer' = {p} /\ done'[p] <= Len(batch'[p])
    BY <1>3, <2>5
  <2> QED
    BY <2>1, <2>2, <2>3, <2>4, <2>6, <2>7, Zenon DEF InProgress
<1> QED
  BY <1>4, <1>5, <1>6

LEMMA StepIInv == IInv /\ [Next]_vars => IInv'
<1> SUFFICES ASSUME IInv, [Next]_vars
             PROVE  IInv'
  OBVIOUS
<1>1. CASE UNCHANGED vars
  BY <1>1, ZenonT(60) DEF vars, IInv, TypeOK, Sound, Events, OneWriter, OpenPolicy,
              InProgress, BatchSet
<1>2. ASSUME NEW p \in Process, Open(p)
      PROVE  IInv'
  <2> USE <1>2 DEF IInv, Open
  <2>1. TypeOK'
    BY ConstantsAssumption DEF TypeOK
  <2>2. Sound(table)'
    <3>1. CASE pinned = NoPolicy
      <4>1. Events(table) = {}
        BY <3>1 DEF OpenPolicy, EmptyTable, Events
      <4> QED
        BY <4>1 DEF Sound, Events
    <3>2. CASE pinned = PolicyOf[p]
      BY <3>2 DEF Sound, Events
    <3> QED
      BY <3>1, <3>2
  <2>3. OneWriter' /\ InProgress'
    BY DEF OneWriter, InProgress, TypeOK
  <2>4. OpenPolicy'
    <3>1. \A q \in Process : PolicyOf[q] # NoPolicy
      BY ConstantsAssumption
    <3>2. \A q \in Process : pc[q] # "closed" => pinned' = PolicyOf[q]
      BY <3>1 DEF OpenPolicy
    <3>3. \A q \in Process : q # p => pc'[q] = pc[q]
      BY DEF TypeOK
    <3> QED
      BY <3>1, <3>2, <3>3 DEF OpenPolicy
  <2> QED
    BY <2>1, <2>2, <2>3, <2>4
<1>3. ASSUME NEW p \in Process, ReadSequence(p)
      PROVE  IInv'
  <2>1. NextSequence(SignerOf[p], table) \in Nat
    BY NextSequenceFresh DEF IInv, TypeOK, Sound
  <2> QED
    BY <1>3, <2>1, ZenonT(60) DEF ReadSequence, IInv, TypeOK, Sound, Events, OneWriter,
                      OpenPolicy, InProgress, BatchSet
<1>4. ASSUME NEW p \in Process, AppendSigned(p) \/ AppendReceived(p)
      PROVE  IInv'
  BY <1>4, BeginCases, BeginKeeps DEF IInv
<1>5. ASSUME NEW p \in Process, Busy(p)
      PROVE  IInv'
  BY <1>5, ZenonT(60) DEF Busy, IInv, TypeOK, Sound, Events, OneWriter,
              OpenPolicy, InProgress, BatchSet
<1>6. ASSUME NEW p \in Process, Step(p)
      PROVE  IInv'
  <2>1. CASE Collision(p) \/ Exhausted(p)
    BY <2>1, LeaveKeeps DEF Collision, Exhausted, Working, IInv, TypeOK
  <2> QED
    BY <1>6, <2>1, DuplicateKeeps, InsertKeeps, CommitKeeps DEF Step
<1>7. ASSUME NEW p \in Process, Stop(p)
      PROVE  IInv'
  BY <1>7, LeaveKeeps DEF Stop, IInv, TypeOK
<1> QED
  BY <1>1, <1>2, <1>3, <1>4, <1>5, <1>6, <1>7 DEF Next

LEMMA Invariance == Spec => []IInv
BY InitIInv, StepIInv, PTL DEF Spec

-----------------------------------------------------------------------------
(* The theorems.                                                            *)

\* Type correctness of the journal, whatever the constants.
THEOREM TypeCorrect == Spec => []TypeOK
<1>1. IInv => TypeOK
  BY DEF IInv
<1> QED
  BY <1>1, Invariance, PTL

\* No interleaving of appends, rollbacks and crashes leaves the journal in a
\* state that allEvents refuses: the positions stay dense and within capacity.
THEOREM JournalAlwaysReadable == Spec => []AlwaysReadable
<1>1. IInv => AlwaysReadable
  BY DEF IInv, Sound, AlwaysReadable, Readable, Dense
<1> QED
  BY <1>1, Invariance, PTL

\* An identifier names one stored event for ever, whatever is posted.
THEOREM IdsUnique == Spec => []UniqueIds
<1>1. IInv => UniqueIds
  BY DEF IInv, Sound, UniqueIds
<1> QED
  BY <1>1, Invariance, PTL

\* Processes of other policies never get an event into the journal.
THEOREM PolicyStaysPinned == Spec => []PolicyPinned
<1>1. IInv => PolicyPinned
  BY DEF IInv, Sound, PolicyPinned
<1> QED
  BY <1>1, Invariance, PTL

\* A committed row is never lost, moved or changed; new rows come after it.
THEOREM CommittedStays == Spec => AppendOnly
<1>1. IInv /\ [Next]_vars =>
        [ /\ table.rows \subseteq table'.rows
          /\ \A r \in table'.rows \ table.rows : \A s \in table.rows :
                  r.position > s.position ]_vars
  <2> SUFFICES ASSUME IInv, Next
               PROVE  /\ table.rows \subseteq table'.rows
                      /\ \A r \in table'.rows \ table.rows : \A s \in table.rows :
                              r.position > s.position
    OBVIOUS
  <2>1. CASE table' = table
    BY <2>1
  <2>2. ASSUME NEW p \in Process, Commit(p)
        PROVE  /\ table.rows \subseteq table'.rows
               /\ \A r \in table'.rows \ table.rows : r.position > table.autoincrement
    <3>1. p \in writer
      BY <2>2 DEF Commit, IInv, OneWriter
    <3> QED
      BY <2>2, <3>1 DEF Commit, IInv, InProgress
  <2>3. \A s \in table.rows : s.position \in 1..table.autoincrement
    BY DEF IInv, Sound
  <2>4. table.autoincrement \in Nat /\ table'.autoincrement \in Nat /\ TypeOK'
    BY StepIInv DEF IInv, TypeOK, Table
  <2>5. \A r \in table'.rows : r.position \in Nat
    BY <2>4 DEF TypeOK, Table, Row
  <2>6. table' = table \/ \E p \in Process : Commit(p)
    BY DEF Next, Open, ReadSequence, AppendSigned, AppendReceived, Begin, Busy,
           Step, Duplicate, Insert, Collision, Exhausted, Stop
  <2> QED
    BY <2>1, <2>2, <2>3, <2>4, <2>5, <2>6
<1> QED
  BY <1>1, Invariance, PTL DEF Spec, AppendOnly

\* What becomes visible of a batch is all of it.
THEOREM BatchesAtomic == Spec => BatchAtomic
<1> DEFINE Whole == Events(table') # Events(table) =>
                      \E p \in Process :
                        /\ pc[p] = "append"
                        /\ Events(table') = Events(table) \cup
                              {batch[p][i] : i \in 1..Len(batch[p])}
<1>1. IInv /\ [Next]_vars => [Whole]_vars
  <2> SUFFICES ASSUME IInv, Next, Events(table') # Events(table)
               PROVE  Whole
    OBVIOUS
  <2>1. PICK p \in Process : Commit(p)
    BY DEF Next, Open, ReadSequence, AppendSigned, AppendReceived, Begin, Busy,
           Step, Duplicate, Insert, Collision, Exhausted, Stop
  <2>2. p \in writer /\ pc[p] = "append" /\ done[p] = Len(batch[p])
    BY <2>1 DEF Commit, IInv, OneWriter
  <2>3. Events(table') = Events(txn[p])
    BY <2>1 DEF Commit
  <2>4. Events(txn[p]) = Events(table) \cup FirstOf(batch[p], Len(batch[p]))
    BY <2>2 DEF IInv, InProgress
  <2> QED
    BY <2>2, <2>3, <2>4 DEF FirstOf
<1> QED
  BY <1>1, Invariance, PTL DEF Spec, BatchAtomic

-----------------------------------------------------------------------------
(* Sequence numbers: what one signer per actor buys.                        *)

\* A batch that begins takes no slot twice and signs for nobody else.
LEMMA BeginSlots ==
    ASSUME IInv, SlotInv, NEW p \in Process,
           AppendSigned(p) \/ AppendReceived(p)
    PROVE  /\ \A e, f \in Events(table) \cup BatchSet(p)' :
                  SameSlot(e, f) /\ e.actor \in Signers => e = f
           /\ \A e \in BatchSet(p)' :
                  \/ e \in Events(table)
                  \/ e.actor \notin Signers
                  \/ e.actor = SignerOf[p]
<1>0. TypeOK
  BY DEF IInv
<1>1. \A e, f \in Events(table) : SameSlot(e, f) /\ e.actor \in Signers => e = f
  BY DEF SlotInv, NoSelfEquivocation, SameSlot
<1>2. CASE AppendSigned(p)
  <2>1. PICK k \in SignSizes :
            \E bodies \in [1..k -> Body] : Begin(p, Signed(p, bodies))
    BY <1>2 DEF AppendSigned
  <2>2. PICK bodies \in [1..k -> Body] : Begin(p, Signed(p, bodies))
    BY <2>1
  <2> DEFINE s == Signed(p, bodies)
  <2>3. /\ s \in Seq(Event) /\ Len(s) = k
        /\ \A i \in 1..k : s[i].actor = SignerOf[p] /\ s[i].sequence = next[p] + i - 1
        /\ k \in Nat \ {0}
    <3>1. k \in Nat \ {0}
      BY ConstantsAssumption
    <3>2. next[p] # 0
      BY <1>2 DEF AppendSigned
    <3> HIDE DEF s
    <3>3. /\ s \in Seq(Event) /\ Len(s) = k
          /\ \A i \in 1..k : s[i].actor = SignerOf[p] /\ s[i].sequence = next[p] + i - 1
      BY <1>0, <3>1, <3>2, SignedType DEF s
    <3> QED
      BY <3>1, <3>3
  <2>4. BatchSet(p)' = {s[i] : i \in 1..k}
    BY <1>0, <2>2, <2>3 DEF Begin, BatchSet, FirstOf, TypeOK
  <2> HIDE DEF s
  <2>5. next[p] \in Nat \ {0}
    BY <1>0, <1>2 DEF AppendSigned, TypeOK
  <2>6. \A e \in Events(table) : \A i \in 1..k : ~SameSlot(e, s[i])
    <3> SUFFICES ASSUME NEW e \in Events(table), NEW i \in 1..k,
                        e.actor = SignerOf[p]
                 PROVE  e.sequence # s[i].sequence
      BY <2>3 DEF SameSlot
    <3>1. e.sequence < next[p] /\ e.sequence \in Nat
      BY <1>0, <2>5 DEF SlotInv, FreshSequence, TypeOK, Table, Row, Event, Events
    <3> QED
      BY <2>3, <2>5, <3>1
  <2>7. \A i, j \in 1..k : SameSlot(s[i], s[j]) => i = j
    BY <2>3, <2>5 DEF SameSlot
  <2>8. \A e, f : SameSlot(e, f) => SameSlot(f, e) /\ e.actor = f.actor
    BY DEF SameSlot
  <2>9. ASSUME NEW e \in Events(table) \cup BatchSet(p)',
               NEW f \in Events(table) \cup BatchSet(p)',
               SameSlot(e, f), e.actor \in Signers
        PROVE  e = f
    <3>1. CASE e \in Events(table)
      BY <1>1, <2>4, <2>6, <2>9, <3>1
    <3>2. CASE f \in Events(table)
      BY <1>1, <2>4, <2>6, <2>8, <2>9, <3>2
    <3>3. CASE e \in BatchSet(p)' /\ f \in BatchSet(p)'
      BY <2>4, <2>7, <2>9, <3>3
    <3> QED
      BY <3>1, <3>2, <3>3
  <2>10. \A e \in BatchSet(p)' : e.actor = SignerOf[p]
    BY <2>3, <2>4
  <2> QED
    BY <2>9, <2>10
<1>3. CASE AppendReceived(p)
  <2>1. PICK k \in ForeignSizes :
            \E events \in [1..k -> Foreign \cup Events(table)] : Begin(p, events)
    BY <1>3 DEF AppendReceived
  <2>2. PICK events \in [1..k -> Foreign \cup Events(table)] : Begin(p, events)
    BY <2>1
  <2>3. Len(events) = k
    BY <2>1, <2>2, ConstantsAssumption
  <2>4. BatchSet(p)' \subseteq Foreign \cup Events(table)
    BY <1>0, <2>2, <2>3 DEF Begin, BatchSet, FirstOf, TypeOK
  <2>5. \A e \in Foreign : e.actor \notin Signers
    BY ConstantsAssumption
  <2>6. \A e, f : SameSlot(e, f) => e.actor = f.actor
    BY DEF SameSlot
  <2> QED
    BY <1>1, <2>4, <2>5, <2>6
<1> QED
  BY <1>2, <1>3

\* Steps that publish nothing and begin nothing keep the slots apart.
LEMMA QuietSlots ==
    ASSUME IInv, SlotInv, table' = table, writer' \subseteq writer,
           \A q \in writer' : batch'[q] = batch[q],
           \A q \in Process : \/ next'[q] = 0
                              \/ next'[q] = next[q] /\ pc'[q] = pc[q]
    PROVE  SlotInv'
<1>1. NoSelfEquivocation' /\ FreshSequence'
  BY DEF SlotInv, NoSelfEquivocation, FreshSequence, Events
<1>2. Events(table)' = Events(table) /\ \A q \in writer' : BatchSet(q)' = BatchSet(q)
  BY DEF BatchSet, Events
<1>3. BatchSlots'
  BY <1>2 DEF SlotInv, BatchSlots
<1> QED
  BY <1>1, <1>3 DEF SlotInv

\* Publishing a batch: its events are the writer's own, so no number another
\* process has read is overtaken.
LEMMA CommitSlots ==
    ASSUME OneSigner, IInv, SlotInv, NEW p \in Process, Commit(p)
    PROVE  SlotInv'
<1>1. p \in writer /\ writer' = {} /\ done[p] = Len(batch[p])
  BY DEF Commit, Leave, IInv, OneWriter, TypeOK
<1>2. Events(table)' = Events(table) \cup BatchSet(p)
  <2>1. Events(table)' = Events(txn[p])
    BY DEF Commit, Events
  <2> QED
    BY <1>1, <2>1 DEF IInv, InProgress, BatchSet
<1>3. NoSelfEquivocation'
  BY <1>1, <1>2 DEF SlotInv, BatchSlots, NoSelfEquivocation, SameSlot
<1>4. FreshSequence'
  <2> SUFFICES ASSUME NEW q \in Process, next'[q] # 0
               PROVE  /\ pc'[q] = "idle"
                      /\ \A e \in Events(table)' :
                            e.actor = SignerOf[q] => e.sequence < next'[q]
    BY DEF FreshSequence
  <2>1. next'[q] = next[q] /\ pc[q] = "idle" /\ pc[p] = "append"
    BY DEF Commit, SlotInv, FreshSequence
  <2>2. q # p /\ pc'[q] = "idle"
    BY <2>1 DEF Commit, Leave, IInv, TypeOK
  <2>3. SignerOf[q] # SignerOf[p] /\ SignerOf[q] \in Signers
    BY <2>2 DEF OneSigner, Signers
  <2>4. \A e \in BatchSet(p) : e.actor = SignerOf[q] => e \in Events(table)
    BY <1>1, <2>3 DEF SlotInv, BatchSlots
  <2>5. \A e \in Events(table) : e.actor = SignerOf[q] => e.sequence < next[q]
    BY <2>1 DEF SlotInv, FreshSequence
  <2> QED
    BY <1>2, <2>1, <2>2, <2>4, <2>5
<1> QED
  BY <1>1, <1>3, <1>4 DEF SlotInv, BatchSlots

LEMMA StepSlotInv ==
    ASSUME OneSigner, IInv, SlotInv, [Next]_vars
    PROVE  SlotInv'
<1>0. TypeOK /\ OneWriter
  BY DEF IInv
<1>1. CASE UNCHANGED vars
  BY <1>1, QuietSlots DEF vars
<1>2. ASSUME NEW p \in Process, Open(p)
      PROVE  SlotInv'
  <2>1. \A q \in Process : next[q] = 0 \/ pc'[q] = pc[q]
    BY <1>0, <1>2 DEF Open, TypeOK, SlotInv, FreshSequence
  <2> QED
    BY <1>2, <2>1, QuietSlots DEF Open
<1>3. ASSUME NEW p \in Process, ReadSequence(p)
      PROVE  SlotInv'
  <2>1. \A e \in Events(table) :
            e.actor = SignerOf[p] => e.sequence < NextSequence(SignerOf[p], table)
    BY <1>0, NextSequenceFresh DEF IInv, Sound, TypeOK
  <2>2. FreshSequence'
    BY <1>0, <1>3, <2>1 DEF ReadSequence, SlotInv, FreshSequence, TypeOK, Events
  <2> QED
    BY <1>3, <2>2 DEF ReadSequence, SlotInv, BatchSlots, NoSelfEquivocation,
                      BatchSet, Events
<1>4. ASSUME NEW p \in Process, AppendSigned(p) \/ AppendReceived(p)
      PROVE  SlotInv'
  <2>1. PICK events \in Seq(Event) : Begin(p, events)
    BY <1>0, <1>4, BeginCases
  <2>2. writer' = {p} /\ Events(table)' = Events(table)
    BY <2>1 DEF Begin, Events
  <2>3. BatchSlots'
    BY <1>4, <2>2, BeginSlots DEF BatchSlots
  <2>4. FreshSequence' /\ NoSelfEquivocation'
    BY <1>0, <2>1 DEF Begin, SlotInv, FreshSequence, NoSelfEquivocation, TypeOK, Events
  <2> QED
    BY <2>3, <2>4 DEF SlotInv
<1>5. ASSUME NEW p \in Process, Busy(p)
      PROVE  SlotInv'
  BY <1>0, <1>5, QuietSlots DEF Busy, TypeOK
<1>6. ASSUME NEW p \in Process, Collision(p) \/ Exhausted(p)
      PROVE  SlotInv'
  <2>1. next[p] = 0
    BY <1>6 DEF Collision, Exhausted, Working, SlotInv, FreshSequence
  <2> QED
    BY <1>0, <1>6, <2>1, QuietSlots DEF Collision, Exhausted, Leave, TypeOK
<1>7. ASSUME NEW p \in Process, Duplicate(p) \/ Insert(p)
      PROVE  SlotInv'
  BY <1>0, <1>7, QuietSlots DEF Duplicate, Insert, TypeOK
<1>8. ASSUME NEW p \in Process, Stop(p)
      PROVE  SlotInv'
  BY <1>0, <1>8, QuietSlots DEF Stop, Leave, TypeOK
<1> QED
  BY <1>1, <1>2, <1>3, <1>4, <1>5, <1>6, <1>7, <1>8, CommitSlots DEF Next, Step

\* With one signing process per actor no actor ever fills a slot twice, across
\* crashes, refused batches and its own events coming back from peers.
THEOREM SignersNeverEquivocate ==
    ASSUME OneSigner
    PROVE  Spec => []NoSelfEquivocation
<1>1. Init => SlotInv
  <2> SUFFICES ASSUME Init
               PROVE  SlotInv
    OBVIOUS
  <2>1. Events(table) = {}
    BY DEF Init, EmptyTable, Events
  <2> QED
    BY <2>1 DEF Init, SlotInv, FreshSequence, BatchSlots, NoSelfEquivocation
<1>2. IInv /\ SlotInv /\ [Next]_vars => SlotInv'
  BY StepSlotInv
<1>3. SlotInv => NoSelfEquivocation
  BY DEF SlotInv
<1> QED
  BY <1>1, <1>2, <1>3, Invariance, PTL DEF Spec
=============================================================================
