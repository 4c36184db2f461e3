------------------------------ MODULE NodeProofs ------------------------------
(* Proofs about LatticeNode, for any nodes, peers, workloads, page size,    *)
(* capacity and number of faults.                                           *)
EXTENDS LatticeNode, FiniteNumbers, TLAPS

-----------------------------------------------------------------------------
(* The journal's operations.                                                *)

\* Storing rows adds their events, and nothing else, behind what is there.
LEMMA AppendedFacts ==
    ASSUME NEW J \in SUBSET Row, IsFiniteSet(J), NEW R \in SUBSET Row, IsFiniteSet(R)
    PROVE  /\ Appended(J, R) \in SUBSET Row
           /\ IsFiniteSet(Appended(J, R))
           /\ J \subseteq Appended(J, R)
           /\ Events(Appended(J, R)) = Events(J) \cup Events(R)
<1> DEFINE U == Unseen(J, R)
           moved == [r \in U |-> [position |-> High(J) + Rank(r, U), event |-> r.event]]
           N == {moved[r] : r \in U}
<1>1. IsFiniteSet(U) /\ U \subseteq R
  BY FS_Subset DEF Unseen
<1>2. ASSUME NEW r \in U
      PROVE  Rank(r, U) \in Nat \ {0}
  <2> DEFINE B == {q \in U : q.position <= r.position}
  <2>1. IsFiniteSet(B)
    BY <1>1, FS_Subset
  <2>2. r \in B
    BY <1>1 DEF Row
  <2> QED
    BY <2>1, <2>2, FS_CardinalityType, FS_EmptySet DEF Rank
<1>3. High(J) \in Nat
  BY FS_CardinalityType DEF High
<1>4. N \in SUBSET Row
  BY <1>1, <1>2, <1>3 DEF Row
<1>5. IsFiniteSet(N)
  <2>1. moved \in Surjection(U, N)
    BY DEF Surjection
  <2> QED
    BY <1>1, <2>1, FS_Surjection
<1>6. Appended(J, R) = J \cup N
  BY DEF Appended
<1>7. Events(N) = Events(U)
  <2>1. \A r \in U : moved[r].event = r.event
    OBVIOUS
  <2>2. Events(N) = {moved[r].event : r \in U}
    BY DEF Events
  <2> QED
    BY <2>1, <2>2 DEF Events
<1>8. Events(J) \cup Events(U) = Events(J) \cup Events(R)
  BY DEF Events, Unseen
<1>9. Events(J \cup N) = Events(J) \cup Events(N)
  BY DEF Events
<1>10. IsFiniteSet(J \cup N)
  BY <1>5, FS_Union
<1> QED
  BY <1>4, <1>6, <1>7, <1>8, <1>9, <1>10

\* A batch of one, or of two, holds just these events.
LEMMA BatchOne ==
    ASSUME NEW e \in Event
    PROVE  /\ Batch(<<e>>) \in SUBSET Row
           /\ IsFiniteSet(Batch(<<e>>))
           /\ Events(Batch(<<e>>)) = {e}
<1>1. Batch(<<e>>) = {[position |-> 1, event |-> e]}
  <2>1. 1..Len(<<e>>) = {1} /\ <<e>>[1] = e
    OBVIOUS
  <2> QED
    BY <2>1 DEF Batch
<1> DEFINE r == [position |-> 1, event |-> e]
<1>2. r \in Row /\ r.event = e
  BY DEF Row
<1>3. IsFiniteSet({r})
  BY FS_Singleton
<1>4. Events({r}) = {e}
  BY <1>2 DEF Events
<1> QED
  BY <1>1, <1>2, <1>3, <1>4

LEMMA BatchTwo ==
    ASSUME NEW e \in Event, NEW f \in Event
    PROVE  /\ Batch(<<e, f>>) \in SUBSET Row
           /\ IsFiniteSet(Batch(<<e, f>>))
           /\ Events(Batch(<<e, f>>)) = {e, f}
<1> DEFINE r == [position |-> 1, event |-> e]
           q == [position |-> 2, event |-> f]
<1>1. Batch(<<e, f>>) = {r, q}
  <2>1. 1..Len(<<e, f>>) = {1, 2} /\ <<e, f>>[1] = e /\ <<e, f>>[2] = f
    OBVIOUS
  <2> QED
    BY <2>1 DEF Batch
<1>2. IsFiniteSet({r} \cup {q})
  BY FS_Singleton, FS_Union
<1>3. {r, q} = {r} \cup {q}
  OBVIOUS
<1>4. r \in Row /\ q \in Row /\ r.event = e /\ q.event = f
  BY DEF Row
<1>5. Events({r, q}) = {e, f}
  BY <1>4 DEF Events
<1> QED
  BY <1>1, <1>2, <1>3, <1>4, <1>5

\* A signer's next number is beyond all it finds of itself in its journal.
LEMMA NextSequenceFresh ==
    ASSUME NEW J \in SUBSET Row, IsFiniteSet(J), NEW n
    PROVE  /\ NextSequence(n, J) \in Nat \ {0}
           /\ \A e \in Events(J) : e.actor = n => e.sequence < NextSequence(n, J)
<1> DEFINE D == {r \in J : r.event.actor = n}
           f == [r \in D |-> r.event.sequence]
           S == SequencesOf(n, J)
<1>1. IsFiniteSet(D)
  BY FS_Subset
<1>2. f \in Surjection(D, S)
  BY DEF Surjection, SequencesOf, Events
<1>3. IsFiniteSet(S)
  BY <1>1, <1>2, FS_Surjection
<1>4. S \subseteq Nat \ {0}
  BY DEF SequencesOf, Events, Row, Event
<1>5. \E k \in {1} \cup {m + 1 : m \in S} : \A m \in S : m < k
  BY <1>3, <1>4, NextNumberExists
<1>6. /\ NextSequence(n, J) \in {1} \cup {i + 1 : i \in S}
      /\ \A m \in S : m < NextSequence(n, J)
  BY <1>5 DEF NextSequence
<1> QED
  BY <1>4, <1>6 DEF SequencesOf

-----------------------------------------------------------------------------
(* How a step changes a journal: it copies, or it signs.                    *)

\* n stores rows R.
Stores(n, R) ==
    /\ R \in SUBSET Row
    /\ IsFiniteSet(R)
    /\ journal' = [journal EXCEPT ![n] = Appended(@, R)]

\* R holds what some node has stored.
Copied(R) == Events(R) \subseteq Everything

\* R is signed by n: nothing n has stored, or signs beside, has the number or
\* the message of an event of R, and no request comes without its task.
Signed(n, R) ==
    \A e \in Events(R) :
        /\ e.actor = n
        /\ \A f \in Events(journal[n]) \cup Events(R) :
            f.actor = n =>
                /\ f.sequence = e.sequence => f = e
                /\ f.kind = e.kind /\ f.task = e.task => f = e
        /\ e.kind = "verification_request" => Has(R, "task", e.task)

JournalStep ==
    \/ journal' = journal
    \/ \E n \in Node : \E R : Stores(n, R) /\ (Copied(R) \/ Signed(n, R))

LEMMA JournalType ==
    ASSUME IInv, NEW n \in Node
    PROVE  journal[n] \in SUBSET Row /\ IsFiniteSet(journal[n])
BY DEF IInv, TypeOK, Finite

\* n signs a message it has not signed before.
Says(n, kind, task) ==
    /\ \A f \in Events(journal[n]) : ~(f.actor = n /\ f.kind = kind /\ f.task = task)
    /\ journal' = [journal EXCEPT ![n] = Appended(@, Batch(<<Sign(n, @, kind, task)>>))]

\* One new event has a number of its own, and a message of its own.
LEMMA SignedOne ==
    ASSUME IInv, NEW n \in Node, NEW kind \in Kinds \ {"verification_request"},
           NEW task \in Task \cup {NoTask}, Says(n, kind, task)
    PROVE  JournalStep
<1> DEFINE e == Sign(n, journal[n], kind, task)
           R == Batch(<<e>>)
<1>1. /\ NextSequence(n, journal[n]) \in Nat \ {0}
      /\ \A f \in Events(journal[n]) : f.actor = n => f.sequence < NextSequence(n, journal[n])
  BY JournalType, NextSequenceFresh
<1>2. e \in Event /\ e.actor = n /\ e.kind = kind /\ e.task = task
      /\ e.sequence = NextSequence(n, journal[n])
  BY <1>1 DEF Sign, Event
<1>3. R \in SUBSET Row /\ IsFiniteSet(R) /\ Events(R) = {e}
  BY <1>2, BatchOne
<1>4. \A f \in Events(journal[n]) : f \in Event
  BY JournalType DEF Events, Row
<1>5. Signed(n, R)
  <2> HIDE DEF e, R
  <2>1. SUFFICES ASSUME NEW f \in Events(journal[n]) \cup {e}, f.actor = n
                 PROVE  /\ f.sequence = e.sequence => f = e
                        /\ f.kind = e.kind /\ f.task = e.task => f = e
    BY <1>2, <1>3 DEF Signed
  <2>2. CASE f \in Events(journal[n])
    <3>1. f.sequence < e.sequence
      BY <1>1, <1>2, <2>1, <2>2
    <3>2. f.sequence # e.sequence
      BY <1>2, <1>4, <2>2, <3>1 DEF Event
    <3> QED
      BY <1>2, <2>1, <2>2, <3>2 DEF Says
  <2> QED
    BY <2>1, <2>2
<1>6. Stores(n, R)
  BY <1>3 DEF Stores, Says
<1> QED
  BY <1>5, <1>6 DEF JournalStep

\* Rows that are there, or on their way, are copied.
LEMMA CopiedRows ==
    ASSUME NEW n \in Node, NEW R \in SUBSET Row, IsFiniteSet(R), Copied(R),
           journal' = [journal EXCEPT ![n] = Appended(@, R)]
    PROVE  JournalStep
BY DEF Stores, JournalStep

LEMMA StartSteps ==
    ASSUME IInv, NEW n \in Node, Start(n)
    PROVE  JournalStep
<1>1. journal' = [journal EXCEPT ![n] = Appended(@, Advertisement(n, journal[n]))]
  BY DEF Start, IInv, TypeOK
<1>2. CASE Advertised(n, journal[n])
  <2>1. Advertisement(n, journal[n]) = {}
    BY <1>2 DEF Advertisement
  <2>2. Copied({}) /\ IsFiniteSet({}) /\ {} \in SUBSET Row
    BY FS_EmptySet DEF Copied, Events
  <2>3. journal' = [journal EXCEPT ![n] = Appended(@, {})]
    BY <1>1, <2>1
  <2> QED
    BY <2>2, <2>3, CopiedRows
<1>3. CASE ~Advertised(n, journal[n])
  <2>1. Advertisement(n, journal[n]) = Batch(<<Sign(n, journal[n], "capability", NoTask)>>)
    BY <1>3 DEF Advertisement
  <2>2. \A f \in Events(journal[n]) : ~(f.actor = n /\ f.kind = "capability")
    BY <1>3 DEF Advertised
  <2>3. Says(n, "capability", NoTask)
    BY <1>1, <2>1, <2>2 DEF Says
  <2> QED
    BY <2>3, SignedOne DEF Kinds
<1> QED
  BY <1>2, <1>3

LEMMA VerifySteps ==
    ASSUME IInv, NEW n \in Node, Verify(n)
    PROVE  JournalStep
<1>1. PICK r \in Owed(n, journal[n]) :
        journal' = [journal EXCEPT ![n] =
            Appended(@, Batch(<<Sign(n, journal[n], "verification", r.event.task)>>))]
  BY DEF Verify, IInv, TypeOK
<1>2. r \in Row /\ ~Answered(n, journal[n], r.event.task)
  BY <1>1, JournalType DEF Owed
<1>3. r.event.task \in Task \cup {NoTask}
  BY <1>2 DEF Row, Event
<1>4. \A f \in Events(journal[n]) :
        ~(f.actor = n /\ f.kind = "verification" /\ f.task = r.event.task)
  BY <1>2 DEF Answered
<1>5. Says(n, "verification", r.event.task)
  BY <1>1, <1>4 DEF Says
<1> QED
  BY <1>3, <1>5, SignedOne DEF Kinds

\* A task and its request are new to the owner, and take two numbers in a row.
LEMMA SubmitSteps ==
    ASSUME IInv, NEW t \in Task, Submit(t)
    PROVE  JournalStep
<1> DEFINE J == journal[Owner]
           k == NextSequence(Owner, J)
           e == [actor |-> Owner, sequence |-> k, kind |-> "task", task |-> t]
           f == [actor |-> Owner, sequence |-> k + 1, kind |-> "verification_request",
                 task |-> t]
           R == Batch(<<e, f>>)
<1>1. Owner \in Node
  BY ConstantsAssumption
<1>2. J \in SUBSET Row /\ IsFiniteSet(J)
  BY <1>1, JournalType
<1>3. k \in Nat \ {0} /\ \A g \in Events(J) : g.actor = Owner => g.sequence < k
  BY <1>2, NextSequenceFresh
<1>4. \A g \in Events(J) : g \in Event
  BY <1>2 DEF Events, Row
<1>5. Submission(t) = R
  <2>1. Sign(Owner, J, "task", t) = e
    BY DEF Sign
  <2>2. [Sign(Owner, J, "verification_request", t) EXCEPT !.sequence = @ + 1] = f
    BY <1>3 DEF Sign
  <2> HIDE DEF e, f
  <2> QED
    BY <2>1, <2>2 DEF Submission
<1>6. e \in Event /\ f \in Event
  BY <1>1, <1>3 DEF Event, Kinds
<1>7. R \in SUBSET Row /\ IsFiniteSet(R) /\ Events(R) = {e, f}
  BY <1>6, BatchTwo
<1>8. Stores(Owner, R)
  BY <1>5, <1>7 DEF Submit, Stores
<1>9. ~Has(J, "task", t)
  BY DEF Submit
<1>10. \A g \in Events(J) : g.actor = Owner /\ g.task = t =>
         g.kind # "task" /\ g.kind # "verification_request"
  BY <1>1, <1>9 DEF Has, IInv, TasksFirst
<1>11. \A g \in Events(J) : g.actor = Owner => g.sequence # k /\ g.sequence # k + 1
  <2> HIDE DEF J, k
  <2> QED
    BY <1>3, <1>4 DEF Event
<1>12. Has(R, "task", t)
  BY <1>7 DEF Has
<1>13. Signed(Owner, R)
  <2>1. \A g \in Events(J) \cup {e, f} : g.actor = Owner =>
          /\ g.sequence = e.sequence => g = e
          /\ g.kind = e.kind /\ g.task = e.task => g = e
    BY <1>3, <1>10, <1>11
  <2>2. \A g \in Events(J) \cup {e, f} : g.actor = Owner =>
          /\ g.sequence = f.sequence => g = f
          /\ g.kind = f.kind /\ g.task = f.task => g = f
    BY <1>3, <1>10, <1>11
  <2>3. e.actor = Owner /\ f.actor = Owner
        /\ e.kind # "verification_request" /\ f.task = t
    OBVIOUS
  <2> QED
    BY <1>7, <1>12, <2>1, <2>2, <2>3 DEF Signed
<1> QED
  BY <1>1, <1>8, <1>13 DEF JournalStep

LEMMA TakeSteps ==
    ASSUME IInv, NEW n \in Node, Take(n)
    PROVE  JournalStep
<1>1. sync[n].page \in SUBSET Row /\ IsFiniteSet(sync[n].page)
  BY DEF IInv, TypeOK, Finite, Sync
<1>2. Copied(sync[n].page)
  BY DEF IInv, InHandStored, Copied
<1>3. journal' = [journal EXCEPT ![n] = Appended(@, sync[n].page)]
  BY DEF Take
<1> QED
  BY <1>1, <1>2, <1>3, CopiedRows

LEMMA ReceiveSteps ==
    ASSUME IInv, NEW p \in wire, Receive(p)
    PROVE  JournalStep
<1> DEFINE R == Batch(<<p.event>>)
<1>1. p.to \in Node /\ p.event \in Event
  BY DEF IInv, TypeOK, Post
<1>2. R \in SUBSET Row /\ IsFiniteSet(R) /\ Events(R) = {p.event}
  BY <1>1, BatchOne
<1>3. Copied(R)
  BY <1>2 DEF IInv, InHandStored, Copied
<1>4. journal' = [journal EXCEPT ![p.to] = Appended(@, R)]
  BY DEF Receive
<1> HIDE DEF R
<1> QED
  BY <1>1, <1>2, <1>3, <1>4, CopiedRows

\* Every step copies, signs, or leaves the journals alone.
LEMMA JournalSteps ==
    ASSUME IInv, [Next]_vars
    PROVE  JournalStep
<1>1. ASSUME NEW n \in Node, Start(n)
      PROVE  JournalStep
  BY <1>1, StartSteps
<1>2. ASSUME NEW n \in Node, Crash(n) \/ SyncBegin(n) \/ Timeout(n) \/ StartDone(n)
      PROVE  JournalStep
  BY <1>2 DEF Crash, SyncBegin, Timeout, StartDone, JournalStep
<1>3. ASSUME NEW n \in Node, Exchange(n)
      PROVE  JournalStep
  <2>1. CASE Take(n)
    BY <2>1, TakeSteps
  <2>2. CASE ~Take(n)
    BY <1>3, <2>2 DEF Exchange, Ask, TakeRefused, Push, FirstTurnEnds, TurnDone,
                      SecondTurnEnds, JournalStep
  <2> QED
    BY <2>1, <2>2
<1>4. ASSUME NEW n \in Node, Verify(n)
      PROVE  JournalStep
  BY <1>4, VerifySteps
<1>5. ASSUME NEW p \in wire, Receive(p) \/ Answer(p) \/ Refuse(p)
      PROVE  JournalStep
  BY <1>5, ReceiveSteps DEF Answer, Refuse, JournalStep
<1>6. ASSUME NEW t \in Task, Submit(t)
      PROVE  JournalStep
  BY <1>6, SubmitSteps
<1>7. ASSUME UNCHANGED vars
      PROVE  JournalStep
  BY <1>7 DEF vars, JournalStep
<1> QED
  BY <1>1, <1>2, <1>3, <1>4, <1>5, <1>6, <1>7 DEF Next, Serve

-----------------------------------------------------------------------------
(* What such a step preserves.                                              *)

\* Storing rows R at n adds their events there and nowhere else.
LEMMA StoredFacts ==
    ASSUME IInv, NEW n \in Node, NEW R, Stores(n, R)
    PROVE  /\ journal' \in [Node -> SUBSET Row]
           /\ \A m \in Node : IsFiniteSet(journal'[m])
           /\ Events(journal'[n]) = Events(journal[n]) \cup Events(R)
           /\ \A m \in Node \ {n} : Events(journal'[m]) = Events(journal[m])
           /\ Everything' = Everything \cup Events(R)
<1>1. R \in SUBSET Row /\ IsFiniteSet(R)
  BY DEF Stores
<1>2. journal \in [Node -> SUBSET Row] /\ \A m \in Node : IsFiniteSet(journal[m])
  BY DEF IInv, TypeOK, Finite
<1>3. journal'[n] = Appended(journal[n], R) /\ \A m \in Node \ {n} : journal'[m] = journal[m]
  BY <1>2 DEF Stores
<1>4. /\ Appended(journal[n], R) \in SUBSET Row
      /\ IsFiniteSet(Appended(journal[n], R))
      /\ Events(Appended(journal[n], R)) = Events(journal[n]) \cup Events(R)
  BY <1>1, <1>2, AppendedFacts
<1>5. journal' \in [Node -> SUBSET Row]
  BY <1>2, <1>4 DEF Stores
<1>6. Events(journal'[n]) = Events(journal[n]) \cup Events(R)
  BY <1>3, <1>4
<1>7. \A m \in Node \ {n} : Events(journal'[m]) = Events(journal[m])
  BY <1>3
<1>8. Everything' = Everything \cup Events(R)
  BY <1>6, <1>7 DEF Everything
<1> QED
  BY <1>2, <1>3, <1>4, <1>5, <1>6, <1>7, <1>8

\* What is stored stays stored, in the way the invariant speaks of.
LEMMA JournalsGrow ==
    ASSUME IInv, JournalStep
    PROVE  /\ journal' \in [Node -> SUBSET Row]
           /\ \A m \in Node : /\ IsFiniteSet(journal'[m])
                              /\ Events(journal[m]) \subseteq Events(journal'[m])
           /\ Everything \subseteq Everything'
<1>1. CASE journal' = journal
  BY <1>1 DEF IInv, TypeOK, Finite, Everything
<1>2. ASSUME NEW n \in Node, NEW R, Stores(n, R)
      PROVE  /\ journal' \in [Node -> SUBSET Row]
             /\ \A m \in Node : /\ IsFiniteSet(journal'[m])
                                /\ Events(journal[m]) \subseteq Events(journal'[m])
             /\ Everything \subseteq Everything'
  <2>1. \A m \in Node : m = n \/ m \in Node \ {n}
    OBVIOUS
  <2> QED
    BY <1>2, <2>1, StoredFacts
<1> QED
  BY <1>1, <1>2 DEF JournalStep

\* The signatures in the journals stay unambiguous and remembered.
Sound ==
    /\ SignersRemember
    /\ TasksFirst
    /\ NoEquivocation
    /\ SaidOnce

LEMMA CopyKeepsSound ==
    ASSUME IInv, NEW n \in Node, NEW R, Stores(n, R), Copied(R)
    PROVE  Sound'
<1>1. Everything' = Everything
  BY StoredFacts DEF Copied
<1>2. \A m \in Node : Events(journal[m]) \subseteq Events(journal'[m])
  BY JournalsGrow DEF JournalStep
<1>3. \A e \in Everything : e \in Events(journal[e.actor]) /\ e.actor \in Node
  <2>1. \A m \in Node : \A e \in Events(journal[m]) : e \in Event
    BY JournalType DEF Events, Row
  <2> QED
    BY <2>1 DEF IInv, SignersRemember, Everything, Event
<1>4. SignersRemember'
  BY <1>1, <1>2, <1>3 DEF SignersRemember
<1>5. NoEquivocation' /\ SaidOnce'
  BY <1>1 DEF IInv, NoEquivocation, SaidOnce
<1>6. TasksFirst'
  <2>1. SUFFICES ASSUME NEW m \in Node, NEW e \in Events(journal'[m]),
                        e.actor = m, e.kind = "verification_request"
                 PROVE  Has(journal'[m], "task", e.task)
    BY DEF TasksFirst
  <2>2. e \in Everything
    BY <1>1 DEF Everything
  <2>3. e \in Events(journal[m])
    BY <1>3, <2>1, <2>2
  <2>4. Has(journal[m], "task", e.task)
    BY <2>1, <2>3 DEF IInv, TasksFirst
  <2> QED
    BY <1>2, <2>4 DEF Has
<1> QED
  BY <1>4, <1>5, <1>6 DEF Sound

LEMMA SigningKeepsSound ==
    ASSUME IInv, NEW n \in Node, NEW R, Stores(n, R), Signed(n, R)
    PROVE  Sound'
<1>1. /\ Everything' = Everything \cup Events(R)
      /\ Events(journal'[n]) = Events(journal[n]) \cup Events(R)
      /\ \A m \in Node \ {n} : Events(journal'[m]) = Events(journal[m])
  BY StoredFacts
<1>2. \A m \in Node : Events(journal[m]) \subseteq Events(journal'[m])
  BY JournalsGrow DEF JournalStep
<1>3. \A e \in Everything : e \in Events(journal[e.actor]) /\ e.actor \in Node
  <2>1. \A m \in Node : \A e \in Events(journal[m]) : e \in Event
    BY JournalType DEF Events, Row
  <2> QED
    BY <2>1 DEF IInv, SignersRemember, Everything, Event
<1>4. \A e \in Events(R) : \A f \in Everything \cup Events(R) :
        f.actor = e.actor => /\ f.sequence = e.sequence => f = e
                             /\ f.kind = e.kind /\ f.task = e.task => f = e
  BY <1>3 DEF Signed
<1>5. \A e \in Events(R) : e.actor = n
  BY DEF Signed
<1>6. SignersRemember'
  BY <1>1, <1>2, <1>3, <1>5 DEF SignersRemember
<1>7. NoEquivocation'
  BY <1>1, <1>4 DEF IInv, NoEquivocation
<1>8. SaidOnce'
  BY <1>1, <1>4 DEF IInv, SaidOnce
<1>9. TasksFirst'
  <2>1. SUFFICES ASSUME NEW m \in Node, NEW e \in Events(journal'[m]),
                        e.actor = m, e.kind = "verification_request"
                 PROVE  Has(journal'[m], "task", e.task)
    BY DEF TasksFirst
  <2>2. CASE e \in Events(journal[m])
    <3>1. Has(journal[m], "task", e.task)
      BY <2>1, <2>2 DEF IInv, TasksFirst
    <3> QED
      BY <1>2, <3>1 DEF Has
  <2>3. CASE e \notin Events(journal[m])
    <3>1. m = n /\ e \in Events(R)
      BY <1>1, <2>3
    <3>2. Has(R, "task", e.task)
      BY <2>1, <3>1 DEF Signed
    <3> QED
      BY <1>1, <3>1, <3>2 DEF Has
  <2> QED
    BY <2>2, <2>3
<1> QED
  BY <1>6, <1>7, <1>8, <1>9 DEF Sound

LEMMA SoundKept ==
    ASSUME IInv, JournalStep
    PROVE  Sound'
<1>1. CASE journal' = journal
  BY <1>1 DEF IInv, Sound, SignersRemember, TasksFirst, NoEquivocation, SaidOnce, Everything
<1> QED
  BY <1>1, CopyKeepsSound, SigningKeepsSound DEF JournalStep

-----------------------------------------------------------------------------
(* The other variables, one lemma for each.                                 *)

\* What the invariant says of n's /sync request, if it is s.
SyncSound(n, s) ==
    /\ s \in Sync
    /\ IsFiniteSet(s.page)
    /\ Events(s.page) \subseteq Everything
    /\ Peers[n] # <<>> => s.peer \in 1..Len(Peers[n])
    /\ s.phase # "idle" => Peers[n] # <<>>

SyncsSound ==
    /\ sync \in [Node -> Sync]
    /\ \A n \in Node : SyncSound(n, sync[n])

WireSound ==
    \A p \in wire : p \in Post /\ p.event \in Everything /\ Peers[p.from] # <<>>

HandlersSound ==
    /\ handler \in [Node -> Handlers]
    /\ \A n \in Node : handler[n] = "turn" => Peers[n] # <<>>

\* The invariant, variable by variable.
LEMMA Parts ==
    IInv <=> /\ journal \in [Node -> SUBSET Row]
             /\ \A n \in Node : IsFiniteSet(journal[n])
             /\ Sound
             /\ SyncsSound /\ WireSound /\ HandlersSound
             /\ faults \in 0..MaxFaults
             /\ due \in [Node -> Seq(SUBSET Event)]
BY DEF IInv, TypeOK, Finite, PeersConfigured, InHandStored, Sound, SyncsSound, SyncSound,
       WireSound, HandlersSound

\* A peer's number is within the configured peers, each of them a node.
LEMMA PeerType ==
    ASSUME IInv, NEW n \in Node, Peers[n] # <<>>
    PROVE  /\ Len(Peers[n]) \in Nat
           /\ \A i \in 1..Len(Peers[n]) : Peers[n][i] \in Node
           /\ 1 \in 1..Len(Peers[n])
           /\ sync[n].peer \in 1..Len(Peers[n])
<1>1. Peers[n] \in Seq(Node)
  BY ConstantsAssumption
<1>2. sync[n].peer \in 1..Len(Peers[n])
  BY DEF IInv, PeersConfigured
<1> QED
  BY <1>1, <1>2

LEMMA FreshSync ==
    ASSUME IInv, NEW n \in Node
    PROVE  SyncSound(n, NoSync)
<1>1. NoSync \in Sync
  BY DEF NoSync, Sync, Phases
<1>2. NoSync.page = {} /\ NoSync.peer = 1 /\ NoSync.phase = "idle"
  BY DEF NoSync
<1>3. IsFiniteSet({}) /\ Events({}) = {}
  BY FS_EmptySet DEF Events
<1> QED
  BY <1>1, <1>2, <1>3, PeerType DEF SyncSound

\* A page that a node reads is what its peer has stored.
LEMMA SliceStored ==
    ASSUME IInv, NEW m \in Node, NEW a, NEW c
    PROVE  /\ Slice(journal[m], a, c) \in SUBSET Row
           /\ IsFiniteSet(Slice(journal[m], a, c))
           /\ Events(Slice(journal[m], a, c)) \subseteq Everything
<1>1. Slice(journal[m], a, c) \subseteq journal[m]
  BY DEF Slice
<1> QED
  BY <1>1, JournalType, FS_Subset DEF Events, Everything

LEMMA SyncsKept ==
    ASSUME IInv, [Next]_vars
    PROVE  SyncsSound'
<1>1. SyncsSound /\ Everything \subseteq Everything'
  BY Parts, JournalSteps, JournalsGrow
<1>2. ASSUME sync' = sync
      PROVE  SyncsSound'
  BY <1>1, <1>2 DEF SyncsSound, SyncSound
<1>3. ASSUME NEW n \in Node, NEW s, SyncSound(n, s), sync' = [sync EXCEPT ![n] = s]
      PROVE  SyncsSound'
  <2>1. s \in Sync
    BY <1>3 DEF SyncSound
  <2>2. sync' \in [Node -> Sync]
    BY <1>1, <1>3, <2>1 DEF SyncsSound
  <2>3. sync'[n] = s /\ \A m \in Node \ {n} : sync'[m] = sync[m]
    BY <1>1, <1>3 DEF SyncsSound
  <2>4. \A m \in Node : SyncSound(m, sync'[m])
    BY <1>1, <1>3, <2>3 DEF SyncsSound
  <2> QED
    BY <1>1, <2>2, <2>4 DEF SyncsSound, SyncSound
<1>4. ASSUME NEW n \in Node, sync' = [sync EXCEPT ![n] = NoSync]
      PROVE  SyncsSound'
  BY <1>3, <1>4, FreshSync
<1>5. ASSUME NEW n \in Node, NEW ph \in Phases, Peers[n] # <<>>,
             sync' = [sync EXCEPT ![n].phase = ph]
      PROVE  SyncsSound'
  <2> DEFINE s == [sync[n] EXCEPT !.phase = ph]
  <2>1. SyncSound(n, sync[n])
    BY <1>1 DEF SyncsSound
  <2>2. SyncSound(n, s)
    BY <1>5, <2>1 DEF SyncSound, Sync
  <2> QED
    BY <1>3, <1>5, <2>2
<1>6. ASSUME NEW n \in Node, SyncBegin(n)
      PROVE  SyncsSound'
  <2> DEFINE s == [NoSync EXCEPT !.phase = "ask"]
  <2>1. SyncSound(n, s)
    BY <1>6, FreshSync DEF SyncBegin, SyncSound, Sync, Phases
  <2> QED
    BY <1>3, <1>6, <2>1 DEF SyncBegin
<1>7. ASSUME NEW n \in Node, sync[n].phase # "idle"
      PROVE  Peers[n] # <<>> /\ SyncSound(n, sync[n]) /\ Peer(n) \in Node
  BY <1>1, <1>7, PeerType DEF SyncsSound, SyncSound, Peer
<1>8. ASSUME NEW n \in Node, Ask(n)
      PROVE  SyncsSound'
  <2> DEFINE J == journal[Peer(n)]
             c == IF sync[n].ceiling = -1 THEN High(J) ELSE sync[n].ceiling
             page == Slice(J, sync[n].cursor, c)
             s == [sync[n] EXCEPT !.phase = "page", !.ceiling = c, !.page = page]
  <2>1. Peers[n] # <<>> /\ SyncSound(n, sync[n]) /\ Peer(n) \in Node
    BY <1>7, <1>8 DEF Ask
  <2>2. page \in SUBSET Row /\ IsFiniteSet(page) /\ Events(page) \subseteq Everything
    BY <2>1, SliceStored
  <2>3. c \in Nat
    BY <2>1, JournalType, FS_CardinalityType DEF High, SyncSound, Sync
  <2>4. SyncSound(n, s)
    <3> HIDE DEF c, page
    <3> QED
      BY <2>1, <2>2, <2>3 DEF SyncSound, Sync, Phases
  <2> QED
    BY <1>3, <1>8, <2>4 DEF Ask
<1>9. ASSUME NEW n \in Node, Take(n)
      PROVE  SyncsSound'
  <2> DEFINE k == NextCursor(sync[n].cursor, sync[n].ceiling)
             s == IF k < sync[n].ceiling
                  THEN [sync[n] EXCEPT !.phase = "ask", !.cursor = k, !.page = {}]
                  ELSE [sync[n] EXCEPT !.phase = "push", !.cursor = 0, !.page = {},
                                       !.ceiling = High(journal'[n])]
  <2>1. Peers[n] # <<>> /\ SyncSound(n, sync[n])
    BY <1>7, <1>9 DEF Take
  <2>2. k < sync[n].ceiling => k \in Nat
    BY <2>1, ConstantsAssumption DEF NextCursor, SyncSound, Sync
  <2>3. High(journal'[n]) \in Nat
    BY JournalSteps, JournalsGrow, FS_CardinalityType DEF High
  <2>4. IsFiniteSet({}) /\ Events({}) = {}
    BY FS_EmptySet DEF Events
  <2>5. SyncSound(n, s)
    <3> HIDE DEF k
    <3> QED
      BY <2>1, <2>2, <2>3, <2>4 DEF SyncSound, Sync, Phases
  <2> QED
    BY <1>3, <1>9, <2>5 DEF Take
<1>10. ASSUME NEW n \in Node, Push(n)
       PROVE  SyncsSound'
  <2> DEFINE k == sync[n].cursor + 1
             s == [sync[n] EXCEPT !.phase = "posted", !.cursor = k]
  <2>1. Peers[n] # <<>> /\ SyncSound(n, sync[n])
    BY <1>7, <1>10 DEF Push
  <2>2. k \in Nat
    BY <2>1 DEF SyncSound, Sync
  <2>3. sync' = [sync EXCEPT ![n] = s]
    BY <1>10 DEF Push
  <2>4. SyncSound(n, s)
    <3> HIDE DEF k
    <3> QED
      BY <2>1, <2>2 DEF SyncSound, Sync, Phases
  <2> HIDE DEF s
  <2> QED
    BY <1>3, <2>3, <2>4
<1>11. ASSUME NEW n \in Node, FirstTurnEnds(n)
       PROVE  SyncsSound'
  BY <1>5, <1>7, <1>11 DEF FirstTurnEnds, Pushed, Phases
<1>12. ASSUME NEW n \in Node, TurnDone(n)
       PROVE  SyncsSound'
  <2> DEFINE s == [NoSync EXCEPT !.phase = "ask", !.turn = 2, !.peer = sync[n].peer]
  <2>1. Peers[n] # <<>> /\ SyncSound(n, sync[n])
    BY <1>1, <1>12 DEF TurnDone, IInv, PeersConfigured, SyncsSound
  <2>2. SyncSound(n, s)
    BY <2>1, FreshSync DEF SyncSound, Sync, Phases
  <2> QED
    BY <1>3, <1>12, <2>2 DEF TurnDone
<1>13. ASSUME NEW n \in Node, SecondTurnEnds(n)
       PROVE  SyncsSound'
  <2>1. Peers[n] # <<>> /\ SyncSound(n, sync[n])
    BY <1>7, <1>13 DEF SecondTurnEnds, Pushed
  <2>2. CASE sync[n].peer < Len(Peers[n])
    <3> DEFINE q == sync[n].peer + 1
               s == [NoSync EXCEPT !.phase = "ask", !.peer = q]
    <3>1. q \in 1..Len(Peers[n]) /\ q \in Nat \ {0}
      BY <2>1, <2>2, PeerType
    <3>2. sync' = [sync EXCEPT ![n] = s]
      BY <1>13, <2>2 DEF SecondTurnEnds
    <3>3. SyncSound(n, s)
      <4> HIDE DEF q
      <4> QED
        BY <2>1, <3>1, FreshSync DEF SyncSound, Sync, Phases
    <3> HIDE DEF s
    <3> QED
      BY <1>3, <3>2, <3>3
  <2>3. CASE ~(sync[n].peer < Len(Peers[n]))
    <3> DEFINE s == [NoSync EXCEPT !.phase = "done", !.peer = sync[n].peer]
    <3>1. SyncSound(n, s)
      BY <2>1, FreshSync DEF SyncSound, Sync, Phases
    <3> QED
      BY <1>3, <1>13, <2>3, <3>1 DEF SecondTurnEnds
  <2> QED
    BY <2>2, <2>3
<1>14. ASSUME NEW p \in wire, Receive(p) \/ Answer(p) \/ Refuse(p)
       PROVE  SyncsSound'
  <2>1. p.from \in Node /\ Peers[p.from] # <<>>
    BY Parts DEF WireSound, Post
  <2>2. CASE Answer(p)
    BY <1>2, <1>5, <2>1, <2>2 DEF Answer, Resume, Phases
  <2>3. CASE Refuse(p)
    BY <1>2, <1>4, <2>1, <2>3 DEF Refuse, Failed
  <2> QED
    BY <1>2, <1>14, <2>2, <2>3 DEF Receive
<1>15. ASSUME NEW n \in Node, Exchange(n)
       PROVE  SyncsSound'
  BY <1>4, <1>8, <1>9, <1>10, <1>11, <1>12, <1>13, <1>15 DEF Exchange, TakeRefused, Failed
<1>16. ASSUME NEW n \in Node, Crash(n) \/ Timeout(n)
       PROVE  SyncsSound'
  BY <1>4, <1>16 DEF Crash, Timeout, Failed
<1>17. ASSUME NEW n \in Node, Start(n) \/ Verify(n) \/ StartDone(n)
       PROVE  SyncsSound'
  BY <1>2, <1>17 DEF Start, Verify, StartDone
<1>18. ASSUME NEW t \in Task, Submit(t)
       PROVE  SyncsSound'
  BY <1>2, <1>18 DEF Submit
<1> QED
  BY <1>2, <1>6, <1>14, <1>15, <1>16, <1>17, <1>18 DEF Next, Serve, vars

LEMMA WireKept ==
    ASSUME IInv, [Next]_vars
    PROVE  WireSound'
<1>1. WireSound /\ Everything \subseteq Everything'
  BY Parts, JournalSteps, JournalsGrow
<1>2. ASSUME wire' \subseteq wire
      PROVE  WireSound'
  BY <1>1, <1>2 DEF WireSound
<1>3. ASSUME NEW n \in Node, NEW posts \in SUBSET wire, wire' = Orphaned(n, posts)
      PROVE  WireSound'
  <2>1. SUFFICES ASSUME NEW p \in posts, NEW q \in {p, [p EXCEPT !.live = FALSE]}
                 PROVE  q \in Post /\ q.event \in Everything' /\ Peers[q.from] # <<>>
    BY <1>3 DEF WireSound, Orphaned
  <2>2. p \in Post /\ p.event \in Everything' /\ Peers[p.from] # <<>>
    BY <1>1, <1>3 DEF WireSound
  <2>3. q.event = p.event /\ q.from = p.from /\ q \in Post
    BY <2>2 DEF Post
  <2> QED
    BY <2>2, <2>3
<1>4. ASSUME NEW n \in Node, Push(n)
      PROVE  WireSound'
  <2>1. PICK r \in journal[n] :
          wire' = wire \cup {[from |-> n, to |-> Peer(n), event |-> r.event,
                              live |-> TRUE, taken |-> FALSE]}
    BY <1>4 DEF Push
  <2> DEFINE q == [from |-> n, to |-> Peer(n), event |-> r.event,
                   live |-> TRUE, taken |-> FALSE]
  <2>2. Peers[n] # <<>>
    BY <1>4 DEF Push, IInv, PeersConfigured
  <2>3. Peer(n) \in Node
    BY <2>2, PeerType DEF Peer
  <2>4. r.event \in Event /\ r.event \in Everything
    BY <2>1, JournalType DEF Row, Everything, Events
  <2>5. q \in Post /\ q.event = r.event /\ q.from = n
    BY <2>3, <2>4 DEF Post
  <2> QED
    BY <1>1, <2>1, <2>2, <2>4, <2>5 DEF WireSound
<1>5. ASSUME NEW p \in wire, Receive(p)
      PROVE  WireSound'
  <2> DEFINE q == [p EXCEPT !.taken = TRUE]
  <2>1. p \in Post /\ p.event \in Everything /\ Peers[p.from] # <<>>
    BY <1>1 DEF WireSound
  <2>2. q \in Post /\ q.event = p.event /\ q.from = p.from
    BY <2>1 DEF Post
  <2>3. wire' = (wire \ {p}) \cup {q}
    BY <1>5 DEF Receive
  <2> QED
    BY <1>1, <2>1, <2>2, <2>3 DEF WireSound
<1>6. ASSUME NEW n \in Node, Crash(n) \/ Timeout(n)
      PROVE  WireSound'
  <2>1. {p \in wire : p.to # n} \in SUBSET wire /\ wire \in SUBSET wire
    OBVIOUS
  <2> QED
    BY <1>3, <1>6, <2>1 DEF Crash, Timeout
<1>7. ASSUME NEW n \in Node, Exchange(n)
      PROVE  WireSound'
  BY <1>2, <1>4, <1>7 DEF Exchange, Ask, Take, TakeRefused, FirstTurnEnds, TurnDone,
                          SecondTurnEnds
<1>8. ASSUME NEW n \in Node, Serve(n)
      PROVE  WireSound'
  BY <1>2, <1>5, <1>8 DEF Serve, Verify, StartDone, Answer, Refuse
<1>9. ASSUME NEW n \in Node, Start(n) \/ SyncBegin(n)
      PROVE  WireSound'
  BY <1>2, <1>9 DEF Start, SyncBegin
<1> QED
  BY <1>2, <1>6, <1>7, <1>8, <1>9 DEF Next, Submit, vars

LEMMA HandlersKept ==
    ASSUME IInv, [Next]_vars
    PROVE  HandlersSound'
<1>1. HandlersSound
  BY Parts
<1>2. ASSUME handler' = handler
      PROVE  HandlersSound'
  BY <1>1, <1>2 DEF HandlersSound
<1>3. ASSUME NEW n \in Node, NEW h \in Handlers, h = "turn" => Peers[n] # <<>>,
             handler' = [handler EXCEPT ![n] = h]
      PROVE  HandlersSound'
  BY <1>1, <1>3 DEF HandlersSound
<1>4. /\ {"down", "listen", "start", "post", "turn"} \subseteq Handlers
      /\ "turn" \notin {"down", "listen", "start", "post"}
  BY DEF Handlers
<1>5. ASSUME NEW n \in Node, Start(n) \/ Crash(n) \/ StartDone(n)
      PROVE  HandlersSound'
  BY <1>3, <1>4, <1>5 DEF Start, Crash, StartDone
<1>6. ASSUME NEW n \in Node, FirstTurnEnds(n)
      PROVE  HandlersSound'
  <2>1. Peers[n] # <<>>
    BY <1>6 DEF FirstTurnEnds, Pushed, IInv, PeersConfigured
  <2> QED
    BY <1>3, <1>4, <1>6, <2>1 DEF FirstTurnEnds
<1>7. ASSUME NEW n \in Node, TurnDone(n)
      PROVE  HandlersSound'
  BY <1>3, <1>4, <1>7 DEF TurnDone
<1>8. ASSUME NEW n \in Node, Exchange(n)
      PROVE  HandlersSound'
  BY <1>2, <1>6, <1>7, <1>8 DEF Exchange, Ask, Take, TakeRefused, Push, SecondTurnEnds
<1>9. ASSUME NEW p \in wire, Receive(p) \/ Answer(p) \/ Refuse(p)
      PROVE  HandlersSound'
  <2>1. p.to \in Node
    BY Parts DEF WireSound, Post
  <2> QED
    BY <1>2, <1>3, <1>4, <1>9, <2>1 DEF Receive, Answer, Refuse
<1>10. ASSUME NEW n \in Node, SyncBegin(n) \/ Timeout(n) \/ Verify(n)
       PROVE  HandlersSound'
  BY <1>2, <1>10 DEF SyncBegin, Timeout, Verify
<1> QED
  BY <1>2, <1>5, <1>8, <1>9, <1>10 DEF Next, Serve, Submit, vars

LEMMA DueKept ==
    ASSUME IInv, [Next]_vars
    PROVE  due' \in [Node -> Seq(SUBSET Event)]
<1> DEFINE Due == [Node -> Seq(SUBSET Event)]
<1>1. due \in Due
  BY Parts
<1>2. \A n, m \in Node : Both(n, m) \in SUBSET Event
  BY JournalType DEF Both, Events, Row
<1>3. ASSUME NEW n \in Node, NEW s \in Seq(SUBSET Event), due' = [due EXCEPT ![n] = s]
      PROVE  due' \in Due
  BY <1>1, <1>3
<1>4. <<>> \in Seq(SUBSET Event)
  OBVIOUS
<1>5. ASSUME NEW n \in Node, Failed(n) \/ Crash(n)
      PROVE  due' \in Due
  BY <1>3, <1>4, <1>5 DEF Failed, Crash
<1>6. ASSUME NEW n \in Node, SyncBegin(n)
      PROVE  due' \in Due
  <2>1. Peers[n][1] \in Node
    BY <1>6, PeerType DEF SyncBegin
  <2>2. <<Both(n, Peers[n][1])>> \in Seq(SUBSET Event)
    BY <1>2, <2>1
  <2> QED
    BY <1>3, <1>6, <2>2 DEF SyncBegin
<1>7. ASSUME NEW n \in Node, SecondTurnEnds(n)
      PROVE  due' \in Due
  <2> DEFINE k == sync[n].peer + 1
  <2>1. Peers[n] # <<>>
    BY <1>7 DEF SecondTurnEnds, Pushed, IInv, PeersConfigured
  <2>2. CASE sync[n].peer < Len(Peers[n])
    <3>1. Peers[n][k] \in Node
      BY <2>1, <2>2, PeerType
    <3>2. Both(n, Peers[n][k]) \in SUBSET Event
      BY <1>2, <3>1
    <3>3. Append(due[n], Both(n, Peers[n][k])) \in Seq(SUBSET Event)
      BY <1>1, <3>2
    <3> QED
      BY <1>3, <1>7, <2>2, <3>3 DEF SecondTurnEnds
  <2>3. CASE ~(sync[n].peer < Len(Peers[n]))
    BY <1>1, <1>7, <2>3 DEF SecondTurnEnds
  <2> QED
    BY <2>2, <2>3
<1>8. ASSUME NEW n \in Node, Exchange(n) \/ Timeout(n) \/ Start(n)
      PROVE  due' \in Due
  BY <1>1, <1>5, <1>7, <1>8 DEF Exchange, Ask, Take, TakeRefused, Push, FirstTurnEnds,
                                TurnDone, Timeout, Start
<1>9. ASSUME NEW n \in Node, Serve(n)
      PROVE  due' \in Due
  <2>1. \A p \in wire : p.from \in Node
    BY Parts DEF WireSound, Post
  <2> QED
    BY <1>1, <1>5, <1>9, <2>1 DEF Serve, Verify, StartDone, Receive, Answer, Refuse
<1> QED
  BY <1>1, <1>5, <1>6, <1>8, <1>9 DEF Next, Submit, vars

LEMMA FaultsKept ==
    ASSUME IInv, [Next]_vars
    PROVE  faults' \in 0..MaxFaults
<1>1. faults \in 0..MaxFaults /\ MaxFaults \in Nat
  BY ConstantsAssumption, Parts
<1>2. faults' = faults \/ (faults < MaxFaults /\ faults' = faults + 1)
  BY ZenonT(60) DEF Next, Start, Crash, SyncBegin, Timeout, Exchange, Ask, Take, TakeRefused, Push,
         FirstTurnEnds, TurnDone, SecondTurnEnds, Serve, Verify, StartDone, Receive,
         Answer, Refuse, Submit, vars
<1> QED
  BY <1>1, <1>2

-----------------------------------------------------------------------------
(* The invariant, and what follows from it.                                 *)

LEMMA InitInvariant ==
    ASSUME Init
    PROVE  IInv
<1>1. \A n \in Node : Events(journal[n]) = {}
  BY DEF Init, Events
<1>2. Everything = {}
  BY <1>1 DEF Everything
<1>3. Sound
  BY <1>1, <1>2 DEF Sound, SignersRemember, TasksFirst, NoEquivocation, SaidOnce
<1>4. IsFiniteSet({}) /\ Events({}) = {}
  BY FS_EmptySet DEF Events
<1>5. SyncsSound
  <2>1. NoSync \in Sync /\ NoSync.page = {} /\ NoSync.peer = 1 /\ NoSync.phase = "idle"
    BY DEF NoSync, Sync, Phases
  <2>2. \A n \in Node : Peers[n] # <<>> => 1 \in 1..Len(Peers[n])
    BY ConstantsAssumption
  <2> QED
    BY <1>4, <2>1, <2>2 DEF Init, SyncsSound, SyncSound
<1>6. WireSound /\ HandlersSound
  BY DEF Init, WireSound, HandlersSound, Handlers
<1>7. /\ journal \in [Node -> SUBSET Row]
      /\ \A n \in Node : IsFiniteSet(journal[n])
      /\ faults \in 0..MaxFaults
      /\ due \in [Node -> Seq(SUBSET Event)]
  BY <1>4, ConstantsAssumption DEF Init
<1> QED
  BY <1>3, <1>5, <1>6, <1>7, Parts

LEMMA StepInvariant ==
    ASSUME IInv, [Next]_vars
    PROVE  IInv'
<1>1. /\ journal' \in [Node -> SUBSET Row]
      /\ \A n \in Node : IsFiniteSet(journal'[n])
      /\ Sound'
  BY JournalSteps, JournalsGrow, SoundKept
<1>2. SyncsSound' /\ WireSound' /\ HandlersSound'
  BY SyncsKept, WireKept, HandlersKept
<1>3. faults' \in 0..MaxFaults /\ due' \in [Node -> Seq(SUBSET Event)]
  BY FaultsKept, DueKept
<1> QED
  BY <1>1, <1>2, <1>3 DEF IInv, TypeOK, Finite, PeersConfigured, InHandStored, Sound,
                          SyncsSound, SyncSound, WireSound, HandlersSound

\* The invariant holds throughout: in particular a node's own journal always
\* tells it what it has signed, after a crash too.
THEOREM Invariance == Spec => []IInv
<1>1. Init => IInv
  BY InitInvariant
<1>2. IInv /\ [Next]_vars => IInv'
  BY StepInvariant
<1> QED
  BY <1>1, <1>2, PTL DEF Spec

\* The nodes' state has its types: a node never exchanges with a peer it does
\* not have, and never posts what is no event.
THEOREM TypeCorrect == Spec => []TypeOK
BY Invariance, PTL DEF IInv

\* No signer ever fills a sequence number twice, although the owner signs
\* from two processes and workers sign again after a crash.
THEOREM EquivocationFree == Spec => []NoEquivocation
BY Invariance, PTL DEF IInv

\* However often it crashes, is asked to sync or sees the same submission
\* again, no node advertises, submits or answers the same thing twice.
THEOREM NothingSaidTwice == Spec => []SaidOnce
BY Invariance, PTL DEF IInv

-----------------------------------------------------------------------------
(* The nodes implement EventSet.                                            *)

held == [n \in Node |-> Events(journal[n])]

LEMMA HeldType ==
    ASSUME IInv
    PROVE  /\ held \in [Node -> SUBSET Event]
           /\ Abstract!Anywhere = Everything
BY JournalType DEF held, Abstract!Anywhere, Everything, Events, Row

LEMMA StepImplements ==
    ASSUME IInv, IInv', [Next]_vars
    PROVE  [Abstract!Next]_held
<1>1. JournalStep
  BY JournalSteps
<1>2. held' \in [Node -> SUBSET Event]
  <2>1. \A n \in Node : journal'[n] \in SUBSET Row
    BY DEF IInv, TypeOK
  <2>2. \A n \in Node : Events(journal'[n]) \in SUBSET Event
    BY <2>1 DEF Events, Row
  <2> QED
    BY <2>2 DEF held
<1>3. CASE journal' = journal
  BY <1>3 DEF held
<1>4. ASSUME NEW n \in Node, NEW R, Stores(n, R), Copied(R) \/ Signed(n, R)
      PROVE  Abstract!Next
  <2>1. /\ held'[n] = held[n] \cup Events(R)
        /\ \A m \in Node \ {n} : held'[m] = held[m]
    BY <1>4, StoredFacts DEF held
  <2>2. held[n] \subseteq held'[n] /\ Abstract!New(n) \subseteq Events(R)
        /\ Abstract!Elsewhere(n)
    BY <2>1 DEF held, Abstract!New, Abstract!Elsewhere
  <2>3. CASE Copied(R)
    <3>1. Abstract!Learn(n)
      BY <2>2, <2>3, HeldType DEF held, Abstract!Learn, Copied
    <3> QED
      BY <1>2, <3>1 DEF held, Abstract!Next
  <2>4. CASE Signed(n, R)
    <3>1. \A e \in Everything : e \in Events(journal[e.actor])
      BY DEF IInv, SignersRemember
    <3>2. \A e \in Events(R) : e.actor = n /\
            \A f \in Everything \cup Events(R) : Abstract!SameSlot(e, f) => e = f
      BY <2>4, <3>1 DEF Signed, Abstract!SameSlot
    <3>3. Abstract!Sign(n)
      BY <2>2, <3>2, HeldType DEF held, Abstract!Sign
    <3> QED
      BY <1>2, <3>3 DEF held, Abstract!Next
  <2> QED
    BY <1>4, <2>3, <2>4
<1> QED
  BY <1>1, <1>3, <1>4 DEF JournalStep

\* Whatever nodes crash, lose or repeat, their journals are sets that only
\* grow, into which an event enters at its signer and from there spreads.
THEOREM Implementation == Spec => SpreadsFromSigners
<1>1. Init => Abstract!Init
  BY DEF Init, Abstract!Init, Events
<1>2. IInv /\ IInv' /\ [Next]_vars => [Abstract!Next]_held
  BY StepImplements
<1> QED
  BY <1>1, <1>2, Invariance, PTL DEF Spec, SpreadsFromSigners, Abstract!Spec, held

-----------------------------------------------------------------------------
(* The exchange: the order in which events are stored, and what a /sync     *)
(* request that was answered has achieved.  First what holds throughout.    *)

\* Positions tell rows apart and end with the journal.
Placed(J) ==
    \A r \in J : /\ r.position <= High(J)
                 /\ \A q \in J : q.position = r.position => q = r

\* What an event refers to is in J, or before it in R.
Follows(J, R) ==
    \A r \in R : \A kind \in Before(r.event.kind) :
        \/ Has(J, kind, r.event.task)
        \/ \E q \in R : /\ q.position < r.position
                        /\ q.event.kind = kind
                        /\ q.event.task = r.event.task

UpTo(J, k) == {r \in J : r.position <= k}

There(n) == journal[Peer(n)]

\* A pull has stored the peer's journal up to its cursor, and the page in hand is
\* what follows there.
PullSound(n) ==
    sync[n].phase \in {"ask", "page"} =>
        /\ IF sync[n].ceiling = -1 THEN sync[n].cursor = 0 /\ sync[n].phase = "ask"
           ELSE sync[n].cursor <= sync[n].ceiling /\ sync[n].ceiling <= High(There(n))
        /\ Events(UpTo(There(n), sync[n].cursor)) \subseteq Events(journal[n])
        /\ sync[n].phase = "page" =>
            sync[n].page = Slice(There(n), sync[n].cursor, sync[n].ceiling)

\* A push has brought the journal to the peer up to its cursor, but for the event
\* that is on its way.
PushSound(n) ==
    sync[n].phase \in {"push", "posted"} =>
        /\ sync[n].cursor <= sync[n].ceiling
        /\ sync[n].ceiling <= High(journal[n])
        /\ \A r \in journal[n] :
            /\ r.position <= sync[n].cursor
            /\ sync[n].phase = "posted" => r.position # sync[n].cursor
            => r.event \in Events(There(n))

\* A post finds its parents at the receiver; one that is still waited for is the
\* only one of its sender, and carries the event at the sender's cursor.
PostSound(p) ==
    /\ \A kind \in Before(p.event.kind) : Has(journal[p.to], kind, p.event.task)
    /\ p.taken => p.event \in Events(journal[p.to])
    /\ p.live =>
        /\ sync[p.from].phase = "posted"
        /\ p.to = Peer(p.from)
        /\ \A r \in journal[p.from] : r.position = sync[p.from].cursor => r.event = p.event
        /\ \A q \in wire : q.live /\ q.from = p.from => q = p

\* n has answered in J each request of D that it can verify.
Receipted(n, D, J) ==
    \A e \in D : e.kind = "verification_request" /\ <<n, e.task>> \in Verifiable
        => Answered(n, J, e.task)

Full(n) == High(journal[n]) >= Capacity

\* How far the running exchange has come with what was due when it began.
DueSound(n) ==
    sync[n].phase # "idle" =>
        LET d == due[n][sync[n].peer]
            here == IF sync[n].phase \in {"push", "posted"}
                    THEN UpTo(journal[n], sync[n].ceiling) ELSE journal[n]
        IN  /\ sync[n].phase \in {"ask", "page"} =>
                d \subseteq Events(journal[n]) \cup
                            Events(IF sync[n].ceiling = -1 THEN There(n)
                                   ELSE UpTo(There(n), sync[n].ceiling))
            /\ sync[n].phase \in {"push", "posted"} => d \subseteq Events(here)
            /\ sync[n].phase = "work" \/ sync[n].turn = 2 =>
                d \subseteq Events(journal[n]) \cap Events(There(n))
            /\ sync[n].turn = 2 => Full(n) \/ Receipted(n, d, here)

\* What the exchange with peer i has achieved.
Promised(n, i) ==
    /\ due[n][i] \subseteq Events(journal[n]) \cap Events(journal[Peers[n][i]])
    /\ Full(n) \/ /\ Receipted(n, due[n][i], journal[n])
                  /\ Receipted(n, due[n][i], journal[Peers[n][i]])

SyncInv(n) ==
    /\ Len(due[n]) = (IF sync[n].phase = "idle" THEN 0 ELSE sync[n].peer)
    /\ handler[n] = "turn" => sync[n].phase = "work"
    /\ PullSound(n)
    /\ PushSound(n)
    /\ DueSound(n)
    /\ \A i \in Concluded(n) : Promised(n, i)

ExchangeInv ==
    /\ IInv
    /\ \A n \in Node : Placed(journal[n])
    /\ CausalOrder
    /\ \A n \in Node : SyncInv(n)
    /\ \A p \in wire : PostSound(p)

-----------------------------------------------------------------------------
(* Where rows are stored.                                                   *)

Apart(R) == \A q, r \in R : q.position = r.position => q = r

\* Ranks count up with positions.
LEMMA RankFacts ==
    ASSUME NEW U \in SUBSET Row, IsFiniteSet(U)
    PROVE  /\ Cardinality(U) \in Nat
           /\ \A r \in U : Rank(r, U) \in 1..Cardinality(U)
           /\ \A q, r \in U : q.position < r.position => Rank(q, U) < Rank(r, U)
<1> DEFINE B(r) == {q \in U : q.position <= r.position}
<1>1. Cardinality(U) \in Nat
  BY FS_CardinalityType
<1>2. \A r \in U : r.position \in Nat
  BY DEF Row
<1>3. ASSUME NEW r \in U
      PROVE  /\ IsFiniteSet(B(r)) /\ Cardinality(B(r)) \in Nat
             /\ Cardinality(B(r)) # 0 /\ Cardinality(B(r)) <= Cardinality(U)
             /\ Rank(r, U) = Cardinality(B(r))
  <2>1. IsFiniteSet(B(r)) /\ Cardinality(B(r)) <= Cardinality(U)
    BY FS_Subset
  <2>2. r \in B(r)
    BY <1>2
  <2>3. Cardinality(B(r)) \in Nat /\ Cardinality(B(r)) # 0
    BY <2>1, <2>2, FS_CardinalityType, FS_EmptySet
  <2> QED
    BY <2>1, <2>3 DEF Rank
<1>4. ASSUME NEW q \in U, NEW r \in U, q.position < r.position
      PROVE  Rank(q, U) < Rank(r, U)
  <2>1. B(q) \in SUBSET B(r)
    BY <1>2, <1>4
  <2>2. r \in B(r) /\ r \notin B(q)
    BY <1>2, <1>4
  <2>3. Cardinality(B(q)) <= Cardinality(B(r)) /\ Cardinality(B(r)) # Cardinality(B(q))
    BY <1>3, <2>1, <2>2, FS_Subset
  <2> HIDE DEF B
  <2> QED
    BY <1>3, <2>3
<1>5. \A r \in U : Rank(r, U) \in 1..Cardinality(U)
  <2> HIDE DEF B
  <2> QED
    BY <1>1, <1>3
<1> QED
  BY <1>1, <1>4, <1>5

\* New rows go behind all that are there, each to a position of its own.
LEMMA AppendedPlaced ==
    ASSUME NEW J \in SUBSET Row, IsFiniteSet(J), Placed(J),
           NEW R \in SUBSET Row, IsFiniteSet(R), Apart(R)
    PROVE  /\ Placed(Appended(J, R))
           /\ High(J) \in Nat /\ High(J) <= High(Appended(J, R))
           /\ \A r \in Appended(J, R) : r \notin J => High(J) < r.position
<1> DEFINE U == Unseen(J, R)
           moved == [r \in U |-> [position |-> High(J) + Rank(r, U), event |-> r.event]]
           N == {moved[r] : r \in U}
<1>1. U \in SUBSET Row /\ IsFiniteSet(U) /\ U \subseteq R
  BY FS_Subset DEF Unseen
<1>2. /\ Cardinality(U) \in Nat
      /\ \A r \in U : Rank(r, U) \in 1..Cardinality(U)
      /\ \A q, r \in U : q.position < r.position => Rank(q, U) < Rank(r, U)
  BY <1>1, RankFacts
<1>3. High(J) \in Nat /\ High(J) = Cardinality(J)
  BY FS_CardinalityType DEF High
<1>4. \A r \in U : /\ moved[r].position = High(J) + Rank(r, U)
                   /\ moved[r].event = r.event
                   /\ moved[r].position > High(J)
                   /\ moved[r].position <= High(J) + Cardinality(U)
  BY <1>2, <1>3
<1>5. \A q, r \in U : q # r => moved[q].position # moved[r].position
  <2> SUFFICES ASSUME NEW q \in U, NEW r \in U, q # r
               PROVE  moved[q].position # moved[r].position
    OBVIOUS
  <2>1. q.position \in Nat /\ r.position \in Nat /\ q.position # r.position
    BY <1>1 DEF Apart, Row
  <2>2. Rank(q, U) < Rank(r, U) \/ Rank(r, U) < Rank(q, U)
    BY <1>2, <2>1
  <2>3. Rank(q, U) # Rank(r, U)
    BY <1>2, <2>2
  <2> HIDE DEF moved
  <2> QED
    BY <1>2, <1>3, <1>4, <2>3
<1>6. IsFiniteSet(N) /\ Cardinality(N) = Cardinality(U)
  <2>1. moved \in Surjection(U, N)
    BY DEF Surjection
  <2>2. moved \in Injection(U, N)
    <3>1. moved \in [U -> N]
      OBVIOUS
    <3>2. \A q, r \in U : moved[q] = moved[r] => q = r
      <4> HIDE DEF moved
      <4> QED
        BY <1>5
    <3> HIDE DEF moved, N
    <3> QED
      BY <3>1, <3>2 DEF Injection, IsInjective
  <2>3. ExistsBijection(U, N)
    BY <2>1, <2>2 DEF ExistsBijection, Bijection
  <2> HIDE DEF moved, N
  <2> QED
    BY <1>1, <2>3, FS_Bijection
<1>7. Appended(J, R) = J \cup N
  BY DEF Appended
<1>8. J \cap N = {}
  <2> SUFFICES ASSUME NEW r \in U, moved[r] \in J PROVE FALSE
    OBVIOUS
  <2> HIDE DEF moved
  <2>1. moved[r].position <= High(J) /\ moved[r].position \in Nat
    BY DEF Placed, Row
  <2> QED
    BY <1>3, <1>4, <2>1
<1>9. High(Appended(J, R)) = High(J) + Cardinality(U)
  <2>1. Cardinality(J \cup N) = Cardinality(J) + Cardinality(N) - Cardinality(J \cap N)
    BY <1>6, FS_Union
  <2>2. Cardinality(J \cap N) = 0
    BY <1>8, FS_EmptySet
  <2> HIDE DEF N
  <2> QED
    BY <1>2, <1>3, <1>6, <1>7, <2>1, <2>2 DEF High
<1>10. Placed(J \cup N)
  <2> SUFFICES ASSUME NEW r \in J \cup N, NEW q \in J \cup N
               PROVE  /\ r.position <= High(J) + Cardinality(U)
                      /\ q.position = r.position => q = r
    BY <1>7, <1>9 DEF Placed
  <2>1. \A p \in J : p.position <= High(J) /\ p.position \in Nat
    BY DEF Placed, Row
  <2>2. CASE r \in J /\ q \in J
    BY <1>2, <1>3, <2>1, <2>2 DEF Placed
  <2>3. CASE r \in J /\ q \in N
    BY <1>2, <1>3, <1>4, <2>1, <2>3
  <2>4. CASE r \in N /\ q \in J
    BY <1>2, <1>3, <1>4, <2>1, <2>4
  <2>5. CASE r \in N /\ q \in N
    BY <1>4, <1>5, <2>5
  <2> QED
    BY <2>2, <2>3, <2>4, <2>5
<1>11. \A r \in N : High(J) < r.position
  BY <1>3, <1>4
<1> QED
  BY <1>2, <1>3, <1>7, <1>9, <1>10, <1>11

\* An order in which all refers back is kept when rows are stored that refer back.
LEMMA AppendedFollows ==
    ASSUME NEW J \in SUBSET Row, IsFiniteSet(J), Placed(J), Follows({}, J),
           NEW R \in SUBSET Row, IsFiniteSet(R), Follows(J, R)
    PROVE  Follows({}, Appended(J, R))
<1> DEFINE U == Unseen(J, R)
           at(r) == [position |-> High(J) + Rank(r, U), event |-> r.event]
<1>1. U \in SUBSET Row /\ IsFiniteSet(U) /\ U \subseteq R
  BY FS_Subset DEF Unseen
<1>2. /\ Cardinality(U) \in Nat
      /\ \A r \in U : Rank(r, U) \in 1..Cardinality(U)
      /\ \A q, r \in U : q.position < r.position => Rank(q, U) < Rank(r, U)
  BY <1>1, RankFacts
<1>3. High(J) \in Nat /\ \A q \in J : q.position \in Nat /\ q.position <= High(J)
  BY FS_CardinalityType DEF High, Placed, Row
<1>4. Appended(J, R) = J \cup {at(r) : r \in U}
  BY DEF Appended
<1>5. SUFFICES ASSUME NEW r \in Appended(J, R), NEW kind \in Before(r.event.kind)
               PROVE  \E q \in Appended(J, R) : /\ q.position < r.position
                                                /\ q.event.kind = kind
                                                /\ q.event.task = r.event.task
  BY DEF Follows
<1>6. CASE r \in J
  <2>1. ~Has({}, kind, r.event.task)
    BY DEF Has, Events
  <2> QED
    BY <1>4, <1>5, <1>6, <2>1 DEF Follows
<1>7. ASSUME NEW u \in U, r = at(u)
      PROVE  \E q \in Appended(J, R) : /\ q.position < r.position
                                       /\ q.event.kind = kind
                                       /\ q.event.task = r.event.task
  <2>1. r.event = u.event /\ r.position = High(J) + Rank(u, U) /\ u \in R
    BY <1>1, <1>7
  <2>2. High(J) < r.position
    BY <1>2, <1>3, <2>1
  <2> HIDE DEF at
  <2>3. CASE Has(J, kind, r.event.task)
    <3>1. PICK q \in J : q.event.kind = kind /\ q.event.task = r.event.task
      BY <2>3 DEF Has, Events
    <3>2. q.position < r.position
      BY <1>2, <1>3, <2>1, <2>2
    <3> QED
      BY <1>4, <3>1, <3>2
  <2>4. CASE ~Has(J, kind, r.event.task)
    <3>1. PICK q \in R : /\ q.position < u.position
                         /\ q.event.kind = kind
                         /\ q.event.task = r.event.task
      BY <1>5, <2>1, <2>4 DEF Follows
    <3>2. q \in U
      BY <2>4, <3>1 DEF Unseen, Has
    <3>3. Rank(q, U) < Rank(u, U)
      BY <1>2, <3>1, <3>2
    <3>4. at(q) \in Appended(J, R) /\ at(q).event = q.event
          /\ at(q).position = High(J) + Rank(q, U)
      BY <1>4, <3>2 DEF at
    <3>5. at(q).position < r.position
      BY <1>2, <1>3, <2>1, <3>2, <3>3, <3>4
    <3> QED
      BY <3>1, <3>4, <3>5
  <2> QED
    BY <2>3, <2>4
<1> QED
  BY <1>4, <1>6, <1>7

-----------------------------------------------------------------------------
(* What a step stores: rows told apart, each behind what it refers to.      *)

Supplies(n, R) == Stores(n, R) /\ Apart(R) /\ Follows(journal[n], R)

SupplyStep ==
    \/ journal' = journal
    \/ \E n \in Node : \E R : Supplies(n, R)

\* One event that finds what it refers to.
LEMMA SupplyOne ==
    ASSUME NEW n \in Node, NEW e \in Event,
           \A kind \in Before(e.kind) : Has(journal[n], kind, e.task),
           journal' = [journal EXCEPT ![n] = Appended(@, Batch(<<e>>))]
    PROVE  SupplyStep
<1> DEFINE R == Batch(<<e>>)
<1>1. R \in SUBSET Row /\ IsFiniteSet(R) /\ Events(R) = {e}
  BY BatchOne
<1>2. R = {[position |-> 1, event |-> e]}
  <2>1. 1..Len(<<e>>) = {1} /\ <<e>>[1] = e
    OBVIOUS
  <2> QED
    BY <2>1 DEF Batch
<1>3. Apart(R)
  BY <1>2 DEF Apart
<1>4. Follows(journal[n], R)
  BY <1>2 DEF Follows
<1>5. Stores(n, R)
  BY <1>1 DEF Stores
<1> QED
  BY <1>3, <1>4, <1>5 DEF Supplies, SupplyStep

LEMMA StartSupplies ==
    ASSUME IInv, NEW n \in Node, Start(n)
    PROVE  SupplyStep
<1>1. journal' = [journal EXCEPT ![n] = Appended(@, Advertisement(n, journal[n]))]
  BY DEF Start, IInv, TypeOK
<1>2. CASE Advertised(n, journal[n])
  <2>1. journal' = [journal EXCEPT ![n] = Appended(@, {})]
    BY <1>1, <1>2 DEF Advertisement
  <2>2. {} \in SUBSET Row /\ IsFiniteSet({}) /\ Apart({}) /\ Follows(journal[n], {})
    BY FS_EmptySet DEF Apart, Follows
  <2> QED
    BY <2>1, <2>2 DEF Stores, Supplies, SupplyStep
<1>3. CASE ~Advertised(n, journal[n])
  <2> DEFINE e == Sign(n, journal[n], "capability", NoTask)
  <2>1. NextSequence(n, journal[n]) \in Nat \ {0}
    BY JournalType, NextSequenceFresh
  <2>2. e \in Event /\ e.kind = "capability"
    BY <2>1 DEF Sign, Event, Kinds
  <2>3. Before("capability") = {}
    BY DEF Before
  <2>4. journal' = [journal EXCEPT ![n] = Appended(@, Batch(<<e>>))]
    BY <1>1, <1>3 DEF Advertisement
  <2> HIDE DEF e
  <2> QED
    BY <2>2, <2>3, <2>4, SupplyOne
<1> QED
  BY <1>2, <1>3

LEMMA VerifySupplies ==
    ASSUME IInv, NEW n \in Node, Verify(n)
    PROVE  SupplyStep
<1>1. PICK r \in Owed(n, journal[n]) :
        journal' = [journal EXCEPT ![n] =
            Appended(@, Batch(<<Sign(n, journal[n], "verification", r.event.task)>>))]
  BY DEF Verify, IInv, TypeOK
<1> DEFINE e == Sign(n, journal[n], "verification", r.event.task)
<1>2. r \in journal[n] /\ r \in Row /\ r.event.kind = "verification_request"
      /\ Has(journal[n], "task", r.event.task)
  BY <1>1, JournalType DEF Owed
<1>3. NextSequence(n, journal[n]) \in Nat \ {0}
  BY JournalType, NextSequenceFresh
<1>4. e \in Event /\ e.kind = "verification" /\ e.task = r.event.task
  BY <1>2, <1>3 DEF Sign, Event, Row, Kinds
<1>5. Has(journal[n], "verification_request", r.event.task)
  BY <1>2 DEF Has, Events
<1>6. Before("verification") = {"task", "verification_request"}
  BY DEF Before
<1>7. journal' = [journal EXCEPT ![n] = Appended(@, Batch(<<e>>))]
  BY <1>1
<1> HIDE DEF e
<1> QED
  BY <1>2, <1>4, <1>5, <1>6, <1>7, SupplyOne

\* The request lies behind its task in one batch.
LEMMA SubmitSupplies ==
    ASSUME IInv, NEW t \in Task, Submit(t)
    PROVE  SupplyStep
<1> DEFINE J == journal[Owner]
           k == NextSequence(Owner, J)
           e == [actor |-> Owner, sequence |-> k, kind |-> "task", task |-> t]
           f == [actor |-> Owner, sequence |-> k + 1, kind |-> "verification_request",
                 task |-> t]
           R == Batch(<<e, f>>)
<1>1. Owner \in Node
  BY ConstantsAssumption
<1>2. k \in Nat \ {0}
  BY <1>1, JournalType, NextSequenceFresh
<1>3. Submission(t) = R
  <2>1. Sign(Owner, J, "task", t) = e
    BY DEF Sign
  <2>2. [Sign(Owner, J, "verification_request", t) EXCEPT !.sequence = @ + 1] = f
    BY <1>2 DEF Sign
  <2> HIDE DEF e, f
  <2> QED
    BY <2>1, <2>2 DEF Submission
<1>4. e \in Event /\ f \in Event
  BY <1>1, <1>2 DEF Event, Kinds
<1>5. R \in SUBSET Row /\ IsFiniteSet(R)
  BY <1>4, BatchTwo
<1>6. R = {[position |-> 1, event |-> e], [position |-> 2, event |-> f]}
  <2> HIDE DEF e, f
  <2>1. 1..Len(<<e, f>>) = {1, 2} /\ <<e, f>>[1] = e /\ <<e, f>>[2] = f
    OBVIOUS
  <2> QED
    BY <2>1 DEF Batch
<1>7. Stores(Owner, R)
  BY <1>3, <1>5 DEF Submit, Stores
<1>8. Apart(R)
  <2> HIDE DEF e, f
  <2> QED
    BY <1>6 DEF Apart
<1>9. Follows(J, R)
  <2> DEFINE a == [position |-> 1, event |-> e]
             b == [position |-> 2, event |-> f]
  <2>1. Before(e.kind) = {} /\ Before(f.kind) = {"task"} /\ e.kind = "task" /\ e.task = f.task
    BY DEF Before
  <2>2. R = {a, b} /\ a.position < b.position /\ a.event = e /\ b.event = f
    BY <1>6
  <2> HIDE DEF e, f, a, b, R
  <2> QED
    BY <2>1, <2>2 DEF Follows
<1> QED
  BY <1>1, <1>7, <1>8, <1>9 DEF Supplies, SupplyStep

\* A page continues what has been pulled.
LEMMA TakeSupplies ==
    ASSUME ExchangeInv, NEW n \in Node, Take(n)
    PROVE  SupplyStep
<1> DEFINE R == sync[n].page
           k == sync[n].cursor
           c == sync[n].ceiling
<1>1. R \in SUBSET Row /\ IsFiniteSet(R)
  BY DEF ExchangeInv, IInv, TypeOK, Finite, Sync
<1>2. sync[n].phase = "page" /\ PullSound(n)
  BY DEF Take, ExchangeInv, SyncInv
<1>3. R = Slice(There(n), k, c) /\ Events(UpTo(There(n), k)) \subseteq Events(journal[n])
  BY <1>2 DEF PullSound
<1>4. Peer(n) \in Node
  BY <1>2, PeerType DEF ExchangeInv, IInv, PeersConfigured, Peer
<1>5. There(n) \in SUBSET Row /\ Placed(There(n))
  BY <1>4, JournalType DEF ExchangeInv, There
<1>6. Apart(R)
  BY <1>3, <1>5 DEF Apart, Placed, Slice
<1>7. k \in Nat /\ NextCursor(k, c) \in Int
  BY <1>2, ConstantsAssumption DEF ExchangeInv, IInv, TypeOK, Sync, NextCursor
<1>8. Follows(journal[n], R)
  <2> HIDE DEF R, k, c
  <2> SUFFICES ASSUME NEW r \in R, NEW kind \in Before(r.event.kind)
               PROVE  \/ Has(journal[n], kind, r.event.task)
                      \/ \E q \in R : /\ q.position < r.position
                                      /\ q.event.kind = kind
                                      /\ q.event.task = r.event.task
    BY DEF Follows
  <2>1. r \in There(n) /\ k < r.position /\ r.position <= NextCursor(k, c)
        /\ r.position \in Nat
    BY <1>3, <1>5 DEF Slice, Row
  <2>2. PICK q \in There(n) : /\ q.position < r.position
                              /\ q.event.kind = kind
                              /\ q.event.task = r.event.task
    BY <1>4, <2>1 DEF ExchangeInv, CausalOrder, There
  <2>3. q.position \in Nat
    BY <1>5 DEF Row
  <2>4. CASE q.position <= k
    <3>1. q.event \in Events(journal[n])
      BY <1>3, <2>2, <2>4 DEF Events, UpTo
    <3> QED
      BY <2>2, <3>1 DEF Has
  <2>5. CASE ~(q.position <= k)
    <3>1. q \in R
      BY <1>3, <1>7, <2>1, <2>2, <2>3, <2>5 DEF Slice
    <3> QED
      BY <2>2, <3>1
  <2> QED
    BY <2>4, <2>5
<1>9. Stores(n, R)
  BY <1>1 DEF Take, Stores
<1> QED
  BY <1>6, <1>8, <1>9 DEF Supplies, SupplyStep

LEMMA ReceiveSupplies ==
    ASSUME ExchangeInv, NEW p \in wire, Receive(p)
    PROVE  SupplyStep
<1>1. p.to \in Node /\ p.event \in Event
  BY DEF ExchangeInv, IInv, TypeOK, Post
<1>2. \A kind \in Before(p.event.kind) : Has(journal[p.to], kind, p.event.task)
  BY DEF ExchangeInv, PostSound
<1>3. journal' = [journal EXCEPT ![p.to] = Appended(@, Batch(<<p.event>>))]
  BY DEF Receive
<1> QED
  BY <1>1, <1>2, <1>3, SupplyOne

LEMMA SupplySteps ==
    ASSUME ExchangeInv, [Next]_vars
    PROVE  SupplyStep
<1>1. IInv
  BY DEF ExchangeInv
<1>2. ASSUME NEW n \in Node, Start(n) \/ Verify(n)
      PROVE  SupplyStep
  BY <1>1, <1>2, StartSupplies, VerifySupplies
<1>3. ASSUME NEW n \in Node, Crash(n) \/ SyncBegin(n) \/ Timeout(n) \/ StartDone(n)
      PROVE  SupplyStep
  BY <1>3 DEF Crash, SyncBegin, Timeout, StartDone, SupplyStep
<1>4. ASSUME NEW n \in Node, Exchange(n)
      PROVE  SupplyStep
  <2>1. CASE Take(n)
    BY <2>1, TakeSupplies
  <2>2. CASE ~Take(n)
    BY <1>4, <2>2 DEF Exchange, Ask, TakeRefused, Push, FirstTurnEnds, TurnDone,
                      SecondTurnEnds, SupplyStep
  <2> QED
    BY <2>1, <2>2
<1>5. ASSUME NEW p \in wire, Receive(p) \/ Answer(p) \/ Refuse(p)
      PROVE  SupplyStep
  BY <1>5, ReceiveSupplies DEF Answer, Refuse, SupplyStep
<1>6. ASSUME NEW t \in Task, Submit(t)
      PROVE  SupplyStep
  BY <1>1, <1>6, SubmitSupplies
<1>7. ASSUME UNCHANGED vars
      PROVE  SupplyStep
  BY <1>7 DEF vars, SupplyStep
<1> QED
  BY <1>2, <1>3, <1>4, <1>5, <1>6, <1>7 DEF Next, Serve

-----------------------------------------------------------------------------
(* What such a step does to every journal.                                  *)

\* J is continued by K.
Extends(J, K) ==
    /\ J \subseteq K
    /\ High(J) \in Nat /\ High(K) \in Nat /\ High(J) <= High(K)
    /\ \A r \in K : r \notin J => High(J) < r.position

Grown ==
    \A n \in Node : /\ journal'[n] \in SUBSET Row
                     /\ Extends(journal[n], journal'[n])
                     /\ Placed(journal'[n])

LEMMA JournalsGrown ==
    ASSUME ExchangeInv, SupplyStep
    PROVE  Grown /\ CausalOrder'
<1>1. IInv /\ \A n \in Node : Placed(journal[n])
  BY DEF ExchangeInv
<1>2. \A n \in Node : Follows({}, journal[n])
  BY DEF ExchangeInv, CausalOrder, Follows
<1>3. ASSUME NEW n \in Node
      PROVE  journal[n] \in SUBSET Row /\ IsFiniteSet(journal[n]) /\ High(journal[n]) \in Nat
  BY <1>1, JournalType, FS_CardinalityType DEF High
<1>4. CASE journal' = journal
  <2>1. Grown
    BY <1>1, <1>3, <1>4 DEF Grown, Extends
  <2>2. CausalOrder'
    BY <1>4 DEF ExchangeInv, CausalOrder
  <2> QED
    BY <2>1, <2>2
<1>5. ASSUME NEW n \in Node, NEW R, Supplies(n, R)
      PROVE  Grown /\ CausalOrder'
  <2> DEFINE K == Appended(journal[n], R)
  <2>1. R \in SUBSET Row /\ IsFiniteSet(R) /\ Apart(R) /\ Follows(journal[n], R)
    BY <1>5 DEF Supplies, Stores
  <2>2. journal'[n] = K /\ \A m \in Node \ {n} : journal'[m] = journal[m]
    BY <1>1, <1>5 DEF Supplies, Stores, IInv, TypeOK
  <2>3. K \in SUBSET Row /\ IsFiniteSet(K) /\ journal[n] \subseteq K
    BY <1>3, <2>1, AppendedFacts
  <2>4. /\ Placed(K)
        /\ High(journal[n]) <= High(K)
        /\ \A r \in K : r \notin journal[n] => High(journal[n]) < r.position
    BY <1>1, <1>3, <2>1, AppendedPlaced
  <2>5. High(K) \in Nat
    BY <2>3, FS_CardinalityType DEF High
  <2>6. Follows({}, K)
    BY <1>1, <1>2, <1>3, <2>1, AppendedFollows
  <2> HIDE DEF K
  <2>7. Extends(journal[n], K)
    BY <1>3, <2>3, <2>4, <2>5 DEF Extends
  <2>8. ASSUME NEW m \in Node
        PROVE  /\ journal'[m] \in SUBSET Row
               /\ Extends(journal[m], journal'[m])
               /\ Placed(journal'[m])
               /\ Follows({}, journal'[m])
    <3>1. CASE m = n
      BY <2>2, <2>3, <2>4, <2>6, <2>7, <3>1
    <3>2. CASE m # n
      <4>1. journal'[m] = journal[m]
        BY <2>2, <3>2
      <4>2. Extends(journal[m], journal[m])
        BY <1>3 DEF Extends
      <4> QED
        BY <1>1, <1>2, <1>3, <4>1, <4>2
    <3> QED
      BY <3>1, <3>2
  <2>9. CausalOrder'
    <3>1. \A kind, task : ~Has({}, kind, task)
      BY DEF Has, Events
    <3> QED
      BY <2>8, <3>1 DEF CausalOrder, Follows
  <2> QED
    BY <2>8, <2>9 DEF Grown
<1> QED
  BY <1>4, <1>5 DEF SupplyStep

\* The part of a journal that a request has fixed stays as it is.
LEMMA FixedParts ==
    ASSUME NEW J, NEW K \in SUBSET Row, Extends(J, K),
           NEW k \in Int, k <= High(J)
    PROVE  /\ UpTo(K, k) = UpTo(J, k)
           /\ \A r \in K : r.position <= k => r \in J
           /\ \A a \in Nat : Slice(K, a, k) = Slice(J, a, k)
<1>1. \A r \in K : r.position <= k => r \in J
  <2> SUFFICES ASSUME NEW r \in K, r.position <= k, r \notin J PROVE FALSE
    OBVIOUS
  <2> QED
    BY DEF Extends, Row
<1>2. UpTo(K, k) = UpTo(J, k)
  BY <1>1 DEF UpTo, Extends
<1>3. ASSUME NEW a \in Nat
      PROVE  Slice(K, a, k) = Slice(J, a, k)
  <2>1. NextCursor(a, k) \in Int /\ NextCursor(a, k) <= k
    BY ConstantsAssumption DEF NextCursor
  <2>2. \A r \in K : r.position <= NextCursor(a, k) => r \in J
    BY <1>1, <2>1 DEF Row
  <2> QED
    BY <2>2 DEF Slice, Extends
<1> QED
  BY <1>1, <1>2, <1>3

\* What is stored, referred to or answered stays so.
LEMMA Lasting ==
    ASSUME NEW J, NEW K, J \subseteq K
    PROVE  /\ Events(J) \subseteq Events(K)
           /\ \A kind, task : Has(J, kind, task) => Has(K, kind, task)
           /\ \A n, task : Answered(n, J, task) => Answered(n, K, task)
           /\ \A n, D : Receipted(n, D, J) => Receipted(n, D, K)
<1>1. Events(J) \subseteq Events(K)
  BY DEF Events
<1>2. \A n, task : Answered(n, J, task) => Answered(n, K, task)
  BY <1>1 DEF Answered
<1> QED
  BY <1>1, <1>2 DEF Has, Receipted

-----------------------------------------------------------------------------
(* What a node keeps while others work.                                     *)

LEMMA NodeKept ==
    ASSUME ExchangeInv, Grown, NEW n \in Node
    PROVE  /\ journal[n] \subseteq journal'[n]
           /\ High(journal[n]) \in Nat /\ High(journal'[n]) \in Nat
           /\ High(journal[n]) <= High(journal'[n])
           /\ Full(n) => Full(n)'
           /\ Events(journal[n]) \subseteq Events(journal'[n])
           /\ \A kind, task : Has(journal[n], kind, task) => Has(journal'[n], kind, task)
           /\ \A m, D : Receipted(m, D, journal[n]) => Receipted(m, D, journal'[n])
<1>1. Extends(journal[n], journal'[n])
  BY DEF Grown
<1>2. journal[n] \subseteq journal'[n]
  BY <1>1 DEF Extends
<1>3. /\ High(journal[n]) \in Nat /\ High(journal'[n]) \in Nat
      /\ High(journal[n]) <= High(journal'[n])
  BY <1>1 DEF Extends
<1>4. Full(n) => Full(n)'
  BY <1>3, ConstantsAssumption DEF Full
<1> QED
  BY <1>2, <1>3, <1>4, Lasting

LEMMA PartsKept ==
    ASSUME ExchangeInv, Grown, NEW n \in Node, NEW k \in Int, k <= High(journal[n])
    PROVE  /\ UpTo(journal'[n], k) = UpTo(journal[n], k)
           /\ \A r \in journal'[n] : r.position <= k => r \in journal[n]
           /\ \A a \in Nat : Slice(journal'[n], a, k) = Slice(journal[n], a, k)
<1>1. Extends(journal[n], journal'[n]) /\ journal'[n] \in SUBSET Row
  BY DEF Grown
<1> QED
  BY <1>1, FixedParts

LEMMA SyncType ==
    ASSUME ExchangeInv, NEW n \in Node
    PROVE  /\ sync[n].cursor \in Nat
           /\ sync[n].ceiling \in Nat \cup {-1}
           /\ sync[n].peer \in Nat \ {0}
           /\ sync[n].turn \in {1, 2}
           /\ sync[n].phase \in Phases
           /\ sync[n].phase # "idle" =>
                /\ Peer(n) \in Node
                /\ sync[n].peer \in 1..Len(Peers[n]) /\ Len(Peers[n]) \in Nat
<1>1. IInv
  BY DEF ExchangeInv
<1>2. sync[n] \in Sync
  BY <1>1 DEF IInv, TypeOK
<1>3. ASSUME sync[n].phase # "idle"
      PROVE  /\ Peer(n) \in Node
             /\ sync[n].peer \in 1..Len(Peers[n]) /\ Len(Peers[n]) \in Nat
  <2>1. Peers[n] # <<>>
    BY <1>1, <1>3 DEF IInv, PeersConfigured
  <2> QED
    BY <1>1, <2>1, PeerType DEF Peer
<1> QED
  BY <1>2, <1>3 DEF Sync

\* What exchange i has achieved is never undone.
LEMMA PromiseRests ==
    ASSUME ExchangeInv, Grown, NEW n \in Node, NEW i \in 1..Len(Peers[n]),
           due'[n][i] = due[n][i], Promised(n, i)
    PROVE  Promised(n, i)'
<1>1. Peers[n][i] \in Node
  BY ConstantsAssumption
<1>2. PICK m \in Node : m = Peers[n][i]
  BY <1>1
<1>3. /\ due[n][i] \subseteq Events(journal[n]) \cap Events(journal[m])
      /\ Full(n) \/ /\ Receipted(n, due[n][i], journal[n])
                    /\ Receipted(n, due[n][i], journal[m])
  BY <1>2 DEF Promised
<1>4. due[n][i] \subseteq Events(journal'[n]) \cap Events(journal'[m])
  BY <1>3, NodeKept
<1>5. Full(n)' \/ /\ Receipted(n, due[n][i], journal'[n])
                  /\ Receipted(n, due[n][i], journal'[m])
  BY <1>3, NodeKept
<1> QED
  BY <1>2, <1>4, <1>5 DEF Promised

LEMMA PromisesRest ==
    ASSUME ExchangeInv, Grown, NEW n \in Node, due'[n] = due[n],
           Concluded(n)' \subseteq Concluded(n)
    PROVE  \A i \in Concluded(n)' : Promised(n, i)'
<1> SUFFICES ASSUME NEW i \in Concluded(n)' PROVE Promised(n, i)'
  OBVIOUS
<1>1. i \in Concluded(n) /\ i \in 1..Len(due[n]) /\ Promised(n, i)
  BY DEF Concluded, ExchangeInv, SyncInv
<1>2. sync[n].phase # "idle" /\ Len(due[n]) = sync[n].peer
  BY <1>1 DEF ExchangeInv, SyncInv
<1>3. i \in 1..Len(Peers[n])
  BY <1>1, <1>2, SyncType
<1> QED
  BY <1>1, <1>3, PromiseRests

LEMMA PullRests ==
    ASSUME ExchangeInv, Grown, NEW n \in Node, sync'[n] = sync[n]
    PROVE  PullSound(n)'
<1>1. CASE ~(sync[n].phase \in {"ask", "page"})
  BY <1>1 DEF PullSound
<1>2. CASE sync[n].phase \in {"ask", "page"}
  <2>1. PICK m \in Node : m = Peer(n)
    BY <1>2, SyncType
  <2>2. There(n) = journal[m] /\ There(n)' = journal'[m]
    BY <2>1 DEF There, Peer
  <2>3. PullSound(n)
    BY DEF ExchangeInv, SyncInv
  <2>4. sync[n].cursor \in Nat /\ sync[n].ceiling \in Nat \cup {-1} /\ High(journal[m]) \in Nat
        /\ sync[n].cursor <= High(journal[m])
    BY <1>2, <2>2, <2>3, SyncType, NodeKept DEF PullSound
  <2>5. Events(UpTo(journal'[m], sync[n].cursor)) \subseteq Events(journal'[n])
    BY <1>2, <2>2, <2>3, <2>4, PartsKept, NodeKept DEF PullSound
  <2>6. IF sync[n].ceiling = -1 THEN sync[n].cursor = 0 /\ sync[n].phase = "ask"
        ELSE sync[n].cursor <= sync[n].ceiling /\ sync[n].ceiling <= High(journal'[m])
    BY <1>2, <2>2, <2>3, <2>4, NodeKept DEF PullSound
  <2>7. sync[n].phase = "page" =>
            sync[n].page = Slice(journal'[m], sync[n].cursor, sync[n].ceiling)
    <3> SUFFICES ASSUME sync[n].phase = "page"
                 PROVE  sync[n].page = Slice(journal'[m], sync[n].cursor, sync[n].ceiling)
      OBVIOUS
    <3>1. sync[n].page = Slice(journal[m], sync[n].cursor, sync[n].ceiling)
          /\ sync[n].ceiling <= High(journal[m])
      BY <2>2, <2>3 DEF PullSound
    <3> QED
      BY <2>4, <3>1, PartsKept
  <2> QED
    BY <2>2, <2>5, <2>6, <2>7 DEF PullSound
<1> QED
  BY <1>1, <1>2

LEMMA PushRests ==
    ASSUME ExchangeInv, Grown, NEW n \in Node, sync'[n] = sync[n]
    PROVE  PushSound(n)'
<1>1. CASE ~(sync[n].phase \in {"push", "posted"})
  BY <1>1 DEF PushSound
<1>2. CASE sync[n].phase \in {"push", "posted"}
  <2>1. PICK m \in Node : m = Peer(n)
    BY <1>2, SyncType
  <2>2. There(n) = journal[m] /\ There(n)' = journal'[m]
    BY <2>1 DEF There, Peer
  <2>3. PushSound(n)
    BY DEF ExchangeInv, SyncInv
  <2>4. /\ sync[n].cursor \in Nat
        /\ sync[n].cursor <= sync[n].ceiling
        /\ sync[n].ceiling <= High(journal[n])
        /\ sync[n].ceiling \in Int
    BY <1>2, <2>3, SyncType DEF PushSound
  <2>5. \A r \in journal'[n] : r.position <= sync[n].cursor => r \in journal[n]
    BY <2>4, NodeKept, PartsKept
  <2>6. sync[n].ceiling <= High(journal'[n])
    BY <2>4, NodeKept
  <2>7. Events(journal[m]) \subseteq Events(journal'[m])
    BY NodeKept
  <2> QED
    BY <1>2, <2>2, <2>3, <2>4, <2>5, <2>6, <2>7 DEF PushSound
<1> QED
  BY <1>1, <1>2

\* What was due stays where it has got to.
LEMMA DueRests ==
    ASSUME ExchangeInv, Grown, NEW n \in Node, sync'[n] = sync[n], due'[n] = due[n]
    PROVE  DueSound(n)'
<1>1. CASE sync[n].phase = "idle"
  BY <1>1 DEF DueSound
<1>2. CASE sync[n].phase # "idle"
  <2>1. PICK m \in Node : m = Peer(n)
    BY <1>2, SyncType
  <2>2. There(n) = journal[m] /\ There(n)' = journal'[m]
    BY <2>1 DEF There, Peer
  <2> DEFINE d == due[n][sync[n].peer]
             c == sync[n].ceiling
  <2>3. DueSound(n) /\ PullSound(n) /\ PushSound(n)
    BY DEF ExchangeInv, SyncInv
  <2>4. /\ Events(journal[m]) \subseteq Events(journal'[m])
        /\ Events(journal[n]) \subseteq Events(journal'[n])
        /\ Full(n) => Full(n)'
        /\ Receipted(n, d, journal[n]) => Receipted(n, d, journal'[n])
    BY NodeKept
  <2>c. c \in Int
    BY SyncType
  <2>5. sync[n].phase \in {"push", "posted"} => UpTo(journal'[n], c) = UpTo(journal[n], c)
    BY <2>3, <2>c, PartsKept DEF PushSound
  <2>6. sync[n].phase \in {"ask", "page"} /\ c # -1 => UpTo(journal'[m], c) = UpTo(journal[m], c)
    BY <2>2, <2>3, <2>c, PartsKept DEF PullSound
  <2>7. sync[n].phase \in {"ask", "page"} =>
            d \subseteq Events(journal'[n]) \cup
                        Events(IF c = -1 THEN journal'[m] ELSE UpTo(journal'[m], c))
    BY <1>2, <2>2, <2>3, <2>4, <2>6 DEF DueSound
  <2>8. sync[n].phase \in {"push", "posted"} => d \subseteq Events(UpTo(journal'[n], c))
    BY <1>2, <2>3, <2>5 DEF DueSound
  <2>9. sync[n].phase = "work" \/ sync[n].turn = 2 =>
            d \subseteq Events(journal'[n]) \cap Events(journal'[m])
    BY <1>2, <2>2, <2>3, <2>4 DEF DueSound
  <2>10. ASSUME sync[n].turn = 2
         PROVE  Full(n)' \/ Receipted(n, d, IF sync[n].phase \in {"push", "posted"}
                                            THEN UpTo(journal'[n], c) ELSE journal'[n])
    <3>1. Full(n) \/ Receipted(n, d, IF sync[n].phase \in {"push", "posted"}
                                     THEN UpTo(journal[n], c) ELSE journal[n])
      BY <1>2, <2>3, <2>10 DEF DueSound
    <3> QED
      BY <2>4, <2>5, <3>1
  <2> QED
    BY <2>2, <2>7, <2>8, <2>9, <2>10 DEF DueSound
<1> QED
  BY <1>1, <1>2

LEMMA SyncRests ==
    ASSUME ExchangeInv, Grown, NEW n \in Node, sync'[n] = sync[n], due'[n] = due[n],
           handler'[n] = "turn" => handler[n] = "turn"
    PROVE  SyncInv(n)'
<1>1. Concluded(n)' = Concluded(n)
  BY DEF Concluded
<1>2. \A i \in Concluded(n)' : Promised(n, i)'
  BY <1>1, PromisesRest
<1>3. /\ Len(due[n]) = (IF sync[n].phase = "idle" THEN 0 ELSE sync[n].peer)
      /\ handler[n] = "turn" => sync[n].phase = "work"
  BY DEF ExchangeInv, SyncInv
<1> QED
  BY <1>2, <1>3, PullRests, PushRests, DueRests DEF SyncInv

\* A sync that failed, or that its node did not survive.
LEMMA SyncGone ==
    ASSUME NEW n \in Node, sync'[n] = NoSync, due'[n] = <<>>, handler'[n] # "turn"
    PROVE  SyncInv(n)'
<1>1. NoSync.phase = "idle"
  BY DEF NoSync
<1>2. Len(<<>>) = 0
  OBVIOUS
<1>3. Concluded(n)' = {}
  BY <1>2 DEF Concluded
<1> QED
  BY <1>1, <1>2, <1>3 DEF SyncInv, PullSound, PushSound, DueSound

\* A post of which its sender's request knows what it knew.
LEMMA PostRests ==
    ASSUME ExchangeInv, Grown, NEW p \in wire,
           p.live => /\ sync'[p.from] = sync[p.from]
                     /\ \A q \in wire' : q.live /\ q.from = p.from => q \in wire
    PROVE  PostSound(p)'
<1>1. PostSound(p) /\ p.from \in Node /\ p.to \in Node
  BY DEF ExchangeInv, IInv, TypeOK, Post
<1>2. \A kind \in Before(p.event.kind) : Has(journal'[p.to], kind, p.event.task)
  BY <1>1, NodeKept DEF PostSound
<1>3. p.taken => p.event \in Events(journal'[p.to])
  BY <1>1, NodeKept DEF PostSound
<1>4. ASSUME p.live
      PROVE  /\ sync'[p.from].phase = "posted"
             /\ p.to = Peer(p.from)'
             /\ \A r \in journal'[p.from] : r.position = sync'[p.from].cursor
                                            => r.event = p.event
             /\ \A q \in wire' : q.live /\ q.from = p.from => q = p
  <2>1. PICK n \in Node : n = p.from
    BY <1>1
  <2>2. /\ sync[n].phase = "posted" /\ p.to = Peer(n)
        /\ \A r \in journal[n] : r.position = sync[n].cursor => r.event = p.event
        /\ \A q \in wire : q.live /\ q.from = n => q = p
    BY <1>1, <1>4, <2>1 DEF PostSound
  <2>3. sync[n].cursor \in Nat /\ sync[n].ceiling \in Int
        /\ sync[n].cursor <= sync[n].ceiling /\ sync[n].ceiling <= High(journal[n])
        /\ High(journal[n]) \in Nat
    BY <2>2, SyncType, NodeKept DEF ExchangeInv, SyncInv, PushSound
  <2>4. \A r \in journal'[n] : r.position <= sync[n].cursor => r \in journal[n]
    BY <2>3, PartsKept
  <2>5. \A r \in journal'[n] : r.position = sync[n].cursor => r.event = p.event
    BY <2>2, <2>3, <2>4
  <2>6. Peer(n)' = Peer(n)
    BY <1>4, <2>1 DEF Peer
  <2> QED
    BY <1>4, <2>1, <2>2, <2>5, <2>6 DEF Peer
<1> QED
  BY <1>2, <1>3, <1>4 DEF PostSound

-----------------------------------------------------------------------------
(* What each action does to the exchanges.                                  *)

Exchanges ==
    /\ \A n \in Node : SyncInv(n)
    /\ \A p \in wire : PostSound(p)

\* Only n's request moves.
OnlyAt(n) ==
    \A m \in Node \ {n} : /\ sync'[m] = sync[m]
                          /\ due'[m] = due[m]
                          /\ handler'[m] = "turn" => handler[m] = "turn"

LEMMA VariableTypes ==
    ASSUME ExchangeInv
    PROVE  /\ sync \in [Node -> Sync]
           /\ due \in [Node -> Seq(SUBSET Event)]
           /\ handler \in [Node -> Handlers]
           /\ wire \subseteq Post
           /\ journal \in [Node -> SUBSET Row]
BY DEF ExchangeInv, IInv, TypeOK

LEMMA OthersRest ==
    ASSUME ExchangeInv, Grown, NEW n \in Node, OnlyAt(n), SyncInv(n)'
    PROVE  \A m \in Node : SyncInv(m)'
<1> SUFFICES ASSUME NEW m \in Node PROVE SyncInv(m)'
  OBVIOUS
<1>1. CASE m = n
  BY <1>1
<1>2. CASE m # n
  BY <1>2, SyncRests DEF OnlyAt
<1> QED
  BY <1>1, <1>2

\* Nobody waits for a post of n, and none goes out.
LEMMA PostsRest ==
    ASSUME ExchangeInv, Grown, NEW n \in Node, OnlyAt(n),
           sync[n].phase # "posted", wire' \subseteq wire
    PROVE  \A p \in wire' : PostSound(p)'
<1> SUFFICES ASSUME NEW p \in wire' PROVE PostSound(p)'
  OBVIOUS
<1>1. p \in wire /\ PostSound(p) /\ p.from \in Node
  BY VariableTypes DEF ExchangeInv, Post
<1>2. p.live => p.from # n
  BY <1>1 DEF PostSound
<1> QED
  BY <1>1, <1>2, PostRests DEF OnlyAt

\* No request moves, and no post.
LEMMA NoneMoves ==
    ASSUME ExchangeInv, Grown, UNCHANGED <<sync, wire, due>>,
           \A n \in Node : handler'[n] = "turn" => handler[n] = "turn"
    PROVE  Exchanges'
<1>1. \A n \in Node : SyncInv(n)'
  BY SyncRests
<1>2. \A p \in wire : PostSound(p)'
  BY PostRests
<1> QED
  BY <1>1, <1>2 DEF Exchanges

LEMMA StartKeepsExchanges ==
    ASSUME ExchangeInv, Grown, NEW n \in Node, Start(n) \/ StartDone(n) \/ Verify(n)
    PROVE  Exchanges'
<1>1. UNCHANGED <<sync, wire, due>>
  BY DEF Start, StartDone, Verify
<1>2. \A m \in Node : handler'[m] = "turn" => handler[m] = "turn"
  BY VariableTypes DEF Start, StartDone, Verify
<1> QED
  BY <1>1, <1>2, NoneMoves

LEMMA SyncBeginKeepsExchanges ==
    ASSUME ExchangeInv, Grown, NEW n \in Node, SyncBegin(n)
    PROVE  Exchanges'
<1>1. OnlyAt(n)
  BY VariableTypes DEF SyncBegin, OnlyAt
<1>2. \A p \in wire' : PostSound(p)'
  BY <1>1, PostsRest DEF SyncBegin, Resting
<1>3. /\ sync'[n].phase = "ask" /\ sync'[n].turn = 1 /\ sync'[n].peer = 1
      /\ sync'[n].cursor = 0 /\ sync'[n].ceiling = -1
      /\ due'[n] = <<Both(n, Peers[n][1])>>
      /\ handler'[n] # "turn" /\ journal' = journal
  BY VariableTypes DEF SyncBegin, NoSync
<1>4. Peers[n] # <<>>
  BY DEF SyncBegin
<1>5. PICK m \in Node : m = Peers[n][1]
  BY <1>4, PeerType DEF ExchangeInv
<1>6. There(n)' = journal[m]
  BY <1>3, <1>5 DEF There, Peer
<1>7. UpTo(journal[m], 0) = {}
  BY VariableTypes DEF UpTo, Row
<1>8. PullSound(n)' /\ PushSound(n)'
  BY <1>3, <1>6, <1>7 DEF PullSound, PushSound, Events
<1>9. DueSound(n)'
  BY <1>3, <1>5, <1>6 DEF DueSound, Both
<1>10. Concluded(n)' = {} /\ Len(due'[n]) = 1
  BY <1>3 DEF Concluded
<1>11. SyncInv(n)'
  BY <1>3, <1>8, <1>9, <1>10 DEF SyncInv
<1> QED
  BY <1>1, <1>2, <1>11, OthersRest DEF Exchanges

\* The exchange goes on with the same peer: what is concluded stays so.
LEMMA SamePeer ==
    ASSUME ExchangeInv, Grown, NEW n \in Node, due'[n] = due[n],
           sync[n].phase \notin {"idle", "done"}, sync'[n].phase \notin {"idle", "done"},
           sync'[n].peer = sync[n].peer,
           handler'[n] = "turn" => sync'[n].phase = "work",
           PullSound(n)', PushSound(n)', DueSound(n)'
    PROVE  SyncInv(n)'
<1>1. Concluded(n)' = Concluded(n)
  BY DEF Concluded
<1>2. Len(due[n]) = sync[n].peer
  BY DEF ExchangeInv, SyncInv
<1> QED
  BY <1>1, <1>2, PromisesRest DEF SyncInv

LEMMA AskKeepsExchanges ==
    ASSUME ExchangeInv, Grown, NEW n \in Node, Ask(n)
    PROVE  Exchanges'
<1>1. OnlyAt(n)
  BY VariableTypes DEF Ask, OnlyAt
<1>2. \A p \in wire' : PostSound(p)'
  BY <1>1, PostsRest DEF Ask
<1>3. sync[n].phase = "ask" /\ handler[n] = "listen" /\ UNCHANGED <<journal, handler, due>>
  BY DEF Ask
<1>4. PICK m \in Node : m = Peer(n)
  BY <1>3, SyncType
<1>5. There(n) = journal[m]
  BY <1>4 DEF There
<1>6. PICK c : c = IF sync[n].ceiling = -1 THEN High(journal[m]) ELSE sync[n].ceiling
  OBVIOUS
<1>7. /\ sync'[n].phase = "page" /\ sync'[n].ceiling = c
      /\ sync'[n].page = Slice(journal[m], sync[n].cursor, c)
      /\ sync'[n].turn = sync[n].turn /\ sync'[n].peer = sync[n].peer
      /\ sync'[n].cursor = sync[n].cursor
  BY <1>4, <1>6, VariableTypes DEF Ask, Sync
<1>8. There(n)' = journal[m]
  BY <1>3, <1>4, <1>7 DEF There, Peer
<1>9. PullSound(n) /\ DueSound(n) /\ High(journal[m]) \in Nat
      /\ sync[n].cursor \in Nat /\ sync[n].ceiling \in Nat \cup {-1}
  BY NodeKept, SyncType DEF ExchangeInv, SyncInv
<1>10. /\ sync[n].cursor <= c /\ c <= High(journal[m]) /\ c # -1
       /\ Events(UpTo(journal[m], sync[n].cursor)) \subseteq Events(journal[n])
  BY <1>3, <1>5, <1>6, <1>9 DEF PullSound
<1>11. PullSound(n)' /\ PushSound(n)'
  BY <1>3, <1>7, <1>8, <1>10 DEF PullSound, PushSound
<1>12. DueSound(n)'
  <2> DEFINE d == due[n][sync[n].peer]
  <2>1. d \subseteq Events(journal[n]) \cup
                    Events(IF sync[n].ceiling = -1 THEN journal[m]
                           ELSE UpTo(journal[m], sync[n].ceiling))
    BY <1>3, <1>5, <1>9 DEF DueSound
  <2>2. sync[n].ceiling = -1 => UpTo(journal[m], c) = journal[m]
    BY <1>6 DEF UpTo, ExchangeInv, Placed
  <2>3. d \subseteq Events(journal[n]) \cup Events(UpTo(journal[m], c))
    BY <1>6, <2>1, <2>2
  <2>4. sync[n].turn = 2 => /\ d \subseteq Events(journal[n]) \cap Events(journal[m])
                            /\ Full(n) \/ Receipted(n, d, journal[n])
    BY <1>3, <1>5, <1>9 DEF DueSound
  <2>5. Full(n)' = Full(n)
    BY <1>3 DEF Full
  <2> QED
    BY <1>3, <1>7, <1>8, <1>10, <2>3, <2>4, <2>5 DEF DueSound
<1>13. SyncInv(n)'
  BY <1>3, <1>7, <1>11, <1>12, SamePeer
<1> QED
  BY <1>1, <1>2, <1>13, OthersRest DEF Exchanges

LEMMA TakeKeepsExchanges ==
    ASSUME ExchangeInv, Grown, NEW n \in Node, Take(n)
    PROVE  Exchanges'
<1>1. OnlyAt(n)
  BY VariableTypes DEF Take, OnlyAt
<1>2. \A p \in wire' : PostSound(p)'
  BY <1>1, PostsRest DEF Take
<1>3. sync[n].phase = "page" /\ handler'[n] # "turn" /\ due' = due
  BY DEF Take
<1>4. PICK m \in Node : m = Peer(n)
  BY <1>3, SyncType
<1>5. There(n) = journal[m]
  BY <1>4 DEF There
<1>6. PICK k : k = sync[n].cursor
  OBVIOUS
<1>7. PICK c : c = sync[n].ceiling
  OBVIOUS
<1> DEFINE d == due[n][sync[n].peer]
           l == NextCursor(k, c)
<1>8. PullSound(n) /\ DueSound(n) /\ High(journal[m]) \in Nat
      /\ k \in Nat /\ c \in Nat \cup {-1}
  BY <1>6, <1>7, NodeKept, SyncType DEF ExchangeInv, SyncInv
<1>9. /\ c \in Nat /\ k <= c /\ c <= High(journal[m])
      /\ Events(UpTo(journal[m], k)) \subseteq Events(journal[n])
      /\ sync[n].page = Slice(journal[m], k, c)
  BY <1>3, <1>5, <1>6, <1>7, <1>8 DEF PullSound
<1>10. l \in Nat /\ l <= c
  BY <1>8, <1>9, ConstantsAssumption DEF NextCursor
<1>11. /\ journal'[n] = Appended(journal[n], sync[n].page)
       /\ Events(journal'[n]) = Events(journal[n]) \cup Events(sync[n].page)
  <2>1. journal'[n] = Appended(journal[n], sync[n].page)
    BY VariableTypes DEF Take
  <2>2. sync[n].page \in SUBSET Row /\ IsFiniteSet(sync[n].page)
    BY DEF ExchangeInv, IInv, TypeOK, Finite, Sync
  <2>3. journal[n] \in SUBSET Row /\ IsFiniteSet(journal[n])
    BY JournalType DEF ExchangeInv
  <2> QED
    BY <2>1, <2>2, <2>3, AppendedFacts
<1>12. Events(UpTo(journal[m], l)) \subseteq Events(journal'[n])
  <2> SUFFICES ASSUME NEW r \in journal[m], r.position <= l
               PROVE  r.event \in Events(journal'[n])
    BY DEF Events, UpTo
  <2>1. r.position \in Nat
    BY VariableTypes DEF Row
  <2>2. CASE r.position <= k
    BY <1>9, <1>11, <2>2 DEF Events, UpTo
  <2>3. CASE ~(r.position <= k)
    <3>1. r \in sync[n].page
      BY <1>8, <1>9, <2>1, <2>3 DEF Slice
    <3> QED
      BY <1>11, <3>1 DEF Events
  <2> QED
    BY <2>2, <2>3
<1>13. UpTo(journal'[m], l) = UpTo(journal[m], l) /\ UpTo(journal'[m], c) = UpTo(journal[m], c)
       /\ c <= High(journal'[m])
  <2>1. l <= High(journal[m]) /\ High(journal'[m]) \in Nat /\ High(journal[m]) <= High(journal'[m])
    BY <1>8, <1>9, <1>10, NodeKept
  <2> HIDE DEF l
  <2> QED
    BY <1>8, <1>9, <1>10, <2>1, PartsKept
<1>14. /\ d \subseteq Events(journal[n]) \cup Events(UpTo(journal[m], c))
       /\ sync[n].turn = 2 => /\ d \subseteq Events(journal[n]) \cap Events(journal[m])
                              /\ Full(n) \/ Receipted(n, d, journal[n])
  BY <1>3, <1>5, <1>7, <1>8, <1>9 DEF DueSound
<1>15. /\ Events(journal[n]) \subseteq Events(journal'[n])
       /\ Events(journal[m]) \subseteq Events(journal'[m])
       /\ Full(n) => Full(n)'
       /\ Receipted(n, d, journal[n]) => Receipted(n, d, journal'[n])
  BY NodeKept
<1>16. High(journal'[n]) \in Nat
  BY NodeKept
<1>17. \A r \in journal'[n] : r.position \in Nat \ {0} /\ r.position <= High(journal'[n])
  <2>1. journal'[n] \in SUBSET Row /\ Placed(journal'[n])
    BY DEF Grown
  <2> QED
    BY <2>1 DEF Placed, Row
<1>18. sync'[n] = IF l < c
                  THEN [sync[n] EXCEPT !.phase = "ask", !.cursor = l, !.page = {}]
                  ELSE [sync[n] EXCEPT !.phase = "push", !.cursor = 0, !.page = {},
                                       !.ceiling = High(journal'[n])]
  BY <1>6, <1>7, VariableTypes DEF Take
<1>19. sync[n] \in Sync
  BY VariableTypes
<1>20. sync'[n].turn = sync[n].turn /\ sync'[n].peer = sync[n].peer
  BY <1>18, <1>19 DEF Sync
<1>21. There(n)' = journal'[m]
  BY <1>4, <1>20 DEF There, Peer
<1> HIDE DEF l, d
<1>22. CASE l < c
  <2>1. sync'[n].phase = "ask" /\ sync'[n].cursor = l /\ sync'[n].ceiling = c
    BY <1>7, <1>18, <1>19, <1>22 DEF Sync
  <2>2. PullSound(n)' /\ PushSound(n)'
    BY <1>9, <1>10, <1>12, <1>13, <1>21, <2>1 DEF PullSound, PushSound
  <2>3. d \subseteq Events(journal'[n]) \cup Events(UpTo(journal'[m], c))
    BY <1>13, <1>14, <1>15
  <2>4. DueSound(n)'
    BY <1>3, <1>9, <1>14, <1>15, <1>20, <1>21, <2>1, <2>3 DEF DueSound, d
  <2> QED
    BY <1>1, <1>2, <1>3, <1>20, <2>1, <2>2, <2>4, SamePeer, OthersRest DEF Exchanges
<1>23. CASE ~(l < c)
  <2>1. sync'[n].phase = "push" /\ sync'[n].cursor = 0 /\ sync'[n].ceiling = High(journal'[n])
    BY <1>18, <1>19, <1>23 DEF Sync
  <2>2. PullSound(n)' /\ PushSound(n)'
    BY <1>16, <1>17, <2>1 DEF PullSound, PushSound
  <2>3. UpTo(journal'[n], High(journal'[n])) = journal'[n]
    BY <1>17 DEF UpTo
  <2>4. l = c
    BY <1>9, <1>10, <1>23
  <2>5. d \subseteq Events(journal'[n])
    BY <1>12, <1>14, <1>15, <2>4
  <2>6. DueSound(n)'
    BY <1>3, <1>14, <1>15, <1>20, <1>21, <2>1, <2>3, <2>5 DEF DueSound, d
  <2> QED
    BY <1>1, <1>2, <1>3, <1>20, <2>1, <2>2, <2>6, SamePeer, OthersRest DEF Exchanges
<1> QED
  BY <1>22, <1>23

\* What goes out finds its parents at the peer: they went before it.
LEMMA PushKeepsExchanges ==
    ASSUME ExchangeInv, Grown, NEW n \in Node, Push(n)
    PROVE  Exchanges'
<1>1. OnlyAt(n)
  BY VariableTypes DEF Push, OnlyAt
<1>2. sync[n].phase = "push" /\ handler'[n] # "turn" /\ UNCHANGED <<journal, due>>
  BY DEF Push
<1>3. PICK m \in Node : m = Peer(n)
  BY <1>2, SyncType
<1>4. PICK k : k = sync[n].cursor
  OBVIOUS
<1>5. PICK r \in journal[n] :
        /\ r.position = k + 1
        /\ r.position <= sync[n].ceiling
        /\ wire' = wire \cup {[from |-> n, to |-> m, event |-> r.event,
                               live |-> TRUE, taken |-> FALSE]}
  BY <1>3, <1>4 DEF Push
<1>6. PushSound(n) /\ DueSound(n) /\ k \in Nat /\ sync[n].ceiling \in Int
  BY <1>4, SyncType DEF ExchangeInv, SyncInv
<1>7. /\ sync'[n].phase = "posted" /\ sync'[n].cursor = k + 1
      /\ sync'[n].ceiling = sync[n].ceiling
      /\ sync'[n].turn = sync[n].turn /\ sync'[n].peer = sync[n].peer
  BY <1>4, VariableTypes DEF Push, Sync
<1>8. There(n) = journal[m] /\ There(n)' = journal[m]
  BY <1>2, <1>3, <1>7 DEF There, Peer
<1>9. \A q \in journal[n] : q.position <= k => q.event \in Events(journal[m])
  BY <1>2, <1>4, <1>8 DEF ExchangeInv, SyncInv, PushSound
<1>10. \A q \in journal[n] : q.position \in Nat
  BY VariableTypes DEF Row
<1>11. PullSound(n)' /\ PushSound(n)'
  <2>1. \A q \in journal[n] : q.position <= k + 1 /\ q.position # k + 1
                              => q.event \in Events(journal[m])
    BY <1>6, <1>9, <1>10
  <2>2. k + 1 <= sync[n].ceiling /\ sync[n].ceiling <= High(journal[n])
    BY <1>2, <1>5, <1>6 DEF PushSound
  <2> QED
    BY <1>2, <1>7, <1>8, <2>1, <2>2 DEF PullSound, PushSound
<1>12. DueSound(n)'
  BY <1>2, <1>6, <1>7, <1>8 DEF DueSound, Full
<1>13. SyncInv(n)'
  BY <1>2, <1>7, <1>11, <1>12, SamePeer
<1> DEFINE p == [from |-> n, to |-> m, event |-> r.event, live |-> TRUE, taken |-> FALSE]
<1>14. \A q \in wire : q.live => q.from # n
  BY <1>2 DEF ExchangeInv, PostSound
<1>15. PostSound(p)'
  <2>1. ASSUME NEW kind \in Before(r.event.kind)
        PROVE  Has(journal[m], kind, r.event.task)
    <3>1. PICK q \in journal[n] : /\ q.position < r.position
                                  /\ q.event.kind = kind
                                  /\ q.event.task = r.event.task
      BY <2>1 DEF ExchangeInv, CausalOrder
    <3>2. q.position <= k
      BY <1>5, <1>6, <1>10, <3>1
    <3> QED
      BY <1>9, <3>1, <3>2 DEF Has
  <2>2. \A q \in journal[n] : q.position = k + 1 => q.event = r.event
    BY <1>5 DEF ExchangeInv, Placed
  <2>3. \A q \in wire' : q.live /\ q.from = n => q = p
    BY <1>5, <1>14
  <2>4. p.to = m /\ p.from = n /\ p.event = r.event /\ ~p.taken
    OBVIOUS
  <2>5. m = Peer(n)'
    BY <1>3, <1>7 DEF Peer
  <2> HIDE DEF p
  <2> QED
    BY <1>2, <1>7, <2>1, <2>2, <2>3, <2>4, <2>5 DEF PostSound, Peer
<1>16. ASSUME NEW q \in wire
       PROVE  PostSound(q)'
  <2>1. q.from \in Node /\ (q.live => q.from # n)
    BY <1>14, VariableTypes DEF Post
  <2>2. \A o \in wire' : o.live /\ o.from = q.from /\ q.live => o \in wire
    BY <1>5, <2>1
  <2> QED
    BY <1>1, <2>1, <2>2, PostRests DEF OnlyAt
<1> HIDE DEF p
<1>17. \A q \in wire' : PostSound(q)'
  BY <1>5, <1>15, <1>16 DEF p
<1> QED
  BY <1>1, <1>13, <1>17, OthersRest DEF Exchanges

LEMMA FirstTurnEndsKeepsExchanges ==
    ASSUME ExchangeInv, Grown, NEW n \in Node, FirstTurnEnds(n)
    PROVE  Exchanges'
<1>1. OnlyAt(n)
  BY VariableTypes DEF FirstTurnEnds, OnlyAt
<1>2. sync[n].phase = "push" /\ UNCHANGED <<journal, due, wire>> /\ sync[n].turn = 1
      /\ sync[n].cursor >= sync[n].ceiling
  BY DEF FirstTurnEnds, Pushed
<1>3. \A p \in wire' : PostSound(p)'
  BY <1>1, <1>2, PostsRest
<1>4. PICK m \in Node : m = Peer(n)
  BY <1>2, SyncType
<1>5. /\ sync'[n].phase = "work" /\ sync'[n].turn = 1 /\ sync'[n].peer = sync[n].peer
  BY <1>2, VariableTypes DEF FirstTurnEnds, Sync
<1>6. There(n) = journal[m] /\ There(n)' = journal[m]
  BY <1>2, <1>4, <1>5 DEF There, Peer
<1>7. DueSound(n) /\ PushSound(n) /\ sync[n].cursor \in Nat /\ sync[n].ceiling \in Int
  BY SyncType DEF ExchangeInv, SyncInv
<1>8. Events(UpTo(journal[n], sync[n].ceiling)) \subseteq Events(journal[n]) \cap Events(journal[m])
  <2> SUFFICES ASSUME NEW r \in journal[n], r.position <= sync[n].ceiling
               PROVE  r.event \in Events(journal[n]) /\ r.event \in Events(journal[m])
    BY DEF Events, UpTo
  <2>1. r.position \in Nat
    BY VariableTypes DEF Row
  <2>2. r.position <= sync[n].cursor
    BY <1>2, <1>7, <2>1
  <2> QED
    BY <1>2, <1>6, <1>7, <2>2 DEF PushSound, Events
<1>9. DueSound(n)'
  BY <1>2, <1>5, <1>6, <1>7, <1>8 DEF DueSound
<1>10. PullSound(n)' /\ PushSound(n)'
  BY <1>5 DEF PullSound, PushSound
<1>11. SyncInv(n)'
  BY <1>2, <1>5, <1>9, <1>10, SamePeer
<1> QED
  BY <1>1, <1>3, <1>11, OthersRest DEF Exchanges

\* After work() each request that was due has its receipt.
LEMMA TurnDoneKeepsExchanges ==
    ASSUME ExchangeInv, Grown, NEW n \in Node, TurnDone(n)
    PROVE  Exchanges'
<1>1. OnlyAt(n)
  BY VariableTypes DEF TurnDone, OnlyAt
<1>2. sync[n].phase = "work" /\ UNCHANGED <<journal, due, wire>> /\ Worked(n)
      /\ handler'[n] # "turn"
  BY VariableTypes DEF TurnDone, ExchangeInv, SyncInv
<1>3. \A p \in wire' : PostSound(p)'
  BY <1>1, <1>2, PostsRest
<1>4. PICK m \in Node : m = Peer(n)
  BY <1>2, SyncType
<1>5. /\ sync'[n].phase = "ask" /\ sync'[n].turn = 2 /\ sync'[n].peer = sync[n].peer
      /\ sync'[n].cursor = 0 /\ sync'[n].ceiling = -1
  BY VariableTypes DEF TurnDone, NoSync
<1>6. There(n) = journal[m] /\ There(n)' = journal[m]
  BY <1>2, <1>4, <1>5 DEF There, Peer
<1> DEFINE d == due[n][sync[n].peer]
<1>7. d \subseteq Events(journal[n]) \cap Events(journal[m])
  BY <1>2, <1>6 DEF ExchangeInv, SyncInv, DueSound
<1>8. Full(n) \/ Receipted(n, d, journal[n])
  <2>1. CASE Owed(n, journal[n]) = {}
    <3> SUFFICES ASSUME NEW e \in d, e.kind = "verification_request",
                        <<n, e.task>> \in Verifiable
                 PROVE  Answered(n, journal[n], e.task)
      BY DEF Receipted
    <3>1. PICK r \in journal[n] : r.event = e
      BY <1>7 DEF Events
    <3>2. "task" \in Before(r.event.kind)
      BY <3>1 DEF Before
    <3>3. PICK q \in journal[n] : q.event.kind = "task" /\ q.event.task = e.task
      BY <3>1, <3>2 DEF ExchangeInv, CausalOrder
    <3>4. Has(journal[n], "task", r.event.task)
      BY <3>1, <3>3 DEF Has, Events
    <3> QED
      BY <2>1, <3>1, <3>4 DEF Owed
  <2>2. CASE High(journal[n]) >= Capacity
    BY <2>2 DEF Full
  <2> QED
    BY <1>2, <2>1, <2>2 DEF Worked
<1>9. UpTo(journal[m], 0) = {}
  BY VariableTypes DEF UpTo, Row
<1>10. PullSound(n)' /\ PushSound(n)'
  BY <1>5, <1>6, <1>9 DEF PullSound, PushSound, Events
<1>11. DueSound(n)'
  BY <1>2, <1>5, <1>6, <1>7, <1>8 DEF DueSound, Full
<1>12. SyncInv(n)'
  BY <1>2, <1>5, <1>10, <1>11, SamePeer
<1> QED
  BY <1>1, <1>3, <1>12, OthersRest DEF Exchanges

\* The exchange that ends has achieved what was due; the next one is due what
\* both sides hold now.
LEMMA SecondTurnEndsKeepsExchanges ==
    ASSUME ExchangeInv, Grown, NEW n \in Node, SecondTurnEnds(n)
    PROVE  Exchanges'
<1>1. OnlyAt(n)
  BY VariableTypes DEF SecondTurnEnds, OnlyAt
<1>2. sync[n].phase = "push" /\ UNCHANGED <<journal, wire>> /\ sync[n].turn = 2
      /\ sync[n].cursor >= sync[n].ceiling /\ handler'[n] # "turn"
  BY DEF SecondTurnEnds, Pushed
<1>3. \A p \in wire' : PostSound(p)'
  BY <1>1, <1>2, PostsRest
<1>4. PICK i : i = sync[n].peer
  OBVIOUS
<1>5. i \in Nat \ {0} /\ i \in 1..Len(Peers[n]) /\ Len(Peers[n]) \in Nat
      /\ Peer(n) = Peers[n][i] /\ Len(due[n]) = i
  BY <1>2, <1>4, SyncType DEF ExchangeInv, SyncInv, Peer
<1>6. PICK m \in Node : m = Peers[n][i]
  BY <1>2, <1>5, SyncType
<1>7. There(n) = journal[m]
  BY <1>5, <1>6 DEF There
<1>8. Promised(n, i)
  <2> DEFINE d == due[n][i]
             here == UpTo(journal[n], sync[n].ceiling)
  <2>1. /\ d \subseteq Events(journal[n]) \cap Events(journal[m])
        /\ Full(n) \/ Receipted(n, d, here)
    BY <1>2, <1>4, <1>7 DEF ExchangeInv, SyncInv, DueSound
  <2>2. here \subseteq journal[n]
    BY DEF UpTo
  <2>3. \A r \in here : r.event \in Events(journal[m])
    <3> SUFFICES ASSUME NEW r \in journal[n], r.position <= sync[n].ceiling
                 PROVE  r.event \in Events(journal[m])
      BY DEF UpTo
    <3>1. r.position \in Nat /\ sync[n].cursor \in Nat /\ sync[n].ceiling \in Int
      BY SyncType, VariableTypes DEF Row
    <3>2. r.position <= sync[n].cursor
      BY <1>2, <3>1
    <3> QED
      BY <1>2, <1>7, <3>2 DEF ExchangeInv, SyncInv, PushSound
  <2>4. ASSUME Receipted(n, d, here)
        PROVE  Receipted(n, d, journal[n]) /\ Receipted(n, d, journal[m])
    <3> HIDE DEF d, here
    <3>1. Events(here) \subseteq Events(journal[n]) /\ Events(here) \subseteq Events(journal[m])
      BY <2>2, <2>3 DEF Events
    <3> QED
      BY <2>4, <3>1 DEF Receipted, Answered
  <2> HIDE DEF here
  <2> QED
    BY <1>6, <2>1, <2>4 DEF Promised
<1>9. \A j \in 1..(i - 1) : Promised(n, j)
  BY <1>2, <1>4, <1>5 DEF ExchangeInv, SyncInv, Concluded
<1>10. ASSUME NEW j \in 1..i, due'[n][j] = due[n][j]
       PROVE  Promised(n, j)'
  <2>1. j \in 1..Len(Peers[n]) /\ (j = i \/ j \in 1..(i - 1))
    BY <1>5
  <2>2. Promised(n, j)
    BY <1>8, <1>9, <2>1
  <2> QED
    BY <1>10, <2>1, <2>2, PromiseRests
<1>11. due[n] \in Seq(SUBSET Event)
  BY VariableTypes
<1>12. CASE i < Len(Peers[n])
  <2>1. /\ sync'[n].phase = "ask" /\ sync'[n].turn = 1 /\ sync'[n].peer = i + 1
        /\ sync'[n].cursor = 0 /\ sync'[n].ceiling = -1
    <3>1. sync' = [sync EXCEPT ![n] = [NoSync EXCEPT !.phase = "ask", !.peer = i + 1]]
      BY <1>4, <1>12 DEF SecondTurnEnds
    <3>2. sync'[n] = [NoSync EXCEPT !.phase = "ask", !.peer = i + 1]
      BY <3>1, VariableTypes
    <3> QED
      BY <3>2 DEF NoSync
  <2>2. PICK o \in Node : o = Peers[n][i + 1]
    BY <1>5, <1>12, ConstantsAssumption
  <2>3. due'[n] = Append(due[n], Both(n, o))
    BY <1>4, <1>12, <2>2, VariableTypes DEF SecondTurnEnds
  <2>4. Both(n, o) \in SUBSET Event
    BY VariableTypes DEF Both, Events, Row
  <2>5. /\ Len(due'[n]) = i + 1 /\ due'[n][i + 1] = Both(n, o)
        /\ \A j \in 1..i : due'[n][j] = due[n][j]
    BY <1>5, <1>11, <2>3, <2>4
  <2>6. There(n)' = journal[o]
    BY <1>2, <2>1, <2>2 DEF There, Peer
  <2>7. UpTo(journal[o], 0) = {}
    BY VariableTypes DEF UpTo, Row
  <2>8. PullSound(n)' /\ PushSound(n)'
    BY <2>1, <2>6, <2>7 DEF PullSound, PushSound, Events
  <2>9. DueSound(n)'
    BY <1>2, <2>1, <2>5, <2>6 DEF DueSound, Both
  <2>10. \A j \in Concluded(n)' : j \in 1..i
    BY <1>5, <2>1, <2>5 DEF Concluded
  <2>11. SyncInv(n)'
    BY <1>2, <1>10, <2>1, <2>5, <2>8, <2>9, <2>10 DEF SyncInv
  <2> QED
    BY <1>1, <1>3, <2>11, OthersRest DEF Exchanges
<1>13. CASE ~(i < Len(Peers[n]))
  <2>1. sync'[n].phase = "done" /\ sync'[n].turn = 1 /\ sync'[n].peer = i /\ due' = due
    BY <1>4, <1>13, VariableTypes, ZenonT(60) DEF SecondTurnEnds, NoSync
  <2>2. PullSound(n)' /\ PushSound(n)' /\ DueSound(n)'
    BY <2>1 DEF PullSound, PushSound, DueSound
  <2>3. \A j \in Concluded(n)' : j \in 1..i
    BY <1>5, <2>1 DEF Concluded
  <2>4. SyncInv(n)'
    BY <1>2, <1>5, <1>10, <2>1, <2>2, <2>3 DEF SyncInv
  <2> QED
    BY <1>1, <1>3, <2>4, OthersRest DEF Exchanges
<1> QED
  BY <1>4, <1>12, <1>13

LEMMA TakeRefusedKeepsExchanges ==
    ASSUME ExchangeInv, Grown, NEW n \in Node, TakeRefused(n)
    PROVE  Exchanges'
<1>1. OnlyAt(n)
  BY VariableTypes DEF TakeRefused, Failed, OnlyAt
<1>2. \A p \in wire' : PostSound(p)'
  BY <1>1, PostsRest DEF TakeRefused
<1>3. SyncInv(n)'
  BY VariableTypes, SyncGone DEF TakeRefused, Failed
<1> QED
  BY <1>1, <1>2, <1>3, OthersRest DEF Exchanges

\* A post that nobody waits for any more still finds its parents.
LEMMA OrphansRest ==
    ASSUME ExchangeInv, Grown, NEW n \in Node, OnlyAt(n),
           NEW posts \in SUBSET wire, wire' = Orphaned(n, posts)
    PROVE  \A p \in wire' : PostSound(p)'
<1>1. ASSUME NEW p \in posts, p.from = n
      PROVE  PostSound([p EXCEPT !.live = FALSE])'
  <2>1. p \in Post /\ PostSound(p)
    BY VariableTypes DEF ExchangeInv
  <2> DEFINE q == [p EXCEPT !.live = FALSE]
  <2>2. q.event = p.event /\ q.to = p.to /\ q.taken = p.taken /\ q.live = FALSE /\ p.to \in Node
    BY <2>1 DEF Post
  <2>3. /\ \A kind \in Before(p.event.kind) : Has(journal'[p.to], kind, p.event.task)
        /\ p.taken => p.event \in Events(journal'[p.to])
    BY <2>1, <2>2, NodeKept DEF PostSound
  <2> HIDE DEF q
  <2> QED
    BY <2>2, <2>3 DEF PostSound, q
<1>2. ASSUME NEW p \in posts, p.from # n
      PROVE  PostSound(p)'
  <2>1. p \in wire /\ p.from \in Node
    BY VariableTypes DEF Post
  <2>2. ASSUME NEW q \in wire', q.live, q.from = p.from
        PROVE  q \in wire
    <3>1. PICK o \in posts : q = IF o.from = n THEN [o EXCEPT !.live = FALSE] ELSE o
      BY DEF Orphaned
    <3>2. o \in Post
      BY VariableTypes
    <3>3. o.from # n
      BY <1>2, <2>2, <3>1, <3>2 DEF Post
    <3> QED
      BY <3>1, <3>3
  <2>3. sync'[p.from] = sync[p.from]
    BY <1>2, <2>1 DEF OnlyAt
  <2> QED
    BY <2>1, <2>2, <2>3, PostRests
<1> QED
  BY <1>1, <1>2 DEF Orphaned

LEMMA TimeoutKeepsExchanges ==
    ASSUME ExchangeInv, Grown, NEW n \in Node, Timeout(n)
    PROVE  Exchanges'
<1>1. OnlyAt(n)
  BY VariableTypes DEF Timeout, Failed, OnlyAt
<1>2. \A p \in wire' : PostSound(p)'
  BY <1>1, OrphansRest DEF Timeout
<1>3. SyncInv(n)'
  BY VariableTypes, SyncGone DEF Timeout, Failed
<1> QED
  BY <1>1, <1>2, <1>3, OthersRest DEF Exchanges

LEMMA CrashKeepsExchanges ==
    ASSUME ExchangeInv, Grown, NEW n \in Node, Crash(n)
    PROVE  Exchanges'
<1>1. OnlyAt(n)
  BY VariableTypes DEF Crash, OnlyAt
<1>2. {p \in wire : p.to # n} \in SUBSET wire
  OBVIOUS
<1>3. \A p \in wire' : PostSound(p)'
  BY <1>1, <1>2, OrphansRest DEF Crash
<1>4. SyncInv(n)'
  BY VariableTypes, SyncGone DEF Crash
<1> QED
  BY <1>1, <1>3, <1>4, OthersRest DEF Exchanges

LEMMA SubmitKeepsExchanges ==
    ASSUME ExchangeInv, Grown, NEW t \in Task, Submit(t)
    PROVE  Exchanges'
BY NoneMoves DEF Submit

\* The other posts, once p has left the wire.
LEMMA PostsLeft ==
    ASSUME ExchangeInv, Grown, NEW p \in wire, wire' = wire \ {p},
           \A m \in Node : sync'[m] = sync[m] \/ (p.live /\ m = p.from)
    PROVE  \A q \in wire' : PostSound(q)'
<1> SUFFICES ASSUME NEW q \in wire \ {p} PROVE PostSound(q)'
  OBVIOUS
<1>1. q.from \in Node
  BY VariableTypes DEF Post
<1>2. ~(p.live /\ q.live /\ q.from = p.from)
  BY DEF ExchangeInv, PostSound
<1> QED
  BY <1>1, <1>2, PostRests

LEMMA RefuseKeepsExchanges ==
    ASSUME ExchangeInv, Grown, NEW p \in wire, Refuse(p)
    PROVE  Exchanges'
<1>1. PICK n \in Node : n = p.from
  BY VariableTypes DEF Post
<1>2. wire' = wire \ {p} /\ handler' = handler
  BY DEF Refuse
<1>3. CASE p.live
  <2>1. OnlyAt(n)
    BY <1>1, <1>3, VariableTypes DEF Refuse, Failed, OnlyAt
  <2>2. handler[n] # "turn"
    BY <1>1, <1>3 DEF ExchangeInv, PostSound, SyncInv
  <2>3. SyncInv(n)'
    BY <1>1, <1>2, <1>3, <2>2, VariableTypes, SyncGone DEF Refuse, Failed
  <2>4. \A q \in wire' : PostSound(q)'
    BY <1>1, <1>2, <1>3, <2>1, PostsLeft DEF OnlyAt
  <2> QED
    BY <2>1, <2>3, <2>4, OthersRest DEF Exchanges
<1>4. CASE ~p.live
  <2>1. sync' = sync /\ due' = due
    BY <1>4 DEF Refuse
  <2>2. \A m \in Node : SyncInv(m)'
    BY <1>2, <2>1, SyncRests
  <2>3. \A q \in wire' : PostSound(q)'
    BY <1>2, <2>1, PostsLeft
  <2> QED
    BY <2>2, <2>3 DEF Exchanges
<1> QED
  BY <1>3, <1>4

\* The answer to the post that the sender waits for: its event is there.
LEMMA AnswerKeepsExchanges ==
    ASSUME ExchangeInv, Grown, NEW p \in wire, Answer(p)
    PROVE  Exchanges'
<1>1. PICK n \in Node : n = p.from
  BY VariableTypes DEF Post
<1>2. wire' = wire \ {p} /\ UNCHANGED <<journal, due>> /\ p.taken
  BY DEF Answer
<1>3. \A m \in Node : handler'[m] = "turn" => handler[m] = "turn"
  BY VariableTypes DEF Answer
<1>4. CASE p.live
  <2>1. OnlyAt(n)
    BY <1>1, <1>2, <1>3, <1>4, VariableTypes DEF Answer, Resume, OnlyAt
  <2>2. \A q \in wire' : PostSound(q)'
    BY <1>1, <1>2, <1>4, <2>1, PostsLeft DEF OnlyAt
  <2>3. sync[n].phase = "posted" /\ p.to = Peer(n) /\ p.event \in Events(journal[p.to])
        /\ \A r \in journal[n] : r.position = sync[n].cursor => r.event = p.event
    BY <1>1, <1>2, <1>4 DEF ExchangeInv, PostSound
  <2>4. PICK m \in Node : m = Peer(n)
    BY <2>3, SyncType
  <2>5. handler'[n] # "turn"
    BY <1>3, <2>3 DEF ExchangeInv, SyncInv
  <2>6. /\ sync'[n].phase = "push" /\ sync'[n].cursor = sync[n].cursor
        /\ sync'[n].ceiling = sync[n].ceiling
        /\ sync'[n].turn = sync[n].turn /\ sync'[n].peer = sync[n].peer
    BY <1>1, <1>4, VariableTypes DEF Answer, Resume, Sync
  <2>7. There(n) = journal[m] /\ There(n)' = journal[m]
    BY <1>2, <2>4, <2>6 DEF There, Peer
  <2>8. PushSound(n) /\ DueSound(n)
    BY DEF ExchangeInv, SyncInv
  <2>9. PullSound(n)' /\ PushSound(n)'
    BY <1>2, <2>3, <2>4, <2>6, <2>7, <2>8 DEF PullSound, PushSound
  <2>10. DueSound(n)'
    BY <1>2, <2>3, <2>6, <2>7, <2>8 DEF DueSound, Full
  <2>11. SyncInv(n)'
    BY <1>2, <2>3, <2>5, <2>6, <2>9, <2>10, SamePeer
  <2> QED
    BY <2>1, <2>2, <2>11, OthersRest DEF Exchanges
<1>5. CASE ~p.live
  <2>1. sync' = sync
    BY <1>5 DEF Answer, Resume
  <2>2. \A m \in Node : SyncInv(m)'
    BY <1>2, <1>3, <2>1, SyncRests
  <2>3. \A q \in wire' : PostSound(q)'
    BY <1>2, <2>1, PostsLeft
  <2> QED
    BY <2>2, <2>3 DEF Exchanges
<1> QED
  BY <1>4, <1>5

LEMMA ReceiveKeepsExchanges ==
    ASSUME ExchangeInv, Grown, NEW p \in wire, Receive(p)
    PROVE  Exchanges'
<1>1. p \in Post /\ p.to \in Node /\ p.from \in Node /\ p.event \in Event
  BY VariableTypes DEF Post
<1>2. sync' = sync /\ due' = due
  BY DEF Receive
<1>3. \A m \in Node : handler'[m] = "turn" => handler[m] = "turn"
  BY VariableTypes DEF Receive
<1>4. \A m \in Node : SyncInv(m)'
  BY <1>2, <1>3, SyncRests
<1> DEFINE t == [p EXCEPT !.taken = TRUE]
<1>5. /\ t.event = p.event /\ t.to = p.to /\ t.from = p.from /\ t.live = p.live
      /\ t.taken /\ wire' = (wire \ {p}) \cup {t}
  BY <1>1 DEF Post, Receive
<1>6. p.event \in Events(journal'[p.to])
  <2>1. journal'[p.to] = Appended(journal[p.to], Batch(<<p.event>>))
    BY <1>1, VariableTypes DEF Receive
  <2>2. journal[p.to] \in SUBSET Row /\ IsFiniteSet(journal[p.to])
    BY <1>1, JournalType DEF ExchangeInv
  <2>3. Events(journal'[p.to]) = Events(journal[p.to]) \cup {p.event}
    BY <1>1, <2>1, <2>2, AppendedFacts, BatchOne
  <2> QED
    BY <2>3
<1> HIDE DEF t
<1>7. PICK n \in Node : n = p.from
  BY <1>1
<1>8. PostSound(t)'
  <2>1. \A kind \in Before(p.event.kind) : Has(journal'[p.to], kind, p.event.task)
    BY <1>1, NodeKept DEF ExchangeInv, PostSound
  <2>2. ASSUME p.live
        PROVE  /\ sync[n].phase = "posted" /\ p.to = Peer(n)
               /\ \A r \in journal'[n] : r.position = sync[n].cursor => r.event = p.event
               /\ \A q \in wire' : q.live /\ q.from = n => q = t
    <3>1. /\ sync[n].phase = "posted" /\ p.to = Peer(n)
          /\ \A r \in journal[n] : r.position = sync[n].cursor => r.event = p.event
          /\ \A q \in wire : q.live /\ q.from = n => q = p
      BY <1>7, <2>2 DEF ExchangeInv, PostSound
    <3>2. sync[n].cursor \in Nat /\ sync[n].ceiling \in Int
          /\ sync[n].cursor <= sync[n].ceiling /\ sync[n].ceiling <= High(journal[n])
          /\ High(journal[n]) \in Nat
      BY <3>1, SyncType, NodeKept DEF ExchangeInv, SyncInv, PushSound
    <3>3. \A r \in journal'[n] : r.position <= sync[n].cursor => r \in journal[n]
      BY <3>2, PartsKept
    <3>4. \A r \in journal'[n] : r.position = sync[n].cursor => r.event = p.event
      BY <3>1, <3>2, <3>3
    <3>5. \A q \in wire' : q.live /\ q.from = n => q = t
      BY <1>5, <3>1
    <3> QED
      BY <3>1, <3>4, <3>5
  <2> QED
    BY <1>2, <1>5, <1>6, <1>7, <2>1, <2>2 DEF PostSound, Peer
<1>9. ASSUME NEW q \in wire \ {p}
      PROVE  PostSound(q)'
  <2>1. ~(p.live /\ q.live /\ q.from = p.from)
    BY DEF ExchangeInv, PostSound
  <2>2. \A o \in wire' : q.live /\ o.live /\ o.from = q.from => o \in wire
    BY <1>5, <2>1
  <2> QED
    BY <1>2, <2>2, PostRests
<1>10. \A q \in wire' : PostSound(q)'
  BY <1>5, <1>8, <1>9
<1> QED
  BY <1>4, <1>10 DEF Exchanges

LEMMA ExchangesKept ==
    ASSUME ExchangeInv, Grown, [Next]_vars
    PROVE  Exchanges'
<1>1. ASSUME NEW n \in Node, Exchange(n)
      PROVE  Exchanges'
  BY <1>1, AskKeepsExchanges, TakeKeepsExchanges, TakeRefusedKeepsExchanges,
     PushKeepsExchanges, FirstTurnEndsKeepsExchanges, TurnDoneKeepsExchanges,
     SecondTurnEndsKeepsExchanges DEF Exchange
<1>2. ASSUME NEW n \in Node, Serve(n)
      PROVE  Exchanges'
  BY <1>2, StartKeepsExchanges, ReceiveKeepsExchanges, AnswerKeepsExchanges,
     RefuseKeepsExchanges DEF Serve
<1>3. ASSUME NEW n \in Node, Start(n) \/ Crash(n) \/ SyncBegin(n) \/ Timeout(n)
      PROVE  Exchanges'
  BY <1>3, StartKeepsExchanges, CrashKeepsExchanges, SyncBeginKeepsExchanges,
     TimeoutKeepsExchanges
<1>4. ASSUME NEW t \in Task, Submit(t)
      PROVE  Exchanges'
  BY <1>4, SubmitKeepsExchanges
<1>5. ASSUME UNCHANGED vars
      PROVE  Exchanges'
  BY <1>5, NoneMoves DEF vars
<1> QED
  BY <1>1, <1>2, <1>3, <1>4, <1>5 DEF Next

-----------------------------------------------------------------------------
(* The invariant, and what follows from it.                                 *)

LEMMA InitExchange ==
    ASSUME Init
    PROVE  ExchangeInv
<1>1. IInv
  BY InitInvariant
<1>2. \A n \in Node : Placed(journal[n])
  BY DEF Init, Placed
<1>3. CausalOrder
  BY DEF Init, CausalOrder
<1>4. ASSUME NEW n \in Node
      PROVE  SyncInv(n)
  <2>1. sync[n].phase = "idle" /\ due[n] = <<>> /\ handler[n] # "turn"
    BY DEF Init, NoSync
  <2>2. Len(due[n]) = 0 /\ Concluded(n) = {}
    BY <2>1 DEF Concluded
  <2> QED
    BY <2>1, <2>2 DEF SyncInv, PullSound, PushSound, DueSound
<1>5. wire = {}
  BY DEF Init
<1> QED
  BY <1>1, <1>2, <1>3, <1>4, <1>5 DEF ExchangeInv

LEMMA StepExchange ==
    ASSUME ExchangeInv, [Next]_vars
    PROVE  ExchangeInv'
<1>1. IInv'
  BY StepInvariant DEF ExchangeInv
<1>2. Grown /\ CausalOrder'
  BY SupplySteps, JournalsGrown
<1>3. Exchanges'
  BY <1>2, ExchangesKept
<1> QED
  BY <1>1, <1>2, <1>3 DEF ExchangeInv, Exchanges, Grown

\* The invariant of the exchange holds throughout: a page continues what has
\* been pulled, and a push has delivered what its cursor has passed.
THEOREM ExchangeKept == Spec => []ExchangeInv
<1>1. Init => ExchangeInv
  BY InitExchange
<1>2. ExchangeInv /\ [Next]_vars => ExchangeInv'
  BY StepExchange
<1> QED
  BY <1>1, <1>2, PTL DEF Spec

\* In every journal, at every moment, an event lies behind what it refers to,
\* whatever crash, timeout, late post or page boundary interrupts an exchange:
\* work() never meets a request whose task is still to come.
THEOREM StoredInOrder == Spec => []CausalOrder
BY ExchangeKept, PTL DEF ExchangeInv

\* A /sync that is answered 200 has brought all that either side held when it
\* began to both sides, and the node's receipt for each request among it;
\* unless the journal is full.
THEOREM SyncDelivers == Spec => []SyncKeepsPromise
<1>1. ExchangeInv => SyncKeepsPromise
  <2> SUFFICES ASSUME ExchangeInv, NEW n \in Node, NEW i \in Concluded(n)
               PROVE  LET here  == journal[n]
                          there == journal[Peers[n][i]]
                      IN  /\ due[n][i] \subseteq Events(here) \cap Events(there)
                          /\ High(here) < Capacity =>
                              \A e \in due[n][i] :
                                  e.kind = "verification_request"
                                  /\ <<n, e.task>> \in Verifiable
                                      => /\ Answered(n, here, e.task)
                                         /\ Answered(n, there, e.task)
    BY DEF SyncKeepsPromise
  <2>1. Promised(n, i)
    BY DEF ExchangeInv, SyncInv
  <2>2. High(journal[n]) \in Nat
    BY JournalType, FS_CardinalityType DEF ExchangeInv, High
  <2>3. High(journal[n]) < Capacity => ~Full(n)
    BY <2>2, ConstantsAssumption DEF Full
  <2> QED
    BY <2>1, <2>3 DEF Promised, Receipted
<1> QED
  BY <1>1, ExchangeKept, PTL

=============================================================================
