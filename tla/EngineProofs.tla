----------------------------- MODULE EngineProofs -----------------------------
(* Proofs about AssuranceEngine, for any supervisors and any bounds.        *)
EXTENDS AssuranceEngine, TLAPS

-----------------------------------------------------------------------------
(* The inductive invariant.                                                 *)

EngineTypeOK ==
    /\ lock \in Supervisor \cup {Nobody}
    /\ phase \in [Supervisor -> Phases]
    /\ closing \in [Supervisor -> {"no", "stopping", "closed"}]
    /\ processes \in [Supervisor -> Seq(Nat)]
    /\ launching \in [Supervisor -> SUBSET Nat]
    /\ awaited \in [Supervisor -> SUBSET Nat]
    /\ closeSet \in [Supervisor -> SUBSET Nat]
    /\ child \in Seq(Child)

\* The lock is held from before the first file or fork until closed or failed.
HoldsLock(t) ==
    /\ phase[t] \in {"init", "opening", "failing", "stopping", "relaunching"} => lock = t
    /\ phase[t] \in {"open", "running"} /\ closing[t] # "closed" => lock = t
    /\ closing[t] # "no" => phase[t] \in {"open", "running"}

\* What an engine manages are children of its own, by identity, past booting.
Manages(t) ==
    \A i \in 1..Len(processes[t]) :
        /\ processes[t][i] \in DOMAIN child
        /\ child[processes[t][i]].parent = t
        /\ child[processes[t][i]].identity = i - 1
        /\ child[processes[t][i]].state # "booting"

\* What it launches is one child, for the next identity.
Launches(t) ==
    /\ launching[t] # {} => phase[t] \in {"opening", "relaunching"}
    /\ \A c \in launching[t] :
        /\ c \in DOMAIN child
        /\ child[c].parent = t
        /\ child[c].identity = Len(processes[t])
        /\ child[c].state \in {"booting", "gone"}
        /\ launching[t] = {c}

\* What it stops is all it manages.
Stops(t) ==
    /\ phase[t] = "stopping" => Members(t) \subseteq awaited[t]
    /\ closing[t] = "stopping" => Members(t) \subseteq closeSet[t]
    /\ closing[t] = "closed" => Gone(Members(t))

\* A child that runs is managed, launched, or waited for by its supervisor.
Tended(c) ==
    LET t == child[c].parent IN
    Live(c) /\ ~Orphan(c) =>
        /\ phase[t] \notin {"new", "init", "over"}
        /\ IF phase[t] = "failing" /\ processes[t] = <<>>
           THEN c \in awaited[t]
           ELSE c \in Members(t) \cup launching[t]
        /\ child[c].state = "booting" => c \in launching[t]

\* Supervisors that live run an identity in one process.
OwnedOnce ==
    \A c, d \in DOMAIN child :
        /\ Live(c) /\ ~Orphan(c)
        /\ Live(d) /\ ~Orphan(d)
        /\ child[c].identity = child[d].identity
        => c = d

EngineInv ==
    /\ EngineTypeOK
    /\ \A t \in Supervisor : HoldsLock(t) /\ Manages(t) /\ Launches(t) /\ Stops(t)
    /\ \A c \in DOMAIN child : Tended(c)
    /\ OwnedOnce

-----------------------------------------------------------------------------
(* How children change.                                                     *)

\* No child is added, none changes hands, none comes back or boots again.
Ages ==
    /\ child' \in Seq(Child)
    /\ Len(child') = Len(child)
    /\ \A c \in DOMAIN child :
        /\ child'[c].identity = child[c].identity
        /\ child'[c].parent = child[c].parent
        /\ child'[c].state # child[c].state =>
            child[c].state # "gone" /\ child'[c].state # "booting"

\* A change of state of one child: the rest stays.
LEMMA OneAges ==
    ASSUME child \in Seq(Child), NEW c \in DOMAIN child,
           NEW u \in {"ready", "stopping", "gone"},
           child' = [child EXCEPT ![c].state = u],
           child[c].state = "gone" => u = "gone"
    PROVE  Ages
<1>1. child[c] \in Child
  OBVIOUS
<1>2. [child[c] EXCEPT !.state = u] \in Child
  BY <1>1 DEF Child
<1>3. child' \in Seq(Child) /\ Len(child') = Len(child)
  BY <1>2
<1>4. \A d \in DOMAIN child :
        child'[d] = IF d = c THEN [child[c] EXCEPT !.state = u] ELSE child[d]
  OBVIOUS
<1> QED
  BY <1>1, <1>3, <1>4 DEF Ages, Child

\* Terminating children stops some of those that run.
LEMMA TerminatedAges ==
    ASSUME child \in Seq(Child), NEW C, child' = Terminated(C)
    PROVE  /\ Ages
           /\ \A c \in DOMAIN child : c \notin C => child'[c] = child[c]
<1>1. \A c \in DOMAIN child : child[c] \in Child
  OBVIOUS
<1>2. \A c \in DOMAIN child : [child[c] EXCEPT !.state = "stopping"] \in Child
  BY <1>1 DEF Child
<1>3. child' \in [1..Len(child) -> Child]
  BY <1>1, <1>2 DEF Terminated
<1>4. child' \in Seq(Child) /\ Len(child') = Len(child)
  BY <1>3
<1>5. \A c \in DOMAIN child :
        child'[c] = IF c \in C /\ Live(c) THEN [child[c] EXCEPT !.state = "stopping"]
                    ELSE child[c]
  BY DEF Terminated
<1> QED
  BY <1>1, <1>4, <1>5 DEF Ages, Live, Child

LEMMA ChildTyped ==
    ASSUME child \in Seq(Child)
    PROVE  \A c \in DOMAIN child : /\ child[c] \in Child
                                   /\ child[c].parent \in Supervisor
<1>1. \A c \in DOMAIN child : child[c] \in Child
  OBVIOUS
<1> QED
  BY <1>1 DEF Child

\* As long as children only age and no dead supervisor revives, no identity gets
\* a second process.
LEMMA AgesKeepsOne ==
    ASSUME EngineInv, Ages, \A t \in Supervisor : phase[t] = "dead" => phase'[t] = "dead"
    PROVE  OwnedOnce'
<1>1. DOMAIN child' = DOMAIN child
  BY DEF Ages
<1>2. \A c \in DOMAIN child : child[c].parent \in Supervisor
  BY ChildTyped DEF EngineInv, EngineTypeOK
<1>3. \A c \in DOMAIN child : Live(c)' /\ ~Orphan(c)' => Live(c) /\ ~Orphan(c)
  BY <1>1, <1>2 DEF Ages, Live, Orphan
<1> QED
  BY <1>1, <1>3 DEF Ages, EngineInv, OwnedOnce

\* The invariant's reason for the lock: where a child may run, the lock is held.
LEMMA InvCovers == EngineInv => LockCoversChildren
<1> SUFFICES ASSUME EngineInv, NEW c \in DOMAIN child, Live(c), ~Orphan(c)
             PROVE  lock = child[c].parent
  BY DEF LockCoversChildren
<1> DEFINE t == child[c].parent
<1>1. Tended(c) /\ t \in Supervisor
  BY ChildTyped DEF EngineInv, EngineTypeOK
<1>2. HoldsLock(t) /\ Launches(t) /\ Stops(t) /\ phase[t] \in Phases
  BY <1>1 DEF EngineInv, EngineTypeOK
<1>3. phase[t] \notin {"new", "init", "over", "dead"}
  BY <1>1 DEF Tended, Orphan
<1>4. CASE phase[t] \in {"open", "running"}
  <2>1. c \in Members(t)
    BY <1>1, <1>2, <1>4 DEF Tended, Launches
  <2> QED
    BY <1>2, <1>4, <2>1 DEF HoldsLock, Stops, Gone
<1>5. CASE phase[t] \notin {"open", "running"}
  BY <1>2, <1>3, <1>5 DEF HoldsLock, Phases
<1> QED
  BY <1>4, <1>5

-----------------------------------------------------------------------------
(* One lemma for each step.                                                 *)

LEMMA InitEngine == Init => EngineInv
<1> SUFFICES ASSUME Init PROVE EngineInv
  OBVIOUS
<1> USE DEF Init
<1>1. EngineTypeOK
  BY DEF EngineTypeOK, Phases
<1>2. \A t \in Supervisor : HoldsLock(t) /\ Manages(t) /\ Launches(t) /\ Stops(t)
  BY DEF HoldsLock, Manages, Launches, Stops
<1>3. DOMAIN child = {}
  OBVIOUS
<1> QED
  BY <1>1, <1>2, <1>3 DEF EngineInv, OwnedOnce

\* A step that touches no child and no set of children, but the phase, the closing
\* or the lock of one supervisor.
LEMMA QuietStep ==
    ASSUME EngineInv, NEW s \in Supervisor,
           UNCHANGED <<processes, launching, awaited, closeSet, child>>,
           EngineTypeOK', HoldsLock(s)',
           \A t \in Supervisor : t # s => /\ phase'[t] = phase[t]
                                          /\ closing'[t] = closing[t]
                                          /\ lock = t => lock' = t,
           phase[s] # "dead",
           launching[s] # {} => phase'[s] \in {"opening", "relaunching"},
           phase'[s] = "stopping" => phase[s] = "stopping",
           closing'[s] = "stopping" => closing[s] = "stopping",
           closing'[s] = "closed" => closing[s] = "closed" \/ Gone(Members(s)),
           \A c \in DOMAIN child : child[c].parent = s /\ Live(c) =>
               /\ phase'[s] \notin {"new", "init", "over"}
               /\ phase'[s] = "failing" => phase[s] = "failing",
           phase[s] = "failing" =>
               phase'[s] = "failing" \/ \A c \in DOMAIN child : child[c].parent = s => ~Live(c)
    PROVE  EngineInv'
<1>1. ASSUME NEW t \in Supervisor
      PROVE  HoldsLock(t)'
  BY <1>1 DEF HoldsLock, EngineInv
<1>2. ASSUME NEW t \in Supervisor
      PROVE  Manages(t)' /\ Launches(t)' /\ Stops(t)'
  <2>1. Manages(t) /\ Launches(t) /\ Stops(t)
    BY DEF EngineInv
  <2>2. Manages(t)'
    BY <2>1 DEF Manages
  <2>3. Launches(t)'
    BY <2>1 DEF Launches
  <2>4. Members(t)' = Members(t) /\ (Gone(Members(t)) => Gone(Members(t))')
    BY DEF Members, Gone, Live
  <2>5. Stops(t)'
    BY <2>1, <2>4 DEF Stops
  <2> QED
    BY <2>2, <2>3, <2>5
<1>3. ASSUME NEW c \in DOMAIN child
      PROVE  Tended(c)'
  <2>1. child[c].parent \in Supervisor
    BY ChildTyped DEF EngineInv, EngineTypeOK
  <2>2. Tended(c)
    BY DEF EngineInv
  <2> QED
    BY <2>1, <2>2 DEF Tended, Orphan, Live, Members
<1>4. OwnedOnce'
  <2>1. Ages
    BY DEF Ages, EngineInv, EngineTypeOK
  <2> QED
    BY <2>1, AgesKeepsOne
<1> QED
  BY <1>1, <1>2, <1>3, <1>4 DEF EngineInv

\* A step that ages the children of one supervisor, and what it keeps of them.
LEMMA OwnStep ==
    ASSUME EngineInv, NEW s \in Supervisor, Ages, EngineTypeOK',
           phase[s] = "dead" => phase'[s] = "dead",
           \A t \in Supervisor : t # s => /\ phase'[t] = phase[t]
                                          /\ closing'[t] = closing[t]
                                          /\ processes'[t] = processes[t]
                                          /\ launching'[t] = launching[t]
                                          /\ awaited'[t] = awaited[t]
                                          /\ closeSet'[t] = closeSet[t]
                                          /\ lock = t => lock' = t,
           \A c \in DOMAIN child : child[c].parent # s => child'[c] = child[c],
           HoldsLock(s)', Manages(s)', Launches(s)', Stops(s)',
           \A c \in DOMAIN child : child[c].parent = s => Tended(c)'
    PROVE  EngineInv'
<1>1. DOMAIN child' = DOMAIN child
  BY DEF Ages
<1>2. ASSUME NEW t \in Supervisor, t # s
      PROVE  HoldsLock(t)' /\ Manages(t)' /\ Launches(t)' /\ Stops(t)'
  <2>1. HoldsLock(t) /\ Manages(t) /\ Launches(t) /\ Stops(t)
    BY DEF EngineInv
  <2>2. HoldsLock(t)'
    BY <1>2, <2>1 DEF HoldsLock
  <2>3. Manages(t)'
    BY <1>1, <1>2, <2>1 DEF Manages
  <2>4. Launches(t)'
    BY <1>1, <1>2, <2>1 DEF Launches
  <2>5. Members(t)' = Members(t) /\ (Gone(Members(t)) => Gone(Members(t))')
    <3>1. \A c \in Members(t) : child'[c] = child[c]
      BY <1>2, <2>1 DEF Members, Manages
    <3> QED
      BY <1>2, <3>1 DEF Members, Gone, Live
  <2>6. Stops(t)'
    BY <1>2, <2>1, <2>5 DEF Stops
  <2> QED
    BY <2>2, <2>3, <2>4, <2>6
<1>3. ASSUME NEW c \in DOMAIN child, child[c].parent # s
      PROVE  Tended(c)'
  <2>1. child[c].parent \in Supervisor
    BY ChildTyped DEF EngineInv, EngineTypeOK
  <2>2. Tended(c)
    BY DEF EngineInv
  <2> QED
    BY <1>3, <2>1, <2>2 DEF Tended, Orphan, Live, Members
<1>4. OwnedOnce'
  BY AgesKeepsOne
<1> QED
  BY <1>1, <1>2, <1>3, <1>4 DEF EngineInv

LEMMA InitBeginStep == ASSUME EngineInv, NEW s \in Supervisor, InitBegin(s) PROVE EngineInv'
<1>1. EngineTypeOK'
  BY DEF EngineInv, EngineTypeOK, InitBegin, Acquire, Phases
<1>2. \A c \in DOMAIN child : child[c].parent = s => ~Live(c)
  BY DEF EngineInv, InitBegin, Tended, Orphan
<1>3. launching[s] = {}
  BY DEF EngineInv, InitBegin, Launches
<1>4. HoldsLock(s)'
  BY DEF EngineInv, EngineTypeOK, InitBegin, Acquire, HoldsLock
<1>5. phase'[s] \in {"init", "over"} /\ closing' = closing /\ lock = Nobody
  BY DEF EngineInv, EngineTypeOK, InitBegin, Acquire
<1> QED
  BY <1>1, <1>2, <1>3, <1>4, <1>5, ConstantsAssumption, QuietStep
     DEF EngineInv, EngineTypeOK, InitBegin

LEMMA InitEndStep == ASSUME EngineInv, NEW s \in Supervisor, InitEnd(s) PROVE EngineInv'
<1>1. EngineTypeOK'
  BY DEF EngineInv, EngineTypeOK, InitEnd
<1>2. HoldsLock(s)'
  BY DEF EngineInv, EngineTypeOK, InitEnd, HoldsLock
<1>3. launching[s] = {} /\ phase'[s] = "over" /\ phase[s] = "over" /\ closing' = closing
  BY DEF EngineInv, InitEnd, Launches
<1>4. \A c \in DOMAIN child : child[c].parent = s => ~Live(c)
  BY DEF EngineInv, InitEnd, Tended, Orphan
<1> QED
  BY <1>1, <1>2, <1>3, <1>4, QuietStep DEF InitEnd

LEMMA WriteStep ==
    ASSUME EngineInv, NEW s \in Supervisor, WriteNext(s) PROVE EngineInv'
<1>1. PICK name \in {KeyFile[i] : i \in Identity} \cup {"engine.json"} : Write(s, name)
  BY DEF WriteNext
<1>2. phase[s] = "init" /\ phase'[s] \in {"init", "over"}
      /\ \A t \in Supervisor : t # s => phase'[t] = phase[t]
  BY <1>1 DEF Write, EngineInv, EngineTypeOK
<1>3. UNCHANGED <<lock, closing, processes, launching, awaited, closeSet, child>>
  BY <1>1 DEF Write
<1>4. phase' \in [Supervisor -> Phases]
  BY <1>1 DEF Write, EngineInv, EngineTypeOK, Phases
<1>5. EngineTypeOK'
  BY <1>3, <1>4 DEF EngineInv, EngineTypeOK
<1>6. HoldsLock(s)'
  BY <1>2, <1>3 DEF EngineInv, HoldsLock
<1>7. launching[s] = {}
  BY <1>2 DEF EngineInv, Launches
<1>8. \A c \in DOMAIN child : child[c].parent = s => ~Live(c)
  BY <1>2 DEF EngineInv, Tended, Orphan
<1> QED
  BY <1>2, <1>3, <1>5, <1>6, <1>7, <1>8, QuietStep

LEMMA OpenBeginStep == ASSUME EngineInv, NEW s \in Supervisor, OpenBegin(s) PROVE EngineInv'
<1>1. EngineTypeOK'
  BY DEF EngineInv, EngineTypeOK, OpenBegin, Acquire, Phases
<1>2. \A c \in DOMAIN child : child[c].parent = s => ~Live(c)
  BY DEF EngineInv, OpenBegin, Tended, Orphan
<1>3. launching[s] = {}
  BY DEF EngineInv, OpenBegin, Launches
<1>4. HoldsLock(s)'
  BY DEF EngineInv, EngineTypeOK, OpenBegin, Acquire, HoldsLock
<1>5. phase'[s] \in {"opening", "failing"} /\ closing' = closing /\ lock = Nobody
  BY DEF EngineInv, EngineTypeOK, OpenBegin, Acquire
<1> QED
  BY <1>1, <1>2, <1>3, <1>4, <1>5, ConstantsAssumption, QuietStep
     DEF EngineInv, EngineTypeOK, OpenBegin

LEMMA OpenFailsStep == ASSUME EngineInv, NEW s \in Supervisor, OpenFails(s) PROVE EngineInv'
<1>1. EngineTypeOK'
  BY DEF EngineInv, EngineTypeOK, OpenFails, Released, Phases
<1>2. \A c \in DOMAIN child : child[c].parent = s => ~Live(c)
  BY DEF EngineInv, OpenFails, Tended, Orphan, Gone
<1>3. launching[s] = {}
  BY DEF EngineInv, OpenFails, Launches
<1>4. HoldsLock(s)'
  BY DEF EngineInv, EngineTypeOK, OpenFails, HoldsLock
<1>5. phase[s] = "failing" /\ phase'[s] = "over" /\ closing' = closing
  BY DEF EngineInv, EngineTypeOK, OpenFails
<1> QED
  BY <1>1, <1>2, <1>3, <1>4, <1>5, QuietStep
     DEF EngineInv, EngineTypeOK, OpenFails, Released

\* Three children managed: none is being launched.
LEMMA ThreeManaged ==
    ASSUME EngineInv, NEW s \in Supervisor, Len(processes[s]) = 3
    PROVE  launching[s] = {}
<1> SUFFICES ASSUME NEW c \in launching[s] PROVE FALSE
  OBVIOUS
<1>1. c \in DOMAIN child /\ child[c].identity = 3
  <2>1. Launches(s)
    BY DEF EngineInv
  <2> QED
    BY <2>1 DEF Launches
<1>2. child[c] \in Child
  BY <1>1, ChildTyped DEF EngineInv, EngineTypeOK
<1> QED
  BY <1>1, <1>2 DEF Child, Identity

LEMMA OpenedStep == ASSUME EngineInv, NEW s \in Supervisor, Opened(s) PROVE EngineInv'
<1>1. EngineTypeOK'
  BY DEF EngineInv, EngineTypeOK, Opened, Phases
<1>2. launching[s] = {}
  BY ThreeManaged DEF Opened
<1>3. HoldsLock(s)'
  BY DEF EngineInv, EngineTypeOK, Opened, HoldsLock
<1>4. phase[s] = "opening" /\ phase'[s] = "open" /\ closing' = closing /\ lock' = lock
  BY DEF EngineInv, EngineTypeOK, Opened
<1> QED
  BY <1>1, <1>2, <1>3, <1>4, QuietStep DEF EngineInv, EngineTypeOK, Opened

LEMMA RecoveredStep == ASSUME EngineInv, NEW s \in Supervisor, Recovered(s) PROVE EngineInv'
<1>1. EngineTypeOK'
  BY DEF EngineInv, EngineTypeOK, Recovered, Phases
<1>2. launching[s] = {}
  BY ThreeManaged DEF Recovered
<1>3. HoldsLock(s)'
  BY DEF EngineInv, EngineTypeOK, Recovered, HoldsLock
<1>4. phase[s] = "relaunching" /\ phase'[s] = "open" /\ closing' = closing /\ lock' = lock
  BY DEF EngineInv, EngineTypeOK, Recovered
<1> QED
  BY <1>1, <1>2, <1>3, <1>4, QuietStep DEF EngineInv, EngineTypeOK, Recovered

\* A run moves between open and running, and touches no child.
LEMMA RunStep ==
    ASSUME EngineInv, NEW s \in Supervisor,
           RunBegin(s) \/ RunSyncs(s) \/ RunReports(s) \/ RunFails(s)
    PROVE  EngineInv'
<1> USE DEF RunBegin, RunSyncs, RunReports, RunFails, RunSettles, Idle
<1>1. /\ phase[s] \in {"open", "running"} /\ phase'[s] \in {"open", "running"}
      /\ \A t \in Supervisor : t # s => phase'[t] = phase[t]
      /\ phase' \in [Supervisor -> Phases]
  BY DEF EngineInv, EngineTypeOK, Phases
<1>2. UNCHANGED <<lock, closing, processes, launching, awaited, closeSet, child>>
  OBVIOUS
<1> HIDE DEF RunBegin, RunSyncs, RunReports, RunFails, RunSettles, Idle
<1>3. EngineTypeOK'
  BY <1>1, <1>2 DEF EngineInv, EngineTypeOK
<1>4. HoldsLock(s)'
  BY <1>1, <1>2 DEF EngineInv, HoldsLock
<1>5. launching[s] = {}
  BY <1>1 DEF EngineInv, Launches
<1> QED
  BY <1>1, <1>2, <1>3, <1>4, <1>5, QuietStep

LEMMA CloseEndsStep == ASSUME EngineInv, NEW s \in Supervisor, CloseEnds(s) PROVE EngineInv'
<1>1. EngineTypeOK'
  BY DEF EngineInv, EngineTypeOK, CloseEnds, Released
<1>2. phase[s] \in {"open", "running"} /\ phase' = phase /\ closing'[s] = "closed"
  BY DEF EngineInv, EngineTypeOK, CloseEnds, HoldsLock
<1>3. HoldsLock(s)'
  BY <1>2 DEF HoldsLock
<1>4. launching[s] = {}
  BY <1>2 DEF EngineInv, Launches
<1>5. Gone(Members(s))
  BY DEF CloseEnds, Gone, EngineInv, Stops
<1> QED
  BY <1>1, <1>2, <1>3, <1>4, <1>5, QuietStep DEF EngineInv, EngineTypeOK, CloseEnds, Released

LEMMA BootStep ==
    ASSUME EngineInv, NEW c \in DOMAIN child, NEW s \in Supervisor, s = child[c].parent,
           Boot(c)
    PROVE  EngineInv'
<1>1. s \in Supervisor /\ child[c] \in Child /\ child \in Seq(Child) /\ c \in Nat
  BY ChildTyped DEF EngineInv, EngineTypeOK
<1>2. /\ child[c].state = "booting"
      /\ UNCHANGED <<lock, phase, closing, awaited, closeSet>>
  BY DEF Boot
<1>3. Ages
  BY <1>1, <1>2, OneAges DEF Boot
<1>4. \A d \in DOMAIN child : d # c => child'[d] = child[d]
  BY DEF Boot
<1>5. CASE phase[s] = "dead"
  <2>1. UNCHANGED <<processes, launching>> /\ child'[c].state = "stopping"
    BY <1>1, <1>5 DEF Boot, Child
  <2>2. EngineTypeOK'
    BY <1>2, <1>3, <2>1 DEF Ages, EngineInv, EngineTypeOK
  <2>3. HoldsLock(s) /\ Manages(s) /\ Launches(s) /\ Stops(s)
    BY <1>1 DEF EngineInv
  <2>4. launching[s] = {}
    BY <1>5, <2>3 DEF Launches
  <2>5. Manages(s)'
    <3>1. DOMAIN child' = DOMAIN child
      BY <1>3 DEF Ages
    <3> SUFFICES ASSUME NEW i \in 1..Len(processes[s])
                 PROVE  /\ processes[s][i] \in DOMAIN child
                        /\ child'[processes[s][i]].parent = s
                        /\ child'[processes[s][i]].identity = i - 1
                        /\ child'[processes[s][i]].state # "booting"
      BY <2>1, <3>1 DEF Manages
    <3>2. PICK d \in DOMAIN child : d = processes[s][i]
      BY <2>3 DEF Manages
    <3>3. child[d].parent = s /\ child[d].identity = i - 1 /\ child[d].state # "booting"
      BY <2>3, <3>2 DEF Manages
    <3> QED
      BY <1>3, <3>2, <3>3 DEF Ages
  <2>6. HoldsLock(s)' /\ Launches(s)' /\ Stops(s)'
    BY <1>2, <1>5, <2>1, <2>3, <2>4 DEF HoldsLock, Launches, Stops
  <2>7. \A d \in DOMAIN child : child[d].parent = s => Tended(d)'
    BY <1>2, <1>3, <1>5 DEF Tended, Orphan, Ages
  <2>8. \A d \in DOMAIN child : child[d].parent # s => child'[d] = child[d]
    BY <1>4
  <2> QED
    BY <1>1, <1>2, <1>3, <2>1, <2>2, <2>5, <2>6, <2>7, <2>8, OwnStep
<1>6. CASE phase[s] # "dead"
  <2>1. /\ processes' = [processes EXCEPT ![s] = Append(@, c)]
        /\ launching' = [launching EXCEPT ![s] = {}]
        /\ child'[c] = [child[c] EXCEPT !.state = "ready"]
    BY <1>1, <1>6 DEF Boot
  <2>2. EngineTypeOK'
    <3>1. processes' \in [Supervisor -> Seq(Nat)]
      BY <1>1, <2>1 DEF EngineInv, EngineTypeOK
    <3> QED
      BY <1>1, <1>2, <1>3, <2>1, <3>1 DEF Ages, EngineInv, EngineTypeOK
  <2>3. HoldsLock(s) /\ Manages(s) /\ Launches(s) /\ Stops(s)
    BY <1>1 DEF EngineInv
  <2>4. c \in launching[s] /\ launching[s] = {c} /\ phase[s] \in {"opening", "relaunching"}
        /\ child[c].identity = Len(processes[s])
    BY <1>2, <1>6, <2>3 DEF EngineInv, Tended, Live, Orphan, Launches
  <2>5. /\ Len(processes'[s]) = Len(processes[s]) + 1 /\ Len(processes[s]) \in Nat
        /\ \A i \in 1..Len(processes'[s]) :
            processes'[s][i] = IF i = Len(processes[s]) + 1 THEN c ELSE processes[s][i]
        /\ launching'[s] = {}
    BY <1>1, <2>1 DEF EngineInv, EngineTypeOK
  <2>6. Manages(s)'
    <3> SUFFICES ASSUME NEW i \in 1..Len(processes'[s])
                 PROVE  /\ processes'[s][i] \in DOMAIN child'
                        /\ child'[processes'[s][i]].parent = s
                        /\ child'[processes'[s][i]].identity = i - 1
                        /\ child'[processes'[s][i]].state # "booting"
      BY DEF Manages
    <3>1. CASE i = Len(processes[s]) + 1
      BY <1>1, <1>3, <2>1, <2>4, <2>5, <3>1 DEF Child, Ages
    <3>2. CASE i # Len(processes[s]) + 1
      <4>1. i \in 1..Len(processes[s]) /\ processes'[s][i] = processes[s][i]
        BY <2>5, <3>2
      <4>2. child'[processes[s][i]] = child[processes[s][i]]
        BY <1>2, <1>4, <2>3, <4>1 DEF Manages
      <4> QED
        BY <1>3, <2>3, <4>1, <4>2 DEF Manages, Ages
    <3> QED
      BY <3>1, <3>2
  <2>7. HoldsLock(s)' /\ Launches(s)' /\ Stops(s)'
    BY <1>2, <2>3, <2>4, <2>5 DEF HoldsLock, Launches, Stops
  <2>8. ASSUME NEW d \in DOMAIN child, child[d].parent = s
        PROVE  Tended(d)'
    <3>1. Members(s) \cup {c} \subseteq Members(s)'
      <4>1. Members(s)' = {processes'[s][i] : i \in 1..Len(processes'[s])}
        BY DEF Members
      <4>2. c \in Members(s)'
        <5>1. Len(processes[s]) + 1 \in 1..Len(processes'[s])
          BY <2>5
        <5> QED
          BY <2>5, <4>1, <5>1
      <4>3. ASSUME NEW m \in Members(s)
            PROVE  m \in Members(s)'
        <5>1. PICK i \in 1..Len(processes[s]) : m = processes[s][i]
          BY <4>3 DEF Members
        <5>2. i \in 1..Len(processes'[s]) /\ i # Len(processes[s]) + 1
          BY <2>5
        <5>3. processes'[s][i] = m
          BY <2>5, <5>1, <5>2
        <5> QED
          BY <4>1, <5>2, <5>3
      <4> QED
        BY <4>2, <4>3
    <3>2. Tended(d)
      BY DEF EngineInv
    <3>3. child'[c].state = "ready"
      BY <1>1, <2>1 DEF Child
    <3>4. CASE d = c
      BY <1>2, <1>3, <2>4, <3>1, <3>3, <3>4, <2>8 DEF Tended, Ages
    <3>5. CASE d # c
      <4>1. child'[d] = child[d]
        BY <1>4, <3>5
      <4>2. Live(d) /\ ~Orphan(d) => d \in Members(s)
        BY <2>4, <2>8, <3>2, <3>5 DEF Tended
      <4>3. Live(d) /\ ~Orphan(d) => child[d].state # "booting"
        BY <2>4, <2>8, <3>2, <3>5 DEF Tended
      <4> QED
        BY <1>2, <2>4, <2>8, <3>1, <4>1, <4>2, <4>3 DEF Tended, Live, Orphan
    <3> QED
      BY <3>4, <3>5
  <2>9. \A d \in DOMAIN child : child[d].parent # s => child'[d] = child[d]
    BY <1>4
  <2>10. \A t \in Supervisor : t # s => processes'[t] = processes[t] /\ launching'[t] = launching[t]
    BY <2>1 DEF EngineInv, EngineTypeOK
  <2> QED
    BY <1>1, <1>2, <1>3, <2>2, <2>6, <2>7, <2>8, <2>9, <2>10, OwnStep
<1> QED
  BY <1>5, <1>6

\* A child that goes leaves everything else in order.
LEMMA GoneStep ==
    ASSUME EngineInv, NEW c \in DOMAIN child, NEW s \in Supervisor, s = child[c].parent,
           ChildDies(c) \/ Exit(c)
    PROVE  EngineInv'
<1>1. s \in Supervisor /\ child[c] \in Child /\ child \in Seq(Child)
  BY ChildTyped DEF EngineInv, EngineTypeOK
<1>2. /\ child' = [child EXCEPT ![c].state = "gone"]
      /\ UNCHANGED <<lock, phase, closing, processes, launching, awaited, closeSet>>
  BY DEF ChildDies, Exit
<1>3. Ages
  BY <1>1, <1>2, OneAges
<1>4. /\ \A d \in DOMAIN child : d # c => child'[d] = child[d]
      /\ child'[c].state = "gone"
  BY <1>1, <1>2 DEF Child
<1>5. EngineTypeOK'
  BY <1>2, <1>3 DEF Ages, EngineInv, EngineTypeOK
<1>6. HoldsLock(s) /\ Manages(s) /\ Launches(s) /\ Stops(s)
  BY <1>1 DEF EngineInv
<1>7. Manages(s)'
  BY <1>2, <1>3, <1>4, <1>6 DEF Manages, Ages
<1>8. Launches(s)'
  BY <1>2, <1>3, <1>4, <1>6 DEF Launches, Ages
<1>9. Stops(s)' /\ HoldsLock(s)'
  <2>1. Gone(Members(s)) => Gone(Members(s))'
    BY <1>2, <1>4, <1>6 DEF Gone, Live, Members, Manages
  <2> QED
    BY <1>2, <1>6, <2>1 DEF Stops, HoldsLock, Members
<1>10. ASSUME NEW d \in DOMAIN child
       PROVE  Tended(d)'
  <2>1. Tended(d)
    BY DEF EngineInv
  <2> QED
    BY <1>2, <1>3, <1>4, <2>1 DEF Tended, Live, Orphan, Members
<1>11. \A d \in DOMAIN child : child[d].parent # s => child'[d] = child[d]
  BY <1>4
<1> QED
  BY <1>1, <1>2, <1>3, <1>5, <1>7, <1>8, <1>9, <1>10, <1>11, OwnStep

\* A rejected launch leaves no child of its own, in open as in recover.
LEMMA RejectedStep ==
    ASSUME EngineInv, NEW s \in Supervisor, NEW timeout \in BOOLEAN,
           OpenLaunchFails(s, timeout) \/ RecoverFails(s, timeout)
    PROVE  EngineInv'
<1>1. /\ LaunchRejected(s, timeout)
      /\ UNCHANGED <<lock, closing, processes, awaited, closeSet>>
  BY DEF OpenLaunchFails, RecoverFails
<1>2. PICK c \in launching[s] : child' = [child EXCEPT ![c].state = "gone"]
  BY <1>1 DEF LaunchRejected
<1>3. HoldsLock(s) /\ Manages(s) /\ Launches(s) /\ Stops(s)
  BY DEF EngineInv
<1>4. /\ c \in DOMAIN child /\ child[c].parent = s /\ launching[s] = {c}
      /\ child \in Seq(Child) /\ child[c] \in Child
  BY <1>3, ChildTyped DEF Launches, EngineInv, EngineTypeOK
<1>5. Ages
  BY <1>2, <1>4, OneAges
<1>6. /\ \A d \in DOMAIN child : d # c => child'[d] = child[d]
      /\ child'[c].state = "gone"
  BY <1>2, <1>4 DEF Child
<1>7. /\ launching' \in [Supervisor -> SUBSET Nat] /\ launching'[s] = {}
      /\ \A t \in Supervisor : t # s => launching'[t] = launching[t]
  BY <1>1 DEF LaunchRejected, EngineInv, EngineTypeOK
<1>8. /\ phase' \in [Supervisor -> Phases]
      /\ \A t \in Supervisor : t # s => phase'[t] = phase[t]
      /\ \/ phase[s] = "opening" /\ phase'[s] = "failing"
         \/ phase[s] = "relaunching" /\ phase'[s] = "open"
  BY DEF OpenLaunchFails, RecoverFails, EngineInv, EngineTypeOK, Phases
<1>9. EngineTypeOK'
  BY <1>1, <1>5, <1>7, <1>8 DEF Ages, EngineInv, EngineTypeOK
<1>10. HoldsLock(s)' /\ Launches(s)' /\ Stops(s)'
  BY <1>1, <1>3, <1>7, <1>8 DEF HoldsLock, Launches, Stops
<1>11. Manages(s)'
  BY <1>1, <1>3, <1>5, <1>6 DEF Manages, Ages
<1>12. ASSUME NEW d \in DOMAIN child, child[d].parent = s
       PROVE  Tended(d)'
  <2>1. Tended(d)
    BY DEF EngineInv
  <2>2. CASE d = c
    BY <1>6, <2>2 DEF Tended, Live
  <2>3. CASE d # c
    <3>1. child'[d] = child[d]
      BY <1>6, <2>3
    <3>2. Live(d) => d \in Members(s) /\ child[d].state # "booting"
      BY <1>4, <1>8, <1>12, <2>1, <2>3 DEF Tended, Orphan
    <3>3. Members(s)' = Members(s)
      BY <1>1 DEF Members
    <3>4. CASE processes[s] = <<>>
      BY <3>1, <3>2, <3>4 DEF Members, Tended, Live
    <3>5. CASE processes[s] # <<>>
      BY <1>1, <1>8, <1>12, <3>1, <3>2, <3>3, <3>5 DEF Tended, Live
    <3> QED
      BY <3>4, <3>5
  <2> QED
    BY <2>2, <2>3
<1>13. \A d \in DOMAIN child : child[d].parent # s => child'[d] = child[d]
  BY <1>4, <1>6
<1> QED
  BY <1>1, <1>5, <1>7, <1>8, <1>9, <1>10, <1>11, <1>12, <1>13, OwnStep

\* What terminating the children an engine manages does to the invariant's parts.
LEMMA MembersTerminated ==
    ASSUME EngineInv, NEW s \in Supervisor, child' = Terminated(Members(s))
    PROVE  /\ Ages
           /\ \A d \in DOMAIN child : child[d].parent # s => child'[d] = child[d]
           /\ processes' = processes => Manages(s)'
           /\ \A d \in DOMAIN child : Live(d)' => Live(d)
           /\ \A d \in DOMAIN child : child'[d].state = "booting" => child[d].state = "booting"
<1>1. Manages(s) /\ child \in Seq(Child)
  BY DEF EngineInv, EngineTypeOK
<1>2. Ages /\ \A d \in DOMAIN child : d \notin Members(s) => child'[d] = child[d]
  BY <1>1, TerminatedAges
<1>3. \A d \in Members(s) : child[d].parent = s
  BY <1>1 DEF Members, Manages
<1>4. ASSUME processes' = processes
      PROVE  Manages(s)'
  <2> SUFFICES ASSUME NEW i \in 1..Len(processes[s])
               PROVE  /\ processes[s][i] \in DOMAIN child'
                      /\ child'[processes[s][i]].parent = s
                      /\ child'[processes[s][i]].identity = i - 1
                      /\ child'[processes[s][i]].state # "booting"
    BY <1>4 DEF Manages
  <2>1. /\ processes[s][i] \in DOMAIN child
        /\ child[processes[s][i]].parent = s
        /\ child[processes[s][i]].identity = i - 1
        /\ child[processes[s][i]].state # "booting"
    BY <1>1 DEF Manages
  <2> QED
    BY <1>2, <2>1 DEF Ages
<1>5. \A d \in DOMAIN child : Live(d)' => Live(d)
  BY <1>2 DEF Ages, Live
<1> QED
  BY <1>2, <1>3, <1>4, <1>5 DEF Ages

LEMMA OpenStopsStep == ASSUME EngineInv, NEW s \in Supervisor, OpenStops(s) PROVE EngineInv'
<1>1. /\ phase[s] = "failing" /\ processes[s] # <<>> /\ child' = Terminated(Members(s))
      /\ UNCHANGED <<lock, phase, closing, launching, closeSet>>
  BY DEF OpenStops
<1>2. /\ Ages
      /\ \A d \in DOMAIN child : child[d].parent # s => child'[d] = child[d]
      /\ \A d \in DOMAIN child : Live(d)' => Live(d)
      /\ \A d \in DOMAIN child : child'[d].state = "booting" => child[d].state = "booting"
  BY <1>1, MembersTerminated
<1>3. HoldsLock(s) /\ Launches(s) /\ Manages(s)
  BY DEF EngineInv
<1>4. launching[s] = {}
  BY <1>1, <1>3 DEF Launches
<1>5. Members(s) \subseteq Nat
  BY DEF Members, EngineInv, EngineTypeOK
<1>6. /\ awaited' \in [Supervisor -> SUBSET Nat] /\ awaited'[s] = Members(s)
      /\ processes' \in [Supervisor -> Seq(Nat)] /\ processes'[s] = <<>>
      /\ \A t \in Supervisor : t # s => awaited'[t] = awaited[t] /\ processes'[t] = processes[t]
  BY <1>5 DEF OpenStops, EngineInv, EngineTypeOK
<1>7. EngineTypeOK'
  BY <1>1, <1>2, <1>6 DEF Ages, EngineInv, EngineTypeOK
<1>8. HoldsLock(s)' /\ Manages(s)' /\ Launches(s)'
  BY <1>1, <1>3, <1>4, <1>6 DEF HoldsLock, Manages, Launches
<1>9. Stops(s)'
  BY <1>1, <1>3 DEF HoldsLock, Stops
<1>10. ASSUME NEW d \in DOMAIN child, child[d].parent = s
       PROVE  Tended(d)'
  <2>1. Tended(d)
    BY DEF EngineInv
  <2>2. Live(d) => d \in Members(s) /\ child[d].state # "booting"
    BY <1>1, <1>4, <1>10, <2>1 DEF Tended, Orphan
  <2>3. child'[d].parent = s
    BY <1>2, <1>10 DEF Ages
  <2> QED
    BY <1>1, <1>2, <1>6, <2>2, <2>3 DEF Tended
<1> QED
  BY <1>1, <1>2, <1>6, <1>7, <1>8, <1>9, <1>10, OwnStep

LEMMA RecoverBeginStep ==
    ASSUME EngineInv, NEW s \in Supervisor, RecoverBegin(s) PROVE EngineInv'
<1>1. /\ phase[s] = "open" /\ closing[s] = "no" /\ child' = Terminated(Members(s))
      /\ UNCHANGED <<lock, closing, processes, launching, closeSet>>
  BY DEF RecoverBegin, Idle
<1>2. /\ Ages
      /\ \A d \in DOMAIN child : child[d].parent # s => child'[d] = child[d]
      /\ Manages(s)'
      /\ \A d \in DOMAIN child : Live(d)' => Live(d)
      /\ \A d \in DOMAIN child : child'[d].state = "booting" => child[d].state = "booting"
  BY <1>1, MembersTerminated
<1>3. HoldsLock(s) /\ Launches(s)
  BY DEF EngineInv
<1>4. launching[s] = {}
  BY <1>1, <1>3 DEF Launches
<1>5. Members(s) \subseteq Nat
  BY DEF Members, EngineInv, EngineTypeOK
<1>6. /\ awaited' \in [Supervisor -> SUBSET Nat] /\ awaited'[s] = Members(s)
      /\ phase' \in [Supervisor -> Phases] /\ phase'[s] = "stopping"
      /\ \A t \in Supervisor : t # s => awaited'[t] = awaited[t] /\ phase'[t] = phase[t]
  BY <1>5 DEF RecoverBegin, EngineInv, EngineTypeOK, Phases
<1>7. EngineTypeOK'
  BY <1>1, <1>2, <1>6 DEF Ages, EngineInv, EngineTypeOK
<1>8. HoldsLock(s)' /\ Launches(s)'
  BY <1>1, <1>3, <1>4, <1>6 DEF HoldsLock, Launches
<1>9. Members(s)' = Members(s)
  BY <1>1 DEF Members
<1>10. Stops(s)'
  BY <1>1, <1>6, <1>9 DEF Stops
<1>11. ASSUME NEW d \in DOMAIN child, child[d].parent = s
       PROVE  Tended(d)'
  <2>1. Tended(d)
    BY DEF EngineInv
  <2>2. Live(d) => d \in Members(s) /\ child[d].state # "booting"
    BY <1>1, <1>4, <1>11, <2>1 DEF Tended, Orphan
  <2>3. child'[d].parent = s
    BY <1>2, <1>11 DEF Ages
  <2> QED
    BY <1>2, <1>6, <1>9, <2>2, <2>3 DEF Tended
<1> QED
  BY <1>1, <1>2, <1>6, <1>7, <1>8, <1>10, <1>11, OwnStep

\* Recovery goes on to fork only when none of the old children runs.
LEMMA RecoverStoppedStep ==
    ASSUME EngineInv, NEW s \in Supervisor, RecoverStopped(s) PROVE EngineInv'
<1>1. /\ phase[s] = "stopping" /\ Gone(awaited[s])
      /\ UNCHANGED <<lock, closing, launching, awaited, closeSet, child>>
  BY DEF RecoverStopped
<1>2. /\ phase' \in [Supervisor -> Phases] /\ phase'[s] = "relaunching"
      /\ processes' \in [Supervisor -> Seq(Nat)] /\ processes'[s] = <<>>
      /\ \A t \in Supervisor : t # s => processes'[t] = processes[t] /\ phase'[t] = phase[t]
  BY DEF RecoverStopped, EngineInv, EngineTypeOK, Phases
<1>3. HoldsLock(s) /\ Launches(s) /\ Stops(s)
  BY DEF EngineInv
<1>4. Ages
  BY <1>1 DEF Ages, EngineInv, EngineTypeOK
<1>5. EngineTypeOK'
  BY <1>1, <1>2 DEF EngineInv, EngineTypeOK
<1>6. HoldsLock(s)' /\ Manages(s)' /\ Launches(s)' /\ Stops(s)'
  BY <1>1, <1>2, <1>3 DEF HoldsLock, Manages, Launches, Stops
<1>7. ASSUME NEW d \in DOMAIN child, child[d].parent = s
      PROVE  Tended(d)'
  <2>1. Tended(d)
    BY DEF EngineInv
  <2>2. launching[s] = {} /\ Members(s) \subseteq awaited[s]
    BY <1>1, <1>3 DEF Launches, Stops
  <2>3. ~Live(d)
    BY <1>1, <1>7, <2>1, <2>2 DEF Tended, Orphan, Gone
  <2> QED
    BY <1>1, <2>3 DEF Tended, Live
<1> QED
  BY <1>1, <1>2, <1>4, <1>5, <1>6, <1>7, OwnStep

LEMMA CloseBeginStep ==
    ASSUME Impatient = FALSE, EngineInv, NEW s \in Supervisor, CloseBegin(s)
    PROVE  EngineInv'
<1>1. /\ phase[s] \in {"open", "running"} /\ closing[s] = "no"
      /\ child' = Terminated(Members(s))
      /\ UNCHANGED <<lock, phase, processes, launching, awaited>>
  BY DEF CloseBegin, Closable
<1>2. /\ Ages
      /\ \A d \in DOMAIN child : child[d].parent # s => child'[d] = child[d]
      /\ Manages(s)'
      /\ \A d \in DOMAIN child : Live(d)' => Live(d)
      /\ \A d \in DOMAIN child : child'[d].state = "booting" => child[d].state = "booting"
  BY <1>1, MembersTerminated
<1>3. HoldsLock(s) /\ Launches(s)
  BY DEF EngineInv
<1>4. launching[s] = {}
  BY <1>1, <1>3 DEF Launches
<1>5. Members(s) \subseteq Nat
  BY DEF Members, EngineInv, EngineTypeOK
<1>6. /\ closeSet' \in [Supervisor -> SUBSET Nat] /\ closeSet'[s] = Members(s)
      /\ closing' \in [Supervisor -> {"no", "stopping", "closed"}] /\ closing'[s] = "stopping"
      /\ \A t \in Supervisor : t # s => closeSet'[t] = closeSet[t] /\ closing'[t] = closing[t]
  BY <1>5 DEF CloseBegin, EngineInv, EngineTypeOK
<1>7. EngineTypeOK'
  BY <1>1, <1>2, <1>6 DEF Ages, EngineInv, EngineTypeOK
<1>8. HoldsLock(s)' /\ Launches(s)'
  BY <1>1, <1>3, <1>4, <1>6 DEF HoldsLock, Launches
<1>9. Members(s)' = Members(s)
  BY <1>1 DEF Members
<1>10. Stops(s)'
  BY <1>1, <1>6, <1>9 DEF Stops
<1>11. ASSUME NEW d \in DOMAIN child, child[d].parent = s
       PROVE  Tended(d)'
  <2>1. Tended(d)
    BY DEF EngineInv
  <2>2. Live(d) => d \in Members(s) /\ child[d].state # "booting"
    BY <1>1, <1>4, <1>11, <2>1 DEF Tended, Orphan
  <2>3. child'[d].parent = s
    BY <1>2, <1>11 DEF Ages
  <2> QED
    BY <1>1, <1>2, <1>9, <2>2, <2>3 DEF Tended
<1> QED
  BY <1>1, <1>2, <1>6, <1>7, <1>8, <1>10, <1>11, OwnStep

\* The death of a supervisor: what it leaves behind are orphans.
LEMMA DieStep ==
    ASSUME EngineInv, NEW s \in Supervisor, Die(s) PROVE EngineInv'
<1> DEFINE C == {c \in DOMAIN child : child[c].parent = s /\ child[c].state = "ready"}
<1>1. child' = Terminated(C) /\ child \in Seq(Child)
  BY DEF Die, EngineInv, EngineTypeOK
<1>2. Ages /\ \A d \in DOMAIN child : child[d].parent # s => child'[d] = child[d]
  BY <1>1, TerminatedAges
<1>3. /\ phase' = [phase EXCEPT ![s] = "dead"]
      /\ closing' = [closing EXCEPT ![s] = "no"]
      /\ processes' = [processes EXCEPT ![s] = <<>>]
      /\ launching' = [launching EXCEPT ![s] = {}]
      /\ awaited' = [awaited EXCEPT ![s] = {}]
      /\ closeSet' = [closeSet EXCEPT ![s] = {}]
      /\ lock' = IF lock = s THEN Nobody ELSE lock
  BY DEF Die, Released
<1>4. EngineTypeOK'
  <2>1. processes' \in [Supervisor -> Seq(Nat)]
    BY <1>3 DEF EngineInv, EngineTypeOK
  <2> QED
    BY <1>2, <1>3, <2>1 DEF Ages, EngineInv, EngineTypeOK, Phases
<1>5. /\ phase'[s] = "dead" /\ closing'[s] = "no" /\ processes'[s] = <<>>
      /\ launching'[s] = {}
  BY <1>3 DEF EngineInv, EngineTypeOK
<1>6. HoldsLock(s)' /\ Manages(s)' /\ Launches(s)' /\ Stops(s)'
  BY <1>5 DEF HoldsLock, Manages, Launches, Stops
<1>7. \A d \in DOMAIN child : child[d].parent = s => Tended(d)'
  BY <1>2, <1>5 DEF Tended, Orphan, Ages
<1>8. \A t \in Supervisor : t # s => /\ phase'[t] = phase[t] /\ closing'[t] = closing[t]
                                     /\ processes'[t] = processes[t]
                                     /\ launching'[t] = launching[t]
                                     /\ awaited'[t] = awaited[t]
                                     /\ closeSet'[t] = closeSet[t]
                                     /\ lock = t => lock' = t
  BY <1>3 DEF EngineInv, EngineTypeOK
<1> QED
  BY <1>2, <1>4, <1>5, <1>6, <1>7, <1>8, OwnStep

\* A fork: the new child is for an identity no other child of its supervisor has.
LEMMA ForkStep ==
    ASSUME EngineInv, NEW s \in Supervisor, Fork(s) PROVE EngineInv'
<1> DEFINE n == Len(child) + 1
           new == [identity |-> Len(processes[s]), parent |-> s, state |-> "booting"]
<1>1. /\ phase[s] \in {"opening", "relaunching"} /\ launching[s] = {}
      /\ Len(processes[s]) < 3 /\ Len(processes[s]) \in Nat
      /\ child \in Seq(Child) /\ Len(child) \in Nat
  BY DEF Fork, EngineInv, EngineTypeOK
<1>2. UNCHANGED <<lock, phase, closing, processes, awaited, closeSet>>
  BY DEF Fork
<1>3. new \in Child
  <2>1. ASSUME NEW k \in Nat, k < 3
        PROVE  k \in Identity
    BY <2>1 DEF Identity
  <2>2. Len(processes[s]) \in Identity
    BY <1>1, <2>1
  <2> QED
    BY <2>2 DEF Child
<1>4. /\ child' \in Seq(Child) /\ Len(child') = n
      /\ \A c \in DOMAIN child : child'[c] = child[c] /\ c \in DOMAIN child'
      /\ DOMAIN child' = DOMAIN child \cup {n} /\ child'[n] = new
  BY <1>1, <1>3 DEF Fork
<1>5. n \notin DOMAIN child /\ n \in Nat
  BY <1>1
<1>6. launching' = [launching EXCEPT ![s] = {n}]
  BY DEF Fork
<1> HIDE DEF n
<1>7. /\ launching' \in [Supervisor -> SUBSET Nat] /\ launching'[s] = {n}
      /\ \A t \in Supervisor : t # s => launching'[t] = launching[t]
  BY <1>5, <1>6 DEF EngineInv, EngineTypeOK
<1>8. EngineTypeOK'
  BY <1>2, <1>4, <1>7 DEF EngineInv, EngineTypeOK
<1>9. /\ new.identity = Len(processes[s]) /\ new.parent = s /\ new.state = "booting"
  OBVIOUS
<1> HIDE DEF new
<1>10. ASSUME NEW t \in Supervisor
       PROVE  HoldsLock(t)' /\ Manages(t)' /\ Launches(t)' /\ Stops(t)'
  <2>1. HoldsLock(t) /\ Manages(t) /\ Launches(t) /\ Stops(t)
    BY DEF EngineInv
  <2>2. HoldsLock(t)'
    BY <1>2, <2>1 DEF HoldsLock
  <2>3. Manages(t)'
    BY <1>2, <1>4, <2>1 DEF Manages
  <2>4. Launches(t)'
    BY <1>1, <1>2, <1>4, <1>7, <1>9, <2>1 DEF Launches
  <2>5. Members(t)' = Members(t) /\ Members(t) \subseteq DOMAIN child
    BY <1>2, <2>1 DEF Members, Manages
  <2>6. Stops(t)'
    BY <1>2, <1>4, <2>1, <2>5 DEF Stops, Gone, Live
  <2> QED
    BY <2>2, <2>3, <2>4, <2>6
<1>11. ASSUME NEW c \in DOMAIN child'
       PROVE  Tended(c)'
  <2>1. CASE c = n
    BY <1>1, <1>2, <1>4, <1>7, <1>9, <2>1 DEF Tended
  <2>2. CASE c # n
    <3>1. c \in DOMAIN child /\ child'[c] = child[c] /\ child[c].parent \in Supervisor
      BY <1>4, <2>2, ChildTyped DEF EngineInv, EngineTypeOK
    <3>2. Tended(c)
      BY <3>1 DEF EngineInv
    <3> QED
      BY <1>1, <1>2, <1>7, <3>1, <3>2 DEF Tended, Live, Orphan, Members
  <2> QED
    BY <2>1, <2>2
<1>12. ASSUME NEW c \in DOMAIN child, Live(c), ~Orphan(c), child[c].identity = new.identity
       PROVE  child[c].parent # s
  <2> SUFFICES ASSUME child[c].parent = s PROVE FALSE
    OBVIOUS
  <2>1. Tended(c) /\ Manages(s)
    BY DEF EngineInv
  <2>2. c \in Members(s)
    BY <1>1, <1>12, <2>1 DEF Tended
  <2> QED
    BY <1>1, <1>9, <1>12, <2>1, <2>2 DEF Members, Manages
<1>13. ASSUME NEW c \in DOMAIN child, Live(c), ~Orphan(c)
       PROVE  child[c].parent = s
  <2>1. lock = child[c].parent
    BY <1>13, InvCovers DEF LockCoversChildren
  <2>2. lock = s
    BY <1>1 DEF EngineInv, HoldsLock
  <2> QED
    BY <2>1, <2>2
<1>14. OwnedOnce'
  <2> SUFFICES ASSUME NEW c \in DOMAIN child', NEW d \in DOMAIN child',
                      Live(c)', ~Orphan(c)', Live(d)', ~Orphan(d)',
                      child'[c].identity = child'[d].identity
               PROVE  c = d
    BY DEF OwnedOnce
  <2>1. \A e \in DOMAIN child : Live(e)' = Live(e) /\ Orphan(e)' = Orphan(e)
    BY <1>2, <1>4 DEF Live, Orphan
  <2>2. OwnedOnce
    BY DEF EngineInv
  <2>3. CASE c \in DOMAIN child /\ d \in DOMAIN child
    BY <1>4, <2>1, <2>2, <2>3 DEF OwnedOnce
  <2>4. CASE c = n /\ d \in DOMAIN child
    BY <1>4, <1>12, <1>13, <2>1, <2>4
  <2>5. CASE d = n /\ c \in DOMAIN child
    BY <1>4, <1>12, <1>13, <2>1, <2>5
  <2> QED
    BY <1>4, <2>3, <2>4, <2>5
<1> QED
  BY <1>8, <1>10, <1>11, <1>14 DEF EngineInv

LEMMA StepEngine ==
    ASSUME Impatient = FALSE, EngineInv, [Next]_vars
    PROVE  EngineInv'
<1>1. ASSUME NEW s \in Supervisor, InitBegin(s) PROVE EngineInv'
  BY <1>1, InitBeginStep
<1>2. ASSUME NEW s \in Supervisor, OpenBegin(s) PROVE EngineInv'
  BY <1>2, OpenBeginStep
<1>3. ASSUME NEW s \in Supervisor,
             RunBegin(s) \/ RunFails(s) \/ RunSyncs(s) \/ RunReports(s)
      PROVE  EngineInv'
  BY <1>3, RunStep
<1>4. ASSUME NEW s \in Supervisor, RecoverBegin(s) PROVE EngineInv'
  BY <1>4, RecoverBeginStep
<1>5. ASSUME NEW s \in Supervisor, CloseBegin(s) PROVE EngineInv'
  BY <1>5, CloseBeginStep
<1>6. ASSUME NEW s \in Supervisor, Die(s) PROVE EngineInv'
  BY <1>6, DieStep
<1>7. ASSUME NEW s \in Supervisor, Proceed(s) PROVE EngineInv'
  BY <1>3, <1>7, WriteStep, InitEndStep, ForkStep, RejectedStep, OpenStopsStep,
     OpenFailsStep, OpenedStep, RecoverStoppedStep, RecoveredStep, CloseEndsStep DEF Proceed
<1>8. ASSUME NEW c \in DOMAIN child, Obeys(c) \/ ChildDies(c) PROVE EngineInv'
  <2>1. PICK s \in Supervisor : s = child[c].parent
    BY ChildTyped DEF EngineInv, EngineTypeOK
  <2> QED
    BY <1>8, <2>1, BootStep, GoneStep DEF Obeys
<1>9. CASE UNCHANGED vars
  <2>1. EngineTypeOK'
    BY <1>9 DEF vars, EngineInv, EngineTypeOK
  <2>2. \A t \in Supervisor : HoldsLock(t)' /\ Manages(t)' /\ Launches(t)'
    BY <1>9 DEF vars, EngineInv, HoldsLock, Manages, Launches
  <2>3. \A t \in Supervisor : Stops(t)'
    BY <1>9 DEF vars, EngineInv, Stops, Members, Gone, Live
  <2>4. \A c \in DOMAIN child' : Tended(c)'
    BY <1>9 DEF vars, EngineInv, Tended, Members, Live, Orphan
  <2>5. OwnedOnce'
    BY <1>9 DEF vars, EngineInv, OwnedOnce, Live, Orphan
  <2> QED
    BY <2>1, <2>2, <2>3, <2>4, <2>5 DEF EngineInv
<1> QED
  BY <1>1, <1>2, <1>3, <1>4, <1>5, <1>6, <1>7, <1>8, <1>9 DEF Next

\* No child of a killed supervisor is ready: those that were have seen the channel
\* close, those that boot look at it first.
OrphansUnready == \A c \in DOMAIN child : Orphan(c) => child[c].state # "ready"

LEMMA StepOrphans ==
    ASSUME EngineInv, OrphansUnready, [Next]_vars
    PROVE  OrphansUnready'
<1> USE DEF OrphansUnready, Orphan
<1>1. child \in Seq(Child) /\ phase \in [Supervisor -> Phases]
  BY DEF EngineInv, EngineTypeOK
<1>2. \A c \in DOMAIN child : child[c] \in Child /\ child[c].parent \in Supervisor
  BY <1>1, ChildTyped
<1>3. ASSUME UNCHANGED <<child, phase>> PROVE OrphansUnready'
  BY <1>3
<1>4. ASSUME Ages, \A t \in Supervisor : phase'[t] = "dead" => phase[t] = "dead",
             \A c \in DOMAIN child : child'[c].state = "ready" => child[c].state = "ready"
      PROVE  OrphansUnready'
  BY <1>2, <1>4 DEF Ages
<1>5. ASSUME NEW s \in Supervisor, Die(s) PROVE OrphansUnready'
  <2> DEFINE C == {c \in DOMAIN child : child[c].parent = s /\ child[c].state = "ready"}
  <2>1. child' = Terminated(C)
    BY <1>5 DEF Die
  <2>2. Ages /\ \A c \in DOMAIN child : c \notin C => child'[c] = child[c]
    BY <1>1, <2>1, TerminatedAges
  <2>3. \A c \in C : child'[c].state = "stopping"
    BY <1>2, <2>1 DEF Terminated, Live, Child
  <2>4. \A t \in Supervisor : t # s => phase'[t] = phase[t]
    BY <1>1, <1>5 DEF Die
  <2> QED
    BY <1>2, <2>2, <2>3, <2>4 DEF Ages
<1>6. ASSUME NEW c \in DOMAIN child, Boot(c) PROVE OrphansUnready'
  <2>1. Ages
    BY <1>1, <1>6, OneAges DEF Boot
  <2>2. \A d \in DOMAIN child : d # c => child'[d] = child[d]
    BY <1>6 DEF Boot
  <2>3. phase[child[c].parent] = "dead" => child'[c].state = "stopping"
    BY <1>2, <1>6 DEF Boot, Child
  <2>4. phase' = phase
    BY <1>6 DEF Boot
  <2> QED
    BY <2>1, <2>2, <2>3, <2>4 DEF Ages
<1>7. ASSUME NEW c \in DOMAIN child, ChildDies(c) \/ Exit(c) PROVE OrphansUnready'
  <2>1. child' = [child EXCEPT ![c].state = "gone"] /\ phase' = phase
    BY <1>7 DEF ChildDies, Exit
  <2>2. Ages
    BY <1>1, <2>1, OneAges
  <2>3. \A d \in DOMAIN child : child'[d].state = "ready" => child[d].state = "ready"
    BY <1>2, <2>1 DEF Child
  <2> QED
    BY <1>4, <2>1, <2>2, <2>3
<1>8. ASSUME NEW s \in Supervisor, Fork(s) PROVE OrphansUnready'
  <2> DEFINE new == [identity |-> Len(processes[s]), parent |-> s, state |-> "booting"]
  <2>1. child' = Append(child, new) /\ phase' = phase /\ new.state = "booting"
    BY <1>8 DEF Fork
  <2> HIDE DEF new
  <2>2. DOMAIN child' = DOMAIN child \cup {Len(child) + 1} /\ child'[Len(child) + 1] = new
        /\ \A c \in DOMAIN child : child'[c] = child[c]
    BY <1>1, <2>1
  <2> QED
    BY <2>1, <2>2
<1>9. ASSUME NEW s \in Supervisor, NEW timeout \in BOOLEAN,
             OpenLaunchFails(s, timeout) \/ RecoverFails(s, timeout)
      PROVE  OrphansUnready'
  <2>1. LaunchRejected(s, timeout) /\ \A t \in Supervisor : phase'[t] = "dead" => phase[t] = "dead"
    BY <1>1, <1>9 DEF OpenLaunchFails, RecoverFails
  <2>2. PICK c \in launching[s] : child' = [child EXCEPT ![c].state = "gone"]
    BY <2>1 DEF LaunchRejected
  <2>3. c \in DOMAIN child
    BY <2>2 DEF EngineInv, Launches
  <2>4. Ages
    BY <1>1, <2>2, <2>3, OneAges
  <2>5. \A d \in DOMAIN child : child'[d].state = "ready" => child[d].state = "ready"
    BY <1>2, <2>2, <2>3 DEF Child
  <2> QED
    BY <1>4, <2>1, <2>4, <2>5
<1>10. ASSUME NEW s \in Supervisor, OpenStops(s) \/ RecoverBegin(s) \/ CloseBegin(s)
       PROVE  OrphansUnready'
  <2>1. child' = Terminated(Members(s))
        /\ \A t \in Supervisor : phase'[t] = "dead" => phase[t] = "dead"
    BY <1>1, <1>10 DEF OpenStops, RecoverBegin, CloseBegin
  <2>2. Ages
    BY <1>1, <2>1, TerminatedAges
  <2>3. \A d \in DOMAIN child : child'[d].state = "ready" => child[d].state = "ready"
    BY <1>2, <2>1 DEF Terminated, Child
  <2> QED
    BY <1>4, <2>1, <2>2, <2>3
<1>11. ASSUME NEW s \in Supervisor,
              \/ InitBegin(s) \/ OpenBegin(s) \/ RunBegin(s) \/ RunFails(s) \/ WriteNext(s)
              \/ InitEnd(s) \/ OpenFails(s) \/ Opened(s) \/ RunSyncs(s) \/ RunReports(s)
              \/ RecoverStopped(s) \/ Recovered(s) \/ CloseEnds(s)
       PROVE  OrphansUnready'
  <2>1. child' = child
    BY <1>11 DEF InitBegin, OpenBegin, RunBegin, RunFails, RunSettles, WriteNext, Write, InitEnd,
       OpenFails, Opened, RunSyncs, RunReports, RecoverStopped, Recovered, CloseEnds
  <2>2. \A t \in Supervisor : phase'[t] = "dead" => phase[t] = "dead"
    BY <1>1, <1>11 DEF InitBegin, OpenBegin, RunBegin, RunFails, RunSettles, WriteNext, Write,
       InitEnd, OpenFails, Opened, RunSyncs, RunReports, RecoverStopped, Recovered, CloseEnds
  <2> QED
    BY <1>2, <2>1, <2>2
<1>12. CASE UNCHANGED vars
  BY <1>3, <1>12 DEF vars
<1> QED
  BY <1>5, <1>6, <1>7, <1>8, <1>9, <1>10, <1>11, <1>12 DEF Next, Proceed, Obeys

-----------------------------------------------------------------------------
(* The theorems.                                                            *)

\* The inductive invariant, whenever callers wait for recover() before they close.
THEOREM EngineKept ==
    ASSUME Impatient = FALSE
    PROVE  Spec => []EngineInv
<1>1. Init => EngineInv
  BY InitEngine
<1>2. EngineInv /\ [Next]_vars => EngineInv'
  BY StepEngine
<1> QED
  BY <1>1, <1>2, PTL DEF Spec

\* "One workspace admits one supervisor": whatever a run, an open, a recover or a
\* close of engine.ts is in the middle of, and however its children or another
\* supervisor die, only the holder of the lock has children that run.
THEOREM OneSupervisor ==
    ASSUME Impatient = FALSE
    PROVE  Spec => []LockCoversChildren
  BY EngineKept, InvCovers, PTL

\* Two processes of one of the three identities of initializeEngine run at a time
\* only where a supervisor was killed: one of them is its child, and has been told to
\* stop or has yet to find out.  Recoveries, failed opens and closes never overlap.
THEOREM SecondSignerIsOrphan ==
    ASSUME Impatient = FALSE
    PROVE  Spec => []OnlyOrphansOverlap
<1>1. Init => OrphansUnready
  BY DEF Init, OrphansUnready
<1>2. EngineInv /\ OrphansUnready /\ [Next]_vars => OrphansUnready'
  BY StepOrphans
<1>3. EngineInv /\ OrphansUnready => OnlyOrphansOverlap
  <2> SUFFICES ASSUME EngineInv, OrphansUnready,
                      NEW c \in DOMAIN child, NEW d \in DOMAIN child,
                      Live(c), Live(d), c # d, child[c].identity = child[d].identity
               PROVE  \E e \in {c, d} : Orphan(e) /\ child[e].state # "ready"
    BY DEF OnlyOrphansOverlap
  <2>1. Orphan(c) \/ Orphan(d)
    BY DEF EngineInv, OwnedOnce
  <2> QED
    BY <2>1 DEF OrphansUnready
<1> QED
  BY <1>1, <1>2, <1>3, EngineKept, PTL DEF Spec

\* initializeEngine writes the configuration last: also after a death half way, and
\* however two of them meet, engine.json names three keys that are there.
THEOREM KeysFirst == Spec => []ConfigurationHasKeys
<1>1. Init => ConfigurationHasKeys
  BY DEF Init, ConfigurationHasKeys
<1>2. ASSUME ConfigurationHasKeys, [Next]_vars
      PROVE  ConfigurationHasKeys'
  <2>1. ASSUME NEW s \in Supervisor, WriteNext(s)
        PROVE  ConfigurationHasKeys'
    <3>1. CASE \E i \in Identity : Write(s, KeyFile[i])
      <4>1. \A i \in Identity : KeyFile[i] # "engine.json"
        BY DEF KeyFile, Identity
      <4> QED
        BY <1>2, <3>1, <4>1 DEF Write, ConfigurationHasKeys
    <3>2. CASE /\ \A j \in Identity : [name |-> KeyFile[j], by |-> s] \in files
               /\ Write(s, "engine.json")
      BY <1>2, <3>2 DEF Write, ConfigurationHasKeys
    <3> QED
      BY <2>1, <3>1, <3>2 DEF WriteNext
  <2>2. CASE \A s \in Supervisor : ~WriteNext(s)
    <3>1. UNCHANGED files
      BY <1>2, <2>2 DEF Next, vars, InitBegin, OpenBegin, RunBegin, RecoverBegin, CloseBegin,
         RunFails, RunReports, RunSettles, RunSyncs, Die, Proceed, InitEnd, Fork,
         OpenLaunchFails, RecoverFails, OpenStops, OpenFails, Opened, RecoverStopped,
         Recovered, CloseEnds, Obeys, Boot, Exit, ChildDies
    <3> QED
      BY <1>2, <3>1 DEF ConfigurationHasKeys
  <2> QED
    BY <2>1, <2>2
<1> QED
  BY <1>1, <1>2, PTL DEF Spec

=============================================================================
