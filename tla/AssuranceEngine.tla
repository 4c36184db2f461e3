--------------------------- MODULE AssuranceEngine ---------------------------
(***************************************************************************)
(* The supervisor of a workspace and the three child processes it keeps:   *)
(* initializeEngine and AssuranceEngine of src/lib/assurance/engine.ts,    *)
(* with the life of a child as worker.ts gives it.                         *)
(*                                                                         *)
(* Several supervisor processes may try one workspace; a SQLite lock that  *)
(* the operating system releases with its holder admits one at a time.     *)
(* open, run, recover and close are asynchronous methods of one object:    *)
(* between two awaits of one, the others run, and children die.            *)
(*                                                                         *)
(* What a run submits and what the children exchange is LatticeNode's; a   *)
(* run here is the order of its calls and the ways it ends.                *)
(***************************************************************************)
EXTENDS Naturals, Sequences, FiniteSets

CONSTANTS
    Supervisor,    \* the supervisor processes, each with one engine object
    Nobody,        \* who holds a free lock
    Impatient,     \* whether callers call close() before recover() has settled
    MaxLaunches,   \* bound on the children ever forked
    MaxDeaths,     \* bound on supervisors killed
    MaxMishaps     \* bound on children dying and on launches timing out

Identity == 0..2   \* the owner and two workers

Pid == 1..MaxLaunches

ASSUME ConstantsAssumption ==
    /\ Nobody \notin Supervisor
    /\ Impatient \in BOOLEAN
    /\ MaxLaunches \in Nat
    /\ MaxDeaths \in Nat
    /\ MaxMishaps \in Nat

File == [name: {"identity-0", "identity-1", "identity-2", "engine.json"},
         by: Supervisor]

VARIABLES
    lock,       \* who holds supervisor.sqlite
    files,      \* the files of the workspace, and who wrote them
    phase,      \* per supervisor: what its engine, or its init, is awaiting
    closing,    \* per supervisor: "no", "stopping" or "closed"
    busy,       \* per supervisor: the flag of that name
    processes,  \* per supervisor: the children it manages, by identity
    launching,  \* per supervisor: the children it awaits the readiness of
    awaited,    \* per supervisor: the children whose exit it awaits
    closeSet,   \* per supervisor: the children close() awaits the exit of
    synced,     \* per supervisor: how many of the children a run is through
    child,      \* the children ever forked
    deaths, mishaps

vars == <<lock, files, phase, closing, busy, processes, launching, awaited,
          closeSet, synced, child, deaths, mishaps>>

Phases == {"new", "init", "opening", "failing", "open", "running", "stopping",
           "relaunching", "over", "dead"}

Child == [identity: Identity, parent: Supervisor,
          state: {"booting", "ready", "stopping", "gone"}]

Members(s) == {processes[s][i] : i \in 1..Len(processes[s])}

Live(c) == child[c].state # "gone"

Gone(C) == \A c \in C : ~Live(c)

\* SIGTERM to the children in C that run.
Terminated(C) ==
    [c \in DOMAIN child |->
        IF c \in C /\ Live(c) THEN [child[c] EXCEPT !.state = "stopping"] ELSE child[c]]

Init ==
    /\ lock = Nobody
    /\ files = {}
    /\ phase = [s \in Supervisor |-> "new"]
    /\ closing = [s \in Supervisor |-> "no"]
    /\ busy = [s \in Supervisor |-> FALSE]
    /\ processes = [s \in Supervisor |-> <<>>]
    /\ launching = [s \in Supervisor |-> {}]
    /\ awaited = [s \in Supervisor |-> {}]
    /\ closeSet = [s \in Supervisor |-> {}]
    /\ synced = [s \in Supervisor |-> 0]
    /\ child = <<>>
    /\ deaths = 0
    /\ mishaps = 0

-----------------------------------------------------------------------------
(* The lock and the files of the workspace.                                 *)

\* Mutants.  A definition named ...Mutant is a plausible bug of the definition
\* that follows it; PROJECT.json says which property refutes it.

\* BEGIN EXCLUSIVE with no waiting: BUSY when another process holds it.
Acquire(s) == lock = Nobody /\ lock' = s

Released(s) == IF lock = s THEN Nobody ELSE lock

Written(name) == \E f \in files : f.name = name

\* initializeEngine, from the lock to the generated identities.
InitBegin(s) ==
    /\ phase[s] = "new"
    /\ Acquire(s)
    /\ phase' = [phase EXCEPT ![s] = IF files = {} THEN "init" ELSE "over"]
    /\ UNCHANGED <<files, closing, busy, processes, launching, awaited, closeSet,
                   synced, child, deaths, mishaps>>

\* The lock of an init that has been refused, or is done.
InitEnd(s) ==
    /\ phase[s] = "over"
    /\ closing[s] = "no"
    /\ lock = s
    /\ lock' = Nobody
    /\ UNCHANGED <<files, phase, closing, busy, processes, launching, awaited,
                   closeSet, synced, child, deaths, mishaps>>

\* One exclusive write: an existing file makes it, and the init, fail.
Write(s, name) ==
    /\ phase[s] = "init"
    /\ IF Written(name)
       THEN /\ phase' = [phase EXCEPT ![s] = "over"]
            /\ UNCHANGED files
       ELSE /\ files' = files \cup {[name |-> name, by |-> s]}
            /\ phase' = [phase EXCEPT ![s] = IF name = "engine.json" THEN "over" ELSE @]
    /\ UNCHANGED <<lock, closing, busy, processes, launching, awaited, closeSet,
                   synced, child, deaths, mishaps>>

KeyFile == [i \in Identity |->
              CASE i = 0 -> "identity-0" [] i = 1 -> "identity-1" [] i = 2 -> "identity-2"]

WriteNextMutant(s) ==  \* the configuration first, then the keys
    \/ ~Written("engine.json") /\ Write(s, "engine.json")
    \/ \E i \in Identity : Write(s, KeyFile[i])

\* The keys in order, the configuration last.
WriteNext(s) ==
    \/ \E i \in Identity :
        /\ \A j \in Identity : j < i => [name |-> KeyFile[j], by |-> s] \in files
        /\ [name |-> KeyFile[i], by |-> s] \notin files
        /\ Write(s, KeyFile[i])
    \/ /\ \A j \in Identity : [name |-> KeyFile[j], by |-> s] \in files
       /\ Write(s, "engine.json")

-----------------------------------------------------------------------------
(* Children: launch, stop, and what may happen to them.                     *)

\* fork, for the next identity in order.
Fork(s) ==
    /\ phase[s] \in {"opening", "relaunching"}
    /\ launching[s] = {}
    /\ Len(processes[s]) < 3
    /\ Len(child) < MaxLaunches
    /\ child' = Append(child, [identity |-> Len(processes[s]), parent |-> s,
                               state |-> "booting"])
    /\ launching' = [launching EXCEPT ![s] = {Len(child) + 1}]
    /\ UNCHANGED <<lock, files, phase, closing, busy, processes, awaited, closeSet,
                   synced, deaths, mishaps>>

BootMutant(c) ==  \* process.connected is not looked at
    /\ child[c].state = "booting"
    /\ child' = [child EXCEPT ![c].state = "ready"]
    /\ LET s == child[c].parent IN
        IF phase[s] = "dead"
        THEN UNCHANGED <<processes, launching>>
        ELSE /\ processes' = [processes EXCEPT ![s] = Append(@, c)]
             /\ launching' = [launching EXCEPT ![s] = {}]
    /\ UNCHANGED <<lock, files, phase, closing, busy, awaited, closeSet, synced,
                   deaths, mishaps>>

\* The end of worker.ts: a child without a parent shuts down, another one
\* reports that it is ready, and its launch resolves.
Boot(c) ==
    /\ child[c].state = "booting"
    /\ LET s == child[c].parent IN
        IF phase[s] = "dead"
        THEN /\ child' = [child EXCEPT ![c].state = "stopping"]
             /\ UNCHANGED <<processes, launching>>
        ELSE /\ child' = [child EXCEPT ![c].state = "ready"]
             /\ processes' = [processes EXCEPT ![s] = Append(@, c)]
             /\ launching' = [launching EXCEPT ![s] = {}]
    /\ UNCHANGED <<lock, files, phase, closing, busy, awaited, closeSet, synced,
                   deaths, mishaps>>

\* A child stops by itself, or is killed: before it is ready, or any time.
ChildDies(c) ==
    /\ child[c].state \in {"booting", "ready"}
    /\ mishaps < MaxMishaps
    /\ mishaps' = mishaps + 1
    /\ child' = [child EXCEPT ![c].state = "gone"]
    /\ UNCHANGED <<lock, files, phase, closing, busy, processes, launching, awaited,
                   closeSet, synced, deaths>>

\* node.close() and exit, or SIGKILL after two seconds.
Exit(c) ==
    /\ child[c].state = "stopping"
    /\ child' = [child EXCEPT ![c].state = "gone"]
    /\ UNCHANGED <<lock, files, phase, closing, busy, processes, launching, awaited,
                   closeSet, synced, deaths, mishaps>>

\* launch rejects: its child has exited, or the timer fires and sends SIGKILL.
\* That child runs no further line and nobody awaits its exit, so it is gone here
\* from the signal on.
LaunchRejected(s, timeout) ==
    /\ \E c \in launching[s] :
        /\ Live(c) <=> timeout
        /\ mishaps' = IF timeout THEN mishaps + 1 ELSE mishaps
        /\ mishaps' <= MaxMishaps
        /\ child' = [child EXCEPT ![c].state = "gone"]
    /\ launching' = [launching EXCEPT ![s] = {}]

-----------------------------------------------------------------------------
(* open                                                                     *)

OpenBegin(s) ==
    /\ phase[s] \in {"new", "over"}
    /\ Len(child) + 3 <= MaxLaunches
    /\ Acquire(s)
    /\ phase' = [phase EXCEPT ![s] =
                    IF Written("engine.json") THEN "opening" ELSE "failing"]
    /\ UNCHANGED <<files, closing, busy, processes, launching, awaited, closeSet,
                   synced, child, deaths, mishaps>>

OpenLaunchFails(s, timeout) ==
    /\ phase[s] = "opening"
    /\ LaunchRejected(s, timeout)
    /\ phase' = [phase EXCEPT ![s] = "failing"]
    /\ UNCHANGED <<lock, files, closing, busy, processes, awaited, closeSet, synced,
                   deaths>>

\* The children that had become ready are told to stop ...
OpenStops(s) ==
    /\ phase[s] = "failing"
    /\ processes[s] # <<>>
    /\ child' = Terminated(Members(s))
    /\ awaited' = [awaited EXCEPT ![s] = Members(s)]
    /\ processes' = [processes EXCEPT ![s] = <<>>]
    /\ UNCHANGED <<lock, files, phase, closing, busy, launching, closeSet, synced,
                   deaths, mishaps>>

OpenFailsMutant(s) ==  \* the exit of the children is not awaited
    /\ phase[s] = "failing"
    /\ processes[s] = <<>>
    /\ lock' = Released(s)
    /\ phase' = [phase EXCEPT ![s] = "over"]
    /\ UNCHANGED <<files, closing, busy, processes, launching, awaited, closeSet,
                   synced, child, deaths, mishaps>>

\* ... and the lock goes when they have.
OpenFails(s) ==
    /\ phase[s] = "failing"
    /\ processes[s] = <<>>
    /\ Gone(awaited[s])
    /\ lock' = Released(s)
    /\ phase' = [phase EXCEPT ![s] = "over"]
    /\ UNCHANGED <<files, closing, busy, processes, launching, awaited, closeSet,
                   synced, child, deaths, mishaps>>

Opened(s) ==
    /\ phase[s] = "opening"
    /\ Len(processes[s]) = 3
    /\ phase' = [phase EXCEPT ![s] = "open"]
    /\ UNCHANGED <<lock, files, closing, busy, processes, launching, awaited, closeSet,
                   synced, child, deaths, mishaps>>

-----------------------------------------------------------------------------
(* run                                                                      *)

Idle(s) == phase[s] = "open" /\ ~busy[s] /\ closing[s] = "no"

\* Everything up to the first await: the submission is in the journal.
RunBegin(s) ==
    /\ Idle(s)
    /\ busy' = [busy EXCEPT ![s] = TRUE]
    /\ phase' = [phase EXCEPT ![s] = "running"]
    /\ synced' = [synced EXCEPT ![s] = 1]
    /\ UNCHANGED <<lock, files, closing, processes, launching, awaited, closeSet,
                   child, deaths, mishaps>>

\* The next worker answers its /sync.
RunSyncs(s) ==
    /\ phase[s] = "running"
    /\ synced[s] < Len(processes[s])
    /\ child[processes[s][synced[s] + 1]].state = "ready"
    /\ synced' = [synced EXCEPT ![s] = @ + 1]
    /\ UNCHANGED <<lock, files, phase, closing, busy, processes, launching, awaited,
                   closeSet, child, deaths, mishaps>>

RunSettles(s) ==
    /\ phase' = [phase EXCEPT ![s] = "open"]
    /\ busy' = [busy EXCEPT ![s] = FALSE]
    /\ synced' = [synced EXCEPT ![s] = 0]
    /\ UNCHANGED <<lock, files, closing, processes, launching, awaited, closeSet,
                   child, deaths, mishaps>>

\* The owner's events are read and reported on.
RunReports(s) ==
    /\ phase[s] = "running"
    /\ synced[s] >= Len(processes[s])
    /\ processes[s] # <<>>
    /\ child[processes[s][1]].state = "ready"
    /\ RunSettles(s)

\* A worker or the owner is gone, refuses, or the deadline passes.
RunFails(s) ==
    /\ phase[s] = "running"
    /\ RunSettles(s)

-----------------------------------------------------------------------------
(* recover                                                                  *)

RecoverBegin(s) ==
    /\ Idle(s)
    /\ Len(child) + 3 <= MaxLaunches
    /\ busy' = [busy EXCEPT ![s] = TRUE]
    /\ phase' = [phase EXCEPT ![s] = "stopping"]
    /\ child' = Terminated(Members(s))
    /\ awaited' = [awaited EXCEPT ![s] = Members(s)]
    /\ UNCHANGED <<lock, files, closing, processes, launching, closeSet, synced,
                   deaths, mishaps>>

RecoverStoppedMutant(s) ==  \* new children are forked while the old ones stop
    /\ phase[s] = "stopping"
    /\ processes' = [processes EXCEPT ![s] = <<>>]
    /\ phase' = [phase EXCEPT ![s] = "relaunching"]
    /\ UNCHANGED <<lock, files, closing, busy, launching, awaited, closeSet, synced,
                   child, deaths, mishaps>>

RecoverStopped(s) ==
    /\ phase[s] = "stopping"
    /\ Gone(awaited[s])
    /\ processes' = [processes EXCEPT ![s] = <<>>]
    /\ phase' = [phase EXCEPT ![s] = "relaunching"]
    /\ UNCHANGED <<lock, files, closing, busy, launching, awaited, closeSet, synced,
                   child, deaths, mishaps>>

Recovered(s) ==
    /\ phase[s] = "relaunching"
    /\ Len(processes[s]) = 3
    /\ phase' = [phase EXCEPT ![s] = "open"]
    /\ busy' = [busy EXCEPT ![s] = FALSE]
    /\ UNCHANGED <<lock, files, closing, processes, launching, awaited, closeSet,
                   synced, child, deaths, mishaps>>

RecoverFailsMutant(s, timeout) ==  \* busy is cleared only on success
    /\ phase[s] = "relaunching"
    /\ LaunchRejected(s, timeout)
    /\ phase' = [phase EXCEPT ![s] = "open"]
    /\ UNCHANGED <<lock, files, closing, busy, processes, awaited, closeSet, synced,
                   deaths>>

\* The children launched so far stay: the engine goes on with fewer than three.
RecoverFails(s, timeout) ==
    /\ phase[s] = "relaunching"
    /\ LaunchRejected(s, timeout)
    /\ phase' = [phase EXCEPT ![s] = "open"]
    /\ busy' = [busy EXCEPT ![s] = FALSE]
    /\ UNCHANGED <<lock, files, closing, processes, awaited, closeSet, synced,
                   deaths>>

-----------------------------------------------------------------------------
(* close, which neither looks at busy nor sets it                           *)

Closable == {"open", "running"} \cup
            (IF Impatient THEN {"stopping", "relaunching"} ELSE {})

CloseBegin(s) ==
    /\ phase[s] \in Closable
    /\ closing[s] = "no"
    /\ closing' = [closing EXCEPT ![s] = "stopping"]
    /\ child' = Terminated(Members(s))
    /\ closeSet' = [closeSet EXCEPT ![s] = Members(s)]
    /\ UNCHANGED <<lock, files, phase, busy, processes, launching, awaited, synced,
                   deaths, mishaps>>

CloseEndsMutant(s) ==  \* the lock is released at once
    /\ closing[s] = "stopping"
    /\ lock' = Released(s)
    /\ closing' = [closing EXCEPT ![s] = "closed"]
    /\ UNCHANGED <<files, phase, busy, processes, launching, awaited, closeSet,
                   synced, child, deaths, mishaps>>

CloseEnds(s) ==
    /\ closing[s] = "stopping"
    /\ Gone(closeSet[s])
    /\ lock' = Released(s)
    /\ closing' = [closing EXCEPT ![s] = "closed"]
    /\ UNCHANGED <<files, phase, busy, processes, launching, awaited, closeSet,
                   synced, child, deaths, mishaps>>

-----------------------------------------------------------------------------

\* The supervisor's process dies, at any moment.  Its lock goes at once; its
\* children see the IPC channel close, and stop.  One that still boots has no
\* handler for that yet.
Die(s) ==
    /\ phase[s] # "dead"
    /\ deaths < MaxDeaths
    /\ deaths' = deaths + 1
    /\ lock' = Released(s)
    /\ phase' = [phase EXCEPT ![s] = "dead"]
    /\ closing' = [closing EXCEPT ![s] = "no"]
    /\ busy' = [busy EXCEPT ![s] = FALSE]
    /\ processes' = [processes EXCEPT ![s] = <<>>]
    /\ launching' = [launching EXCEPT ![s] = {}]
    /\ awaited' = [awaited EXCEPT ![s] = {}]
    /\ closeSet' = [closeSet EXCEPT ![s] = {}]
    /\ synced' = [synced EXCEPT ![s] = 0]
    /\ child' = Terminated({c \in DOMAIN child : /\ child[c].parent = s
                                                /\ child[c].state = "ready"})
    /\ UNCHANGED <<files, mishaps>>

\* What goes on by itself, once begun.
Proceed(s) ==
    \/ WriteNext(s) \/ InitEnd(s)
    \/ Fork(s)
    \/ \E timeout \in BOOLEAN : OpenLaunchFails(s, timeout) \/ RecoverFails(s, timeout)
    \/ OpenStops(s) \/ OpenFails(s) \/ Opened(s)
    \/ RunSyncs(s) \/ RunReports(s)
    \/ RecoverStopped(s) \/ Recovered(s)
    \/ CloseEnds(s)

Obeys(c) == Boot(c) \/ Exit(c)

Next ==
    \/ \E s \in Supervisor :
        \/ InitBegin(s) \/ OpenBegin(s) \/ RunBegin(s) \/ RecoverBegin(s)
        \/ CloseBegin(s)
        \/ RunFails(s)
        \/ Proceed(s)
        \/ Die(s)
    \/ \E c \in DOMAIN child : Obeys(c) \/ ChildDies(c)

Spec == Init /\ [][Next]_vars

\* Promises settle: a child boots or the launch timer fires, a stopped one
\* exits or is killed after two seconds, a run has a deadline.
FairSpec ==
    /\ Spec
    /\ \A s \in Supervisor : WF_vars(Proceed(s)) /\ WF_vars(RunFails(s))
    /\ \A c \in Pid : WF_vars(c \in DOMAIN child /\ Obeys(c))

-----------------------------------------------------------------------------

Orphan(c) == phase[child[c].parent] = "dead"

\* "One workspace admits one supervisor": the children that run are those of
\* the supervisor that holds the lock, from the first fork to the last exit;
\* neither a failed open nor a failed recover nor a close lets one outlive it.
\* The children of a killed supervisor are the exception: they run on without a
\* lock until they stop on their own (OrphansStop).
LockCoversChildren ==
    \A c \in DOMAIN child : Live(c) /\ ~Orphan(c) => lock = child[c].parent

\* An identity has one process, but for the children of a killed supervisor: its
\* lock is free at once, so the next supervisor may fork the same identities while
\* they still run.  Of two processes that run one identity at a time, one is such
\* a child, and it is still booting or stopping already, never serving on.  (The
\* identity's sequence numbers are allocated outside the journal's transactions.)
OnlyOrphansOverlap ==
    \A c, d \in DOMAIN child :
        /\ Live(c) /\ Live(d) /\ c # d
        /\ child[c].identity = child[d].identity
        => \E e \in {c, d} : Orphan(e) /\ child[e].state # "ready"

\* A configuration names the keys that are there: an init that dies half way,
\* or meets another one, leaves no engine.json without its three identities.
ConfigurationHasKeys ==
    \A f \in files : f.name = "engine.json" =>
        \A i \in Identity : [name |-> KeyFile[i], by |-> f.by] \in files

\* The children of a killed supervisor stop, those still booting too.
OrphansStop ==
    \A s \in Supervisor :
        phase[s] = "dead" ~>
            \A c \in DOMAIN child : child[c].parent = s => ~Live(c)

\* Whatever becomes of a run or a recovery, the engine admits another one.
BusyReleased == \A s \in Supervisor : busy[s] ~> ~busy[s]

=============================================================================
