----------------------------- MODULE RhoReducer -----------------------------
(***************************************************************************)
(* The reducer of processes (rho.ts): reduce() first spreads the process   *)
(* over a list of produces and one of consumes, then matches the first     *)
(* consume that has a produce on its channel, and its first produce, until *)
(* none is left.  An unforgeable name is the name a new                    *)
(* declares with the number of that new.  Identifiers, digests and the     *)
(* wording of the trace are left out; received data is not substituted in  *)
(* the code either.                                                        *)
(***************************************************************************)
EXTENDS RhoProcess

CONSTANT Fuel     \* the 64 turns after which spreading stops

ChKey(name, env) == IF IsVar(name) /\ name.id \in DOMAIN env THEN env[name.id] ELSE name

RECURSIVE FlattenProc(_), Subst(_, _)
FlattenProc(p) ==
    CASE p.k = "0" -> <<>>
      [] p.k = "|" -> FlattenSeq([i \in DOMAIN p.ps |-> FlattenProc(p.ps[i])])
      [] OTHER -> <<p>>

Subst(p, env) ==
    CASE p.k = "0" -> p
      [] p.k = "|" -> Par([i \in DOMAIN p.ps |-> Subst(p.ps[i], env)])
      [] p.k = "new" -> NewIn(p.ns, Subst(p.p, env))
      [] p.k = "send" -> Send(ChKey(p.ch, env), p.data)
      [] p.k = "for" -> For(ChKey(p.ch, env), p.binds, Subst(p.p, env))

\* The state of a reduction: the work list, both stores, the bindings, the
\* numbers of news and COMMs so far, the rules of the trace.
Loaded(p) ==
    [active |-> FlattenProc(p), produces |-> <<>>, consumes |-> <<>>, env |-> <<>>,
     news |-> 0, comms |-> 0, rules |-> <<>>]

\* One process of the work list goes where it belongs.  Only the first loop
\* traces a NEW.
Place(s, tracing) ==
    LET p == Head(s.active)
        rest == Tail(s.active)
        env == [n \in ToSet(p.ns) |-> [id |-> n, uf |-> s.news]] @@ s.env
    IN  CASE p.k = "send" ->
               [s EXCEPT !.active = rest,
                         !.produces = Append(@, [ch |-> ChKey(p.ch, s.env), data |-> p.data])]
          [] p.k = "for" ->
               [s EXCEPT !.active = rest,
                         !.consumes = Append(@, [ch |-> ChKey(p.ch, s.env),
                                                 binds |-> p.binds, body |-> p.p])]
          [] p.k = "new" ->
               [s EXCEPT !.active = rest \o FlattenProc(Subst(p.p, env)),
                         !.env = env, !.news = @ + 1,
                         !.rules = IF tracing THEN Append(@, "NEW") ELSE @]

RECURSIVE Spread(_, _), Inject(_), CommLoop(_)
Spread(s, fuel) ==
    IF s.active = <<>> \/ fuel = 0 THEN s ELSE Spread(Place(s, TRUE), fuel - 1)

Inject(s) == IF s.active = <<>> THEN s ELSE Inject(Place(s, FALSE))

\* The pairs that may communicate.
Matches(s) ==
    {cp \in (DOMAIN s.consumes) \X (DOMAIN s.produces) :
        s.consumes[cp[1]].ch = s.produces[cp[2]].ch}

\* A produce and a consume vanish, the continuation is let loose.
Comm(s, cp) ==
    Inject([s EXCEPT !.produces = RemoveAt(@, cp[2]), !.consumes = RemoveAt(@, cp[1]),
                     !.comms = @ + 1, !.rules = Append(@, "COMM"),
                     !.active = FlattenProc(s.consumes[cp[1]].body)])

FirstMatch(s) ==
    CHOOSE cp \in Matches(s) : \A other \in Matches(s) :
        cp[1] < other[1] \/ (cp[1] = other[1] /\ cp[2] <= other[2])

\* Mutant: the loop ends at a receive that finds nothing, instead of going on to the next.
CommLoopMutant(s) == IF \A cp \in Matches(s) : cp[1] # 1 THEN s ELSE CommLoop(Comm(s, FirstMatch(s)))

CommLoop(s) == IF Matches(s) = {} THEN s ELSE CommLoop(Comm(s, FirstMatch(s)))

Stuck(s) == s.produces # <<>> /\ s.consumes # <<>>

\* reduce(): the trace, the number of COMMs and what is left, which is also what
\* the state hash is a hash of.
Reduce(p) ==
    LET end == CommLoop(Spread(Loaded(p), Fuel))
    IN  [rules |-> Append(end.rules, IF Stuck(end) THEN "STUCK" ELSE "DONE"),
         comms |-> end.comms,
         stuck |-> Stuck(end),
         state |-> [produces |-> end.produces,
                    consumes |-> [i \in DOMAIN end.consumes |->
                                    <<end.consumes[i].ch, end.consumes[i].binds>>]]]

-----------------------------------------------------------------------------
(* The reference: the COMM law, in any order.                               *)

\* The stores that some order of COMMs ends with.
RECURSIVE NormalForms(_)
NormalForms(S) ==
    IF S = {} THEN {}
    ELSE {s \in S : Matches(s) = {}}
         \cup NormalForms(UNION {{Comm(s, cp) : cp \in Matches(s)} : s \in S})

\* How many sends, fors and channels are left, whatever they are called.
Residue(s) == [comms |-> s.comms, produces |-> Len(s.produces), consumes |-> Len(s.consumes),
               stuck |-> Stuck(s)]

\* The whole process was spread, and every order of COMMs ends where reduce()
\* ends.
Confluent(p) ==
    LET s == Spread(Loaded(p), Fuel)
    IN  /\ s.active = <<>>
        /\ Matches(CommLoop(s)) = {}
        /\ \A form \in NormalForms({s}) : Residue(form) = Residue(CommLoop(s))
=============================================================================
