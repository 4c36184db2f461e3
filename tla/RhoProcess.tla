----------------------------- MODULE RhoProcess -----------------------------
(***************************************************************************)
(* A Rholang subset (rho.ts): a process is a nil, a parallel composition,  *)
(* a new, a send or a for; and the processes that the scenarios deploy.    *)
(***************************************************************************)
EXTENDS Integers, Sequences, FiniteSets, SequencesExt, Functions, TLC

Nil == [k |-> "0"]
Par(ps) == [k |-> "|", ps |-> ps]
NewIn(ns, p) == [k |-> "new", ns |-> ns, p |-> p]
Send(ch, data) == [k |-> "send", ch |-> ch, data |-> data]
For(ch, binds, p) == [k |-> "for", ch |-> ch, binds |-> binds, p |-> p]

\* A name is a variable or unforgeable: [id] or [id, uf].
Var(id) == [id |-> id]
IsVar(name) == DOMAIN name = {"id"}

HelloProc ==
    NewIn(<<"ch">>, Par(<<Send(Var("ch"), <<"hello">>), For(Var("ch"), <<"msg">>, Nil)>>))

ExchangeProc(verbs) ==
    NewIn(<<"pool">>,
          Par([i \in DOMAIN verbs |-> Send(Var("pool"), <<verbs[i]>>)]
              \o [i \in DOMAIN verbs |-> For(Var("pool"), <<"ack">>, Nil)]))
=============================================================================
