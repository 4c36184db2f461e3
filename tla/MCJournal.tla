------------------------------ MODULE MCJournal ------------------------------
(* Two processes of two identities on one journal, a third one that is      *)
(* configured with another membership policy, and posts from outside.       *)
EXTENDS Journal, TLC

CONSTANTS p1, p2, p3, owner, worker, guest, stranger,
          here, elsewhere, b1, b2, det, other

MCSignerOf == p1 :> owner @@ p2 :> worker @@ p3 :> guest

MCPolicyOf == p1 :> here @@ p2 :> here @@ p3 :> elsewhere

Post(n, b, s) == [actor |-> stranger, sequence |-> n, policy |-> here,
                  body |-> b, signature |-> s]

\* Two posts with one identifier and different signatures, an equivocation
\* with them, and an event under the other policy.
MCForeign ==
    {Post(1, b1, det), Post(1, b1, other), Post(1, b2, det),
     [Post(2, b1, det) EXCEPT !.policy = elsewhere]}
=============================================================================
