---------------------------- MODULE MCSessions ------------------------------
(***************************************************************************)
(* Instances of Sessions for TLC.                                          *)
(***************************************************************************)
EXTENDS Sessions, TLC

CONSTANTS root, u1

\* The bootstrap Super Admin after his first password change, and another account:
\* not yet made, a Head with his first password, an Admin, a second Super Admin.
Tables ==
  {(root :> [role |-> "SUPER_ADMIN", must |-> FALSE] @@ u1 :> a) :
     a \in {[role |-> NoAccount, must |-> FALSE], [role |-> "HEAD", must |-> TRUE],
            [role |-> "ADMIN", must |-> FALSE], [role |-> "SUPER_ADMIN", must |-> FALSE]}}

\* The connections are interchangeable.
SymConns == Permutations(Conns)
=============================================================================
