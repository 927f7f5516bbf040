--------------------------- MODULE OutboxPromise ---------------------------
(***************************************************************************)
(* What the reliable outbox promises a Head about each submission, with no *)
(* mention of connections, replies, retries or the queue file:             *)
(*                                                                         *)
(*   new  ->  held  ->  saved      the server holds exactly one copy       *)
(*             |                                                           *)
(*             +---->  dropped     the Head discarded it after a refusal   *)
(*                                                                         *)
(* A submission is kept ("held") until the server saves it or, the server  *)
(* having refused it, the Head discards it.  A copy still travelling when  *)
(* the Head discards may be saved later (dropped -> saved).  Submissions   *)
(* are saved in the order they were made, except that one which the server *)
(* refused no longer holds back the later ones.                            *)
(***************************************************************************)
EXTENDS Naturals

CONSTANT NumItems      \* how many submissions the Head makes

Items == 1 .. NumItems \* in the order of submission

VARIABLES
  fate,     \* [Items -> {"new", "held", "saved", "dropped"}]
  refused   \* submissions the server has refused at least once

vars == <<fate, refused>>

Init ==
  /\ fate = [i \in Items |-> "new"]
  /\ refused = {}

Submit(i) ==
  /\ fate[i] = "new"
  /\ \A k \in Items : k < i => fate[k] # "new"
  /\ fate' = [fate EXCEPT ![i] = "held"]
  /\ UNCHANGED refused

\* Everything submitted earlier is already saved or was once refused.
MayOvertake(i) == \A k \in Items : k < i => fate[k] = "saved" \/ k \in refused

Save(i) ==
  /\ fate[i] \in {"held", "dropped"}
  /\ MayOvertake(i)
  /\ fate' = [fate EXCEPT ![i] = "saved"]
  /\ UNCHANGED refused

\* A refusal may concern a submission already saved (an older copy was stored).
Refuse(i) ==
  /\ fate[i] # "new"
  /\ MayOvertake(i)
  /\ refused' = refused \cup {i}
  /\ UNCHANGED fate

Drop(i) ==
  /\ fate[i] = "held"
  /\ i \in refused
  /\ fate' = [fate EXCEPT ![i] = "dropped"]
  /\ UNCHANGED refused

Next == \E i \in Items : Submit(i) \/ Save(i) \/ Refuse(i) \/ Drop(i)

Spec == Init /\ [][Next]_vars
=============================================================================
