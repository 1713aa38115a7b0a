---------------------------- MODULE StreamReader ----------------------------
(***************************************************************************)
(* What a client promises about a stream that it follows: it takes the     *)
(* records that are there in the order of their numbers, each at most      *)
(* once, and its checkpoint moves with what it has stored.  How many tabs  *)
(* pull, what they hold meanwhile and where they stop is not to be seen.   *)
(***************************************************************************)
EXTENDS Naturals, Sequences

CONSTANT Events

VARIABLES
  published,   \* the records of the source; positions are sequence numbers
  kept,        \* the numbers of those that it still has
  checkpoint,  \* the last number taken
  stored       \* the client's event table

vars == <<published, kept, checkpoint, stored>>

Init ==
  /\ published = <<>>
  /\ kept = {}
  /\ checkpoint = 0
  /\ stored = {}

Publish ==
  /\ \E e \in Events : published' = Append(published, e)
  /\ kept' = kept \cup {Len(published) + 1}
  /\ UNCHANGED <<checkpoint, stored>>

Drop ==
  /\ \E i \in kept : kept' = kept \ {i}
  /\ UNCHANGED <<published, checkpoint, stored>>

\* No record that is still there lies between the checkpoint and the new one.
Take ==
  /\ \E i \in DOMAIN published :
       /\ i > checkpoint
       /\ \A j \in kept : j > checkpoint => j >= i
       /\ checkpoint' = i
       /\ stored' = stored \cup {published[i]}
  /\ UNCHANGED <<published, kept>>

\* An event of the client's own.
StoreOwn ==
  /\ \E e \in Events : stored' = stored \cup {e}
  /\ UNCHANGED <<published, kept, checkpoint>>

Next == Publish \/ Drop \/ Take \/ StoreOwn

Spec == Init /\ [][Next]_vars
=============================================================================
