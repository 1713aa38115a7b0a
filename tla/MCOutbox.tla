------------------------------ MODULE MCOutbox ------------------------------
(* What a client sends, fetches and seals, for TLC: its outbox, its requests *)
(* for blocks and the keys of a group on its devices, which share no         *)
(* variable.  A behaviour exercises one part, so that their state spaces add *)
(* up.  Processors and keys of the outbox are interchangeable.               *)
EXTENDS Outbox, BlockStore, MlsProvider, TLC

VARIABLE part   \* the part that a behaviour exercises

\* Device b comes up with two key packages.
MCKeyPackages == {[id |-> 1, owner |-> "b"], [id |-> 2, owner |-> "b"]}

clientVars == <<part, vars, bsVars, mpVars>>

ClientInit == part \in {"outbox", "blocks", "keys"} /\ Init /\ BlockInit /\ ProviderInit

\* The last commit comes with one message or one lost call at most.
KeysNext ==
  /\ ProviderNext
  /\ mpCount'.commits = MaxCommits => mpCount'.texts + mpCount'.lost <= 1

\* No call is under way, and there may be none left to begin.
KeysAtRest == (\A d \in Members, c \in Slots : mpCalls[d][c] = NoCall) /\ UNCHANGED mpVars

ClientNext ==
  \/ part = "outbox" /\ Next /\ UNCHANGED <<part, bsVars, mpVars>>
  \/ part = "blocks" /\ BlockNext /\ UNCHANGED <<part, vars, mpVars>>
  \/ part = "keys" /\ (KeysNext \/ KeysAtRest) /\ UNCHANGED <<part, vars, bsVars>>

ClientSpec == ClientInit /\ [][ClientNext]_clientVars

ClientTypeOK == TypeOK /\ BlockTypeOK /\ ProviderTypeOK

Symmetry == Permutations(Procs) \cup Permutations(Keys)
=============================================================================
