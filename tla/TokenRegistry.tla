---------------------------- MODULE TokenRegistry ----------------------------
(***************************************************************************)
(* The token registry of apps/bridge-service (token-registry.ts): bearer   *)
(* tokens in memory that are added and revoked while the bridge runs, and  *)
(* the JSON file that every change writes a copy of them to.               *)
(*                                                                         *)
(* A save writes a temporary file of its own and renames it, so that the   *)
(* file is always one copy as a whole; but saves that run at a time are    *)
(* renamed in any order.  The HTTP handlers of the bridge do not consult   *)
(* the registry yet: the host that embeds it does.                         *)
(***************************************************************************)
EXTENDS Integers, Sequences, FiniteSets, SequencesExt

CONSTANTS
  Tokens,         \* the tokens that come up: [id, until], until the tick it expires
  InitialTokens,  \* those that the bridge is configured with
  NoFile,
  MaxSaves,       \* bound: saves at a time
  MaxChanges,     \* bound: additions and revocations
  MaxTokenNow     \* bound: ticks

ASSUME TokenAssumption ==
  /\ \A t \in Tokens : t.until \in Nat
  /\ InitialTokens \subseteq Tokens
  /\ \A set \in SUBSET Tokens : set # NoFile
  /\ {MaxSaves, MaxChanges, MaxTokenNow} \subseteq Nat

VARIABLES
  tokens,       \* #tokens; one token per identifier
  tokenFile,    \* the persisted registry
  tokenSaves,   \* the saves that run, in the order in which they began:
                \* [copy, revoking], revoking the identifier that the caller revokes
  tokenUp,      \* whether the bridge runs
  tokenNow, changes,
  revoked,      \* history: identifiers whose revocation has returned, and that were
                \* not added since, by the host or from the configuration
  overtaken     \* history: whether a save was renamed after one that began later

tokenVars == <<tokens, tokenFile, tokenSaves, tokenUp, tokenNow, changes, revoked, overtaken>>

NoId == 0

Ids(set) == {t.id : t \in set}

TokenInit ==
  /\ tokens = InitialTokens
  /\ tokenFile = NoFile
  /\ tokenSaves = <<>>
  /\ tokenUp = TRUE
  /\ tokenNow = 0
  /\ changes = 0
  /\ revoked = {}
  /\ overtaken = FALSE

-----------------------------------------------------------------------------
\* Memory changes at once, and a save of its copy begins.
Persist(set, revoking) ==
  /\ tokenUp
  /\ changes < MaxChanges
  /\ Len(tokenSaves) < MaxSaves
  /\ changes' = changes + 1
  /\ tokens' = set
  /\ tokenSaves' = Append(tokenSaves, [copy |-> set, revoking |-> revoking])
  /\ UNCHANGED <<tokenFile, tokenUp, tokenNow, overtaken>>

addToken(t) ==
  /\ t.id \notin Ids(tokens)
  /\ Persist(tokens \cup {t}, NoId)
  /\ revoked' = revoked \ {t.id}

\* Revoking what is not there saves as well.
revokeToken(id) ==
  /\ Persist({t \in tokens : t.id # id}, id)
  /\ UNCHANGED revoked

\* A rename: the call returns.  What it revoked may have been added since.
SaveLands(i) ==
  LET save == tokenSaves[i]
      later == {j \in DOMAIN tokenSaves : j > i}
      since == tokens \cup UNION {tokenSaves[j].copy : j \in later}
  IN /\ tokenFile' = save.copy
     /\ tokenSaves' = RemoveAt(tokenSaves, i)
     /\ overtaken' = (overtaken \/ i > 1)
     /\ revoked' = IF save.revoking \in {NoId} \cup Ids(since)
                   THEN revoked ELSE revoked \cup {save.revoking}
     /\ UNCHANGED <<tokens, tokenUp, tokenNow, changes>>

\* A save fails: the call rejects, and memory keeps what the file lacks.
SaveFails(i) ==
  /\ tokenSaves' = RemoveAt(tokenSaves, i)
  /\ UNCHANGED <<tokens, tokenFile, tokenUp, tokenNow, changes, revoked, overtaken>>

-----------------------------------------------------------------------------
TokenCrash ==
  /\ tokenUp
  /\ tokenUp' = FALSE
  /\ tokens' = {}
  /\ tokenSaves' = <<>>
  /\ UNCHANGED <<tokenFile, tokenNow, changes, revoked, overtaken>>

\* Faulty variant: the configured tokens are added to the persisted ones.
LoadedWithInitial == (IF tokenFile = NoFile THEN {} ELSE tokenFile) \cup InitialTokens

\* create: without a persisted token, the configured ones.
Loaded == IF tokenFile \in {NoFile, {}} THEN InitialTokens ELSE tokenFile

TokenStart ==
  /\ ~tokenUp
  /\ tokenUp' = TRUE
  /\ tokens' = Loaded
  /\ revoked' = IF tokenFile \in {NoFile, {}} THEN revoked \ Ids(InitialTokens) ELSE revoked
  /\ UNCHANGED <<tokenFile, tokenSaves, tokenNow, changes, overtaken>>

TokenTick ==
  /\ tokenNow < MaxTokenNow
  /\ tokenNow' = tokenNow + 1
  /\ UNCHANGED <<tokens, tokenFile, tokenSaves, tokenUp, changes, revoked, overtaken>>

TokenNext ==
  \/ \E t \in Tokens : addToken(t)
  \/ \E id \in Ids(Tokens) : revokeToken(id)
  \/ \E i \in DOMAIN tokenSaves : SaveLands(i) \/ SaveFails(i)
  \/ TokenCrash
  \/ TokenStart
  \/ TokenTick

TokenSpec == TokenInit /\ [][TokenNext]_tokenVars

-----------------------------------------------------------------------------
\* validateBearerToken: the token is known and not yet expired.
validates(id) == \E t \in tokens : t.id = id /\ t.until > tokenNow

(* Properties.                                                             *)

TokenTypeOK ==
  /\ tokens \subseteq Tokens
  /\ Cardinality(Ids(tokens)) = Cardinality(tokens)
  /\ tokenFile = NoFile \/ tokenFile \subseteq Tokens
  /\ \A i \in DOMAIN tokenSaves :
       /\ tokenSaves[i].copy \subseteq Tokens
       /\ tokenSaves[i].revoking \in Ids(Tokens) \cup {NoId}
  /\ tokenUp \in BOOLEAN
  /\ tokenNow \in 0..MaxTokenNow
  /\ changes \in 0..MaxChanges
  /\ revoked \subseteq Ids(Tokens)
  /\ overtaken \in BOOLEAN

\* A token whose revocation has returned is not accepted again, through failed saves,
\* crashes and restarts in any order, as long as no save overtook another, until it is
\* added again.  A registry whose last token was revoked adds the configured tokens
\* when it starts.
RevokedStaysOut == ~overtaken => \A id \in revoked : ~validates(id)
=============================================================================
