------------------------------ MODULE HttpFront ------------------------------
(***************************************************************************)
(* The HTTP front of the bridge: the checks that                           *)
(* handleBridgeDeliveryRequest and handleBridgeInboundReadRequest of       *)
(* service.ts make before the service sees a request, with the limiter of  *)
(* http-hardening.ts, whose buckets are written to a file from time to     *)
(* time.                                                                   *)
(*                                                                         *)
(* Everything up to the rate limit is one step; the body of a request is   *)
(* read in the meantime of others.                                         *)
(***************************************************************************)
EXTENDS RateLimit, Sequences, FiniteSets, Functions, SequencesExt

CONSTANTS
  Auth,          \* the configured tokens: [id, value, until], or NoAuth, or BadAuth if
                 \* normalizeAuthConfig refuses the configuration
  NoAuth, BadAuth,
  Presented,     \* what requests present; NoValue for no bearer token
  NoValue,
  HttpConns,         \* requests that are handled at a time
  HttpLimit,     \* the limiter's configuration
  MaxFlushes,    \* bound: saves at a time
  MaxRestarts,   \* bound
  MaxHttpNow     \* bound: ticks

VARIABLES
  buckets,      \* #buckets, by the identifier of a token
  dirty,        \* #dirty
  bucketFile,   \* the saved buckets
  flushes,      \* the saves that run, in the order in which they began
  reading,      \* per connection: the identifier whose request's body is read, or Idle
  httpNow, startedAt, restarts,
  served,       \* history: requests that reached the service since the start, by identifier
  outrun        \* history: whether a save was renamed after one that began later

httpVars == <<buckets, dirty, bucketFile, flushes, reading, httpNow, startedAt, restarts,
              served, outrun>>

NoBuckets == <<>>
Anonymous == "__anonymous__"
Idle == "idle"

ASSUME HttpAssumption ==
  /\ Auth \notin {NoAuth, BadAuth} =>
       \A t, u \in Auth : t.id \notin {Anonymous, Idle} /\ (t.id = u.id => t = u)
  /\ HttpLimit \in [capacity: Nat \ {0}, ticks: Nat \ {0}, base: Nat, most: Nat]
  /\ IsFiniteSet(HttpConns)
  /\ {MaxFlushes, MaxRestarts, MaxHttpNow} \subseteq Nat

HttpInit ==
  /\ buckets = NoBuckets
  /\ dirty = FALSE
  /\ bucketFile = NoBuckets
  /\ flushes = <<>>
  /\ reading = [c \in HttpConns |-> Idle]
  /\ httpNow = 0
  /\ startedAt = 0
  /\ restarts = 0
  /\ served = <<>>
  /\ outrun = FALSE

-----------------------------------------------------------------------------
(* phaseFourThreeAuthorize and authorizeRequest.                           *)

Matching(value) == {t \in Auth : t.value = value /\ t.until > httpNow}

\* Without a configuration the bridge is open to all, and with a bad one to none.
Authorized(value, id) ==
  IF Auth = NoAuth THEN id = Anonymous
  ELSE /\ Auth # BadAuth
       /\ value # NoValue
       /\ \E t \in Matching(value) : t.id = id

Identities == {Anonymous} \cup (IF Auth \in {NoAuth, BadAuth} THEN {} ELSE {t.id : t \in Auth})

\* The limiter's decision, from a bucket that the first request of a token creates.
Decision(id) ==
  tryConsume(IF id \in DOMAIN buckets THEN buckets[id]
             ELSE createRateLimitBucket(httpNow, HttpLimit), httpNow, HttpLimit)

\* Another method, a declared size that is wrong or too large, or no valid token: an
\* answer at once, and nothing changes.
RefuseAtOnce(c) ==
  /\ reading[c] = Idle
  /\ \E method \in {"POST", "GET"}, size \in {"ok", "large", "invalid"}, value \in Presented :
       method # "POST" \/ size # "ok" \/ \A id \in Identities : ~Authorized(value, id)
  /\ UNCHANGED httpVars

\* The map with the value of id set.
Entered(map, id, value) ==
  [i \in DOMAIN map \cup {id} |-> IF i = id THEN value ELSE map[i]]

\* How many of the requests of id have reached the service since the start.
ServedTo(id) == IF id \in DOMAIN served THEN served[id] ELSE 0

\* consume: whatever it answers, the bucket is kept and the flag is set.
Consume(id) ==
  /\ buckets' = Entered(buckets, id, Decision(id).bucket)
  /\ dirty' = TRUE
  /\ UNCHANGED <<bucketFile, flushes, httpNow, startedAt, restarts, outrun>>

LimitRequest(c, id) ==
  /\ ~Decision(id).allowed
  /\ Consume(id)
  /\ UNCHANGED <<reading, served>>

BeginRequest(c, id) ==
  /\ Decision(id).allowed
  /\ Consume(id)
  /\ reading' = [reading EXCEPT ![c] = id]
  /\ UNCHANGED served

ReceiveRequest(c, value) ==
  /\ reading[c] = Idle
  /\ \E id \in Identities :
       Authorized(value, id) /\ (LimitRequest(c, id) \/ BeginRequest(c, id))

\* readRequestBodyWithCap and the parser: a body that is too large or malformed, or
\* one that reaches the service.
ReadBody(c, body) ==
  /\ reading[c] # Idle
  /\ served' = IF body = "ok"
               THEN Entered(served, reading[c], ServedTo(reading[c]) + 1)
               ELSE served
  /\ reading' = [reading EXCEPT ![c] = Idle]
  /\ UNCHANGED <<buckets, dirty, bucketFile, flushes, httpNow, startedAt, restarts, outrun>>

-----------------------------------------------------------------------------
(* The file of the limiter.                                                *)

\* Faulty variant: the flag is cleared when the save has ended.
DirtyCleared == FALSE

\* The flag is cleared when a save begins; when it ends, the flag stays what it is.
DirtyAfterFlush == dirty

\* The timer, dispose or forceFlush.
BeginFlush ==
  /\ dirty
  /\ Len(flushes) < MaxFlushes
  /\ flushes' = Append(flushes, buckets)
  /\ dirty' = FALSE
  /\ UNCHANGED <<buckets, bucketFile, reading, httpNow, startedAt, restarts, served, outrun>>

FlushLands(i) ==
  /\ bucketFile' = flushes[i]
  /\ flushes' = RemoveAt(flushes, i)
  /\ dirty' = DirtyAfterFlush
  /\ outrun' = (outrun \/ i > 1)
  /\ UNCHANGED <<buckets, reading, httpNow, startedAt, restarts, served>>

\* A save fails and the flag is set again.  The timer does not handle the rejection:
\* a host that has no handler for it exits, as in HttpRestart.
FlushFails(i) ==
  /\ flushes' = RemoveAt(flushes, i)
  /\ dirty' = TRUE
  /\ UNCHANGED <<buckets, bucketFile, reading, httpNow, startedAt, restarts, served, outrun>>

\* The process ends, with what it had not saved, and create loads the file.
HttpRestart ==
  /\ restarts < MaxRestarts
  /\ restarts' = restarts + 1
  /\ buckets' = bucketFile
  /\ dirty' = FALSE
  /\ flushes' = <<>>
  /\ reading' = [c \in HttpConns |-> Idle]
  /\ startedAt' = httpNow
  /\ served' = <<>>
  /\ UNCHANGED <<bucketFile, httpNow, outrun>>

HttpTick ==
  /\ httpNow < MaxHttpNow
  /\ httpNow' = httpNow + 1
  /\ UNCHANGED <<buckets, dirty, bucketFile, flushes, reading, startedAt, restarts, served, outrun>>

HttpNext ==
  \/ \E c \in HttpConns :
       \/ RefuseAtOnce(c)
       \/ \E value \in Presented : ReceiveRequest(c, value)
       \/ \E body \in {"ok", "large", "malformed"} : ReadBody(c, body)
  \/ BeginFlush
  \/ \E i \in DOMAIN flushes : FlushLands(i) \/ FlushFails(i)
  \/ HttpRestart
  \/ HttpTick

HttpSpec == HttpInit /\ [][HttpNext]_httpVars

-----------------------------------------------------------------------------
(* Properties.                                                             *)

HttpBucket ==
  [tokens: 0..HttpLimit.capacity, at: 0..MaxHttpNow, refusals: Nat, cooldown: Nat]

HttpTypeOK ==
  /\ DOMAIN buckets \subseteq Identities
  /\ \A id \in DOMAIN buckets : buckets[id] \in HttpBucket
  /\ dirty \in BOOLEAN
  /\ \A b \in {bucketFile} \cup ToSet(flushes) : \A id \in DOMAIN b : b[id] \in HttpBucket
  /\ reading \in [HttpConns -> Identities \cup {Idle}]
  /\ DOMAIN served \subseteq Identities
  /\ outrun \in BOOLEAN

\* Between two starts, no token gets more requests to the service than its bucket holds
\* and gains in this time, however many requests overlap and whatever the file held
\* when the process started.
ServedWithinRate ==
  \A id \in DOMAIN served :
    served[id] <= HttpLimit.capacity
                  + (httpNow - startedAt + HttpLimit.ticks - 1) \div HttpLimit.ticks

\* When nothing is left to save, the file holds the limiter's buckets, so that a restart
\* gives no token its requests back: a request during a save sets the flag for another,
\* and a failed save is repeated.  Saves that overtake each other lose this.
FlushedIsCurrent == ~dirty /\ flushes = <<>> /\ ~outrun => bucketFile = buckets

\* The limit holds for a token within one run of the process and across them.
LimiterKeepsCount == ServedWithinRate /\ FlushedIsCurrent
=============================================================================
