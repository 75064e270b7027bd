------------------------------- MODULE Sending -------------------------------
(***************************************************************************)
(* How the attempts of one target's adapter cross the wire: the token      *)
(* bucket that paces them (rate-limiter.ts), the plan a SCIM sender makes  *)
(* of an event (sender-scim.ts), the requests of the five senders and      *)
(* their idempotency keys, the credential with its shared OAuth refresh    *)
(* (auth.ts), what an answer means (wire.ts, errors.ts, backoff.ts) and    *)
(* the ring of dead letters (dead-letter.ts).                              *)
(*                                                                         *)
(* The queue, the slots and the breaker are DeliveryAdapter's: here a job  *)
(* is the events one slot works on, and the breaker may refuse any         *)
(* attempt.  What a slot does between two waits it does in one turn of the *)
(* event loop, before any timer, answer or other slot (Quiet).             *)
(* Time is a number of ticks, and a second has TicksPerSecond    *)
(* of them; the bucket counts TicksPerSecond units to a token, so that a   *)
(* tick refills rps units.  The target answers as it likes.                *)
(***************************************************************************)
EXTENDS Integers, Sequences, FiniteSets, SequencesExt, Filters

CONSTANTS
  Absent,
  Workers,         \* the slots
  Backlogs,        \* the events that may be queued, in order
  Targets,         \* the targets: their settings, and the answers they give,
                   \* each with its status (Absent: no answer at all), its
                   \* Retry-After and whether it carries an ETag, always a new one
  TicksPerSecond,
  Retryable,       \* retry.retryableStatuses
  BaseDelay,       \* retry.baseDelayMs, in ticks
  MaxDelay,        \* retry.maxDelayMs, in ticks
  TokenTtls,       \* expires_in of token responses, in seconds, or Absent
  DefaultTtl,      \* OAUTH_DEFAULT_TTL_SEC
  ExpirySkew,      \* OAUTH_EXPIRY_SKEW_SEC
  EtagLimit,       \* etagCacheLimit
  LetterCapacity,  \* capacity of the dead-letter ring
  MaxTime          \* bound: ticks

Larger(a, b) == IF a > b THEN a ELSE b
Smaller(a, b) == IF a < b THEN a ELSE b

TargetKinds == {"scim", "webhook", "rest", "batch", "nats"}
Operations == {"create", "update", "patch", "deactivate", "reactivate", "delete",
               "grant", "revoke", "notify", "noop"}

Events == UNION {Range(b) : b \in Backlogs}

\* The defaults of a target are filled in when it is stored, and its settings
\* are bounded (contracts/validation.ts:128-151).
TargetsAssumption ==
  \A t \in Targets :
    /\ t.kind \in TargetKinds /\ t.oauth \in BOOLEAN
    /\ t.batchSize \in Nat \ {0} /\ {t.rps, t.burst, t.maxRetries} \subseteq Nat
    /\ \A a \in t.answers :
         /\ a.status \in (100..599) \cup {Absent} /\ a.etag \in BOOLEAN
         /\ a.retryAfter \in Nat \cup {Absent}

SendingAssumption ==
  /\ \A e \in Events : e.op \in Operations
  /\ \A e, f \in Events : e.id = f.id => e = f
  /\ \A b \in Backlogs : b \in Seq(Events) /\ IsInjective(b)
  /\ {TicksPerSecond, EtagLimit, LetterCapacity} \subseteq Nat \ {0}
  /\ {BaseDelay, MaxDelay, DefaultTtl, ExpirySkew, MaxTime} \subseteq Nat
  /\ TokenTtls \subseteq (Nat \ {0}) \cup {Absent} /\ Absent \notin Int \cup [id : Nat, expires : Int]

VARIABLES
  target,     \* the target of this adapter
  pending,    \* the events no slot has taken yet
  now,        \* the wall clock
  tokens,     \* units in the bucket
  refilled,   \* lastRefillMs
  penalty,    \* penaltyUntilMs
  grants,     \* history: when each token was taken
  penalties,  \* history: [after, until], the tokens taken before a penalty, its end
  pc,         \* where each slot is
  job,        \* the events it works on
  attempt,    \* the attempts made
  wake,       \* when its sleep ends
  cached,     \* the OAuth token cached: [id, expires] or Absent
  inFlight,   \* the refresh under way, or Absent
  fetches,    \* history: the refreshes; a token is named by its place here
  etags,      \* the ETag cache, oldest first: [user, etag]; an ETag is named by the
              \* place in sent of the answer that carried it
  header,     \* the If-Match each slot's last request was given, or Absent
  sent,       \* history: the requests answered, and the messages published
  results,    \* history: how each event ended
  ring,       \* slots of the DeadLetterBuffer
  ringAt,     \* writeIndex
  ringCount,  \* count
  letters     \* history: all dead letters, oldest first

limiterVars == <<tokens, refilled, penalty, grants, penalties>>
slotVars == <<pc, job, attempt, wake>>
authVars == <<cached, inFlight, fetches>>
etagVars == <<etags, header>>
endVars == <<results, ring, ringAt, ringCount, letters>>
sendVars == <<target, pending, now, limiterVars, slotVars, authVars, etagVars, sent, endVars>>

\* No slot is in the middle of a turn: all are idle, asleep or wait for answers.
Quiet == \A w \in Workers : pc[w] \in {"idle", "asleep", "starved", "token", "wire"}

-----------------------------------------------------------------------------
(* The token bucket *)

Unlimited == target.rps = 0
CapacityOf(t) == TicksPerSecond * Larger(1, IF t.burst > 0 THEN t.burst ELSE t.rps)

\* Mutant: the bucket fills without end.
RefilledUncapped == tokens + (now - refilled) * target.rps

\* refill(): what the bucket holds now.
Refilled == Smaller(CapacityOf(target), tokens + (now - refilled) * target.rps)

\* nextAvailableMs(), and never less than a tick: how long acquire() sleeps.
Ceil(a, b) == (a + b - 1) \div b
NextAvailable ==
  LET starved == IF Unlimited \/ Refilled >= TicksPerSecond THEN 0
                 ELSE Ceil(TicksPerSecond - Refilled, target.rps)
  IN Larger(1, Larger(penalty - now, starved))

\* tryAcquire(): a token and no penalty.
TryAcquire == now >= penalty /\ (Unlimited \/ Refilled >= TicksPerSecond)

\* penalize(): the whole bucket waits as long as the target asked for.
Penalize(ticks) ==
  /\ penalty' = Larger(penalty, now + ticks)
  /\ penalties' = penalties \cup {[after |-> Len(grants), until |-> now + ticks]}

\* One turn of acquire(): a token is taken, or the slot sleeps and looks again.
Acquire(w) ==
  /\ pc[w] = "acquire"
  /\ IF Unlimited THEN UNCHANGED <<tokens, refilled>>
     ELSE /\ refilled' = now
          /\ tokens' = IF TryAcquire THEN Refilled - TicksPerSecond ELSE Refilled
  /\ \/ /\ TryAcquire
        /\ pc' = [pc EXCEPT ![w] = "send"]
        /\ attempt' = [attempt EXCEPT ![w] = @ + 1]
        /\ grants' = Append(grants, now)
        /\ UNCHANGED wake
     \/ /\ ~TryAcquire
        /\ pc' = [pc EXCEPT ![w] = "starved"]
        /\ wake' = [wake EXCEPT ![w] = now + NextAvailable]
        /\ UNCHANGED <<attempt, grants>>
  /\ UNCHANGED <<target, pending, now, penalty, penalties, job, authVars, etagVars, sent, endVars>>

-----------------------------------------------------------------------------
(* Requests *)

UserCall(method, u, sets) == [method |-> method, user |-> u, group |-> Absent, sets |-> sets]
GroupCall(method, u, g, sets) == [method |-> method, user |-> u, group |-> g, sets |-> sets]

\* planScimRequest: the SCIM call of an event, or Absent where it is a no-op.  An
\* event of a system actor without subject has no user; only requests,
\* provisioning, revocation, reviews and firefighter events name a group.
UserPlan(e) ==
  CASE e.op = "create" -> UserCall("POST", e.user, "active")
    [] e.op = "update" -> UserCall("PUT", e.user, "active")
    [] e.op = "patch" -> UserCall("PATCH", e.user, "attributes")
    [] e.op = "deactivate" -> UserCall("PATCH", e.user, "inactive")
    [] e.op = "reactivate" -> UserCall("PATCH", e.user, "active")
    [] e.op = "delete" -> UserCall("DELETE", e.user, "gone")
Plan(e) ==
  CASE e.op = "create" /\ e.resource = "group" ->
         IF e.ent = Absent THEN Absent ELSE GroupCall("POST", Absent, e.ent, "group")
    [] e.op \in {"grant", "revoke"} ->
         IF Absent \in {e.user, e.ent} THEN Absent ELSE GroupCall("PATCH", e.user, e.ent, e.op)
    [] OTHER -> IF e.op \in {"notify", "noop"} \/ e.user = Absent THEN Absent ELSE UserPlan(e)

Bulk == target.kind = "scim" /\ target.batchSize > 1
Batches == target.kind \in {"scim", "rest", "batch"} /\ target.batchSize > 1
JobSize == IF Batches THEN target.batchSize ELSE 1

\* What crosses the wire for a job: of a SCIM target only the planned calls.
Called == {e \in Events : Plan(e) # Absent}
Wired(es) == IF target.kind = "scim" THEN Selected(es, Called) ELSE es

\* The idempotency key of a job's request: the event's; a Bulk request has none
\* (its operations are told apart by their event's id), a REST batch is named
\* after its first event and its size, an HR feed after all its events.
KeyOf(es) ==
  CASE Bulk -> Absent
    [] target.kind = "rest" /\ Batches -> <<es[1].key, Len(es)>>
    [] target.kind = "batch" -> [i \in DOMAIN es |-> es[i].id]
    [] OTHER -> es[1].key

\* If-Match: the ETag remembered for the user of a single SCIM call when the
\* request is made, which is before it waits for a credential and an answer.
Conditional(es) ==
  /\ target.kind = "scim" /\ ~Bulk
  /\ Plan(es[1]).method # "POST" /\ Plan(es[1]).group = Absent
IfMatch(es) ==
  LET told == {t \in Range(etags) : t.user = Plan(es[1]).user}
  IN IF ~Conditional(es) \/ told = {} THEN Absent
     ELSE [user |-> Plan(es[1]).user, etag |-> (CHOOSE t \in told : TRUE).etag, asOf |-> Len(sent)]

\* The answer to a single user call other than DELETE brings its user's new ETag.
Tells(w, a) ==
  LET plan == Plan(job[w][1])
  IN IF /\ target.kind = "scim" /\ ~Bulk /\ a.etag
        /\ plan.group = Absent /\ plan.method # "DELETE"
       THEN plan.user ELSE Absent

\* A request and its answer: the status, and the user whose ETag it told.
Request(w, status, tells) ==
  [job |-> Range(job[w]), events |-> Range(Wired(job[w])), key |-> KeyOf(job[w]),
   ifMatch |-> header[w], status |-> status, tells |-> tells, attempt |-> attempt[w]]

\* rememberEtag: a full cache forgets its oldest user, even when the one told
\* about is in it; a user in the cache keeps its age.
RememberEtag(u, etag) ==
  LET kept == IF Len(etags) >= EtagLimit THEN Tail(etags) ELSE etags
      told == [user |-> u, etag |-> etag]
  IN etags' = IF \A i \in DOMAIN kept : kept[i].user # u THEN Append(kept, told)
              ELSE [i \in DOMAIN kept |-> IF kept[i].user = u THEN told ELSE kept[i]]

-----------------------------------------------------------------------------
(* The end of a job *)

\* DeadLetterBuffer.list(): what is retained, newest first.
List == [i \in 1..ringCount |-> ring[(ringAt - i + LetterCapacity) % LetterCapacity]]

\* add() of each event in turn, overwriting the oldest slots.
AddLetters(es) ==
  LET n == Len(es)
  IN /\ ring' = [s \in 0..(LetterCapacity - 1) |->
                   LET mine == {i \in 1..n : (ringAt + i - 1) % LetterCapacity = s}
                   IN IF mine = {} THEN ring[s]
                      ELSE es[CHOOSE i \in mine : \A k \in mine : k <= i].id]
     /\ ringAt' = (ringAt + n) % LetterCapacity
     /\ ringCount' = Smaller(LetterCapacity, ringCount + n)
     /\ letters' = letters \o [i \in DOMAIN es |-> es[i].id]

\* finish and finishMany: a result for every event, a dead letter unless it was
\* delivered, and the slot is free.
Finish(w, outcome) ==
  /\ pc' = [pc EXCEPT ![w] = "idle"]
  /\ job' = [job EXCEPT ![w] = <<>>]
  /\ attempt' = [attempt EXCEPT ![w] = 0]
  /\ wake' = [wake EXCEPT ![w] = 0]
  /\ LET ended == {e.id : e \in Range(job[w])}
     IN results' = [id \in DOMAIN results \cup ended |->
                      IF id \in ended THEN [outcome |-> outcome, attempts |-> attempt[w]]
                      ELSE results[id]]
  /\ IF outcome = "delivered" THEN UNCHANGED <<ring, ringAt, ringCount, letters>>
                              ELSE AddLetters(job[w])

\* backoffCeilingMs; the delay is anything up to it (full jitter).
Ceiling(retry) == Smaller(MaxDelay, BaseDelay * 2^Smaller(Larger(retry, 0), 30))

Exhausted(w) == attempt[w] > target.maxRetries

\* handleFailure: status Absent is a transport failure.  A 429 that names a wait
\* slows the whole bucket, even when the event is given up.
Fail(w, status, retryAfter) ==
  LET directed == status = 429 /\ retryAfter # Absent
      retry == (status = Absent \/ status \in Retryable) /\ ~Exhausted(w)
  IN /\ IF directed /\ retryAfter > 0 THEN Penalize(retryAfter) ELSE UNCHANGED <<penalty, penalties>>
     /\ \/ /\ ~retry
           /\ Finish(w, "failed")
        \/ /\ retry
           /\ \E d \in IF directed THEN {retryAfter} ELSE 0..Ceiling(attempt[w] - 1) :
                wake' = [wake EXCEPT ![w] = now + d]
           /\ pc' = [pc EXCEPT ![w] = "asleep"]
           /\ UNCHANGED <<job, attempt, endVars>>
     /\ UNCHANGED <<tokens, refilled, grants>>

-----------------------------------------------------------------------------
(* Slots *)

\* A slot takes the next event, or up to a batch of them.
Take(w) ==
  /\ Quiet
  /\ pc[w] = "idle" /\ pending # <<>>
  /\ \E n \in 1..Smaller(JobSize, Len(pending)) :
       /\ job' = [job EXCEPT ![w] = SubSeq(pending, 1, n)]
       /\ pending' = SubSeq(pending, n + 1, Len(pending))
  /\ pc' = [pc EXCEPT ![w] = "pass"]
  /\ UNCHANGED <<target, now, limiterVars, attempt, wake, authVars, etagVars, sent, endVars>>

\* The timer of a backoff or of a starved slot fires, in time or late.
Wake(w) ==
  /\ Quiet
  /\ pc[w] \in {"asleep", "starved"} /\ wake[w] <= now
  /\ pc' = [pc EXCEPT ![w] = IF pc[w] = "asleep" THEN "pass" ELSE "acquire"]
  /\ wake' = [wake EXCEPT ![w] = 0]
  /\ UNCHANGED <<target, pending, now, limiterVars, job, attempt, authVars, etagVars, sent, endVars>>

\* The breaker lets the attempt pass, or sheds the job.
Pass(w) ==
  /\ pc[w] = "pass"
  /\ \/ /\ pc' = [pc EXCEPT ![w] = "acquire"]
        /\ UNCHANGED <<job, attempt, wake, endVars>>
     \/ Finish(w, "circuit_open")
  /\ UNCHANGED <<target, pending, now, limiterVars, authVars, etagVars, sent>>

\* Nothing to send: acknowledged locally, no wire call.
SendNothing(w) ==
  /\ pc[w] = "send" /\ Wired(job[w]) = <<>>
  /\ Finish(w, "delivered")
  /\ UNCHANGED <<target, pending, now, limiterVars, authVars, etagVars, sent>>

\* The NATS sender publishes, or the connection throws or is not configured.
Publish(w) ==
  /\ pc[w] = "send" /\ target.kind = "nats"
  /\ \/ /\ Finish(w, "delivered")
        /\ sent' = Append(sent, Request(w, 200, Absent))
        /\ UNCHANGED limiterVars
     \/ Fail(w, Absent, Absent) /\ UNCHANGED sent
  /\ UNCHANGED <<target, pending, now, authVars, etagVars>>

Http(w) == pc[w] = "send" /\ Wired(job[w]) # <<>> /\ target.kind # "nats"
CachedLives == cached # Absent /\ now < cached.expires

\* Mutant: every caller that finds no token asks for one.
JoinsNever == FALSE

\* getToken(): somebody's refresh is under way.
Joins == inFlight # Absent

\* The request is made, with its headers. auth.apply(): a credential at hand goes
\* on it at once; without one the slot waits for the refresh under way, or for the
\* one it starts.
Authenticate(w) ==
  /\ Http(w)
  /\ \/ /\ ~target.oauth \/ CachedLives
        /\ pc' = [pc EXCEPT ![w] = "wire"]
        /\ UNCHANGED authVars
     \/ /\ target.oauth /\ ~CachedLives
        /\ pc' = [pc EXCEPT ![w] = "token"]
        /\ IF Joins THEN UNCHANGED authVars
           ELSE /\ fetches' = Append(fetches, [started |-> now, ended |-> Absent,
                                               expires |-> 0, refusals |-> 0])
                /\ inFlight' = Len(fetches) + 1
                /\ UNCHANGED cached
  /\ header' = [header EXCEPT ![w] = IfMatch(job[w])]
  /\ UNCHANGED <<target, pending, now, limiterVars, job, attempt, wake, etags, sent, endVars>>

\* fetchToken resolves: the token is cached, the refresh is over, and all who
\* wait for it send with it.
Lifetime(ttl) == TicksPerSecond * Larger(1, (IF ttl = Absent THEN DefaultTtl ELSE ttl) - ExpirySkew)
TokenArrives(ttl) ==
  /\ Quiet
  /\ inFlight # Absent
  /\ cached' = [id |-> inFlight, expires |-> now + Lifetime(ttl)]
  /\ inFlight' = Absent
  /\ fetches' = [fetches EXCEPT ![inFlight].ended = now, ![inFlight].expires = now + Lifetime(ttl)]
  /\ pc' = [w \in Workers |-> IF pc[w] = "token" THEN "wire" ELSE pc[w]]
  /\ UNCHANGED <<target, pending, now, limiterVars, job, attempt, wake, etagVars, sent, endVars>>

\* It rejects: a bad status, a body that is no token, or no answer at all.
TokenFails ==
  /\ Quiet
  /\ inFlight # Absent
  /\ inFlight' = Absent
  /\ fetches' = [fetches EXCEPT ![inFlight].ended = now, ![inFlight].expires = now]
  /\ pc' = [w \in Workers |-> IF pc[w] = "token" THEN "refused" ELSE pc[w]]
  /\ UNCHANGED <<target, pending, now, limiterVars, job, attempt, wake, cached, etagVars, sent, endVars>>

\* To those who waited it is a transport failure of their own request.
Refused(w) ==
  /\ pc[w] = "refused"
  /\ Fail(w, Absent, Absent)
  /\ UNCHANGED <<target, pending, now, authVars, etagVars, sent>>

\* isSuccess
Success(status) == status >= 200 /\ status < 300

\* authenticateAndSend resolves: the ETag of a single user call is remembered.
Accepted(w, a) ==
  /\ a.status # Absent /\ Success(a.status)
  /\ IF Tells(w, a) = Absent THEN UNCHANGED etags
                                  ELSE RememberEtag(Tells(w, a), Len(sent) + 1)
  /\ sent' = Append(sent, Request(w, a.status, Tells(w, a)))
  /\ Finish(w, "delivered")
  /\ UNCHANGED <<limiterVars, authVars>>

\* Any other answer rejects; a 401 drops the cached token first, whichever
\* token the request carried.
Declined(w, a) ==
  /\ a.status # Absent /\ ~Success(a.status)
  /\ IF a.status = 401 /\ target.oauth
       THEN /\ cached' = Absent
            /\ fetches' = [f \in DOMAIN fetches |->
                 [fetches[f] EXCEPT !.refusals = IF fetches[f].ended = Absent THEN @ ELSE 1]]
            /\ UNCHANGED inFlight
       ELSE UNCHANGED authVars
  /\ sent' = Append(sent, Request(w, a.status, Absent))
  /\ Fail(w, a.status, a.retryAfter)
  /\ UNCHANGED etags

\* The transport fails, or the answer is late: what the target did is unknown.
Unanswered(w, a) ==
  /\ a.status = Absent
  /\ sent' = Append(sent, Request(w, Absent, Absent))
  /\ Fail(w, Absent, Absent)
  /\ UNCHANGED <<authVars, etags>>

Answer(w, a) ==
  /\ Quiet
  /\ pc[w] = "wire"
  /\ Accepted(w, a) \/ Declined(w, a) \/ Unanswered(w, a)
  /\ UNCHANGED <<target, pending, now, header>>

ClockTicks ==
  /\ Quiet
  /\ now < MaxTime
  /\ now' = now + 1
  /\ UNCHANGED <<target, pending, limiterVars, slotVars, authVars, etagVars, sent, endVars>>

SendInit ==
  /\ target \in Targets
  /\ pending \in Backlogs
  /\ now = 0
  /\ tokens = CapacityOf(target) /\ refilled = 0 /\ penalty = 0
  /\ grants = <<>> /\ penalties = {}
  /\ pc = [w \in Workers |-> "idle"]
  /\ job = [w \in Workers |-> <<>>]
  /\ attempt = [w \in Workers |-> 0]
  /\ wake = [w \in Workers |-> 0]
  /\ cached = Absent /\ inFlight = Absent /\ fetches = <<>>
  /\ etags = <<>> /\ header = [w \in Workers |-> Absent]
  /\ sent = <<>>
  /\ results = <<>>
  /\ ring = [s \in 0..(LetterCapacity - 1) |-> Absent]
  /\ ringAt = 0 /\ ringCount = 0 /\ letters = <<>>

SendNext ==
  \/ \E w \in Workers :
       \/ Take(w) \/ Wake(w) \/ Pass(w) \/ Acquire(w)
       \/ SendNothing(w) \/ Publish(w) \/ Authenticate(w) \/ Refused(w)
       \/ \E a \in target.answers : Answer(w, a)
  \/ \E ttl \in TokenTtls : TokenArrives(ttl)
  \/ TokenFails
  \/ ClockTicks

SendSpec == SendInit /\ [][SendNext]_sendVars

-----------------------------------------------------------------------------
(* Properties *)

\* Over any stretch of time no more attempts are made than the bucket holds and
\* refills, and none between a 429 and the end of the wait it asked for, by
\* whichever slot (rate-limiter.ts:46-57, 91-116).
Paced ==
  /\ ~Unlimited =>
       \A i, j \in DOMAIN grants : i <= j =>
         TicksPerSecond * (j - i + 1) <= CapacityOf(target) + target.rps * (grants[j] - grants[i])
  /\ \A p \in penalties : \A i \in DOMAIN grants : i > p.after => grants[i] >= p.until

\* The token endpoint is asked by one slot for all, and again only when the
\* last token was refused, had expired or never came (auth.ts:142-158).
FetchesExplained ==
  \A f \in DOMAIN fetches : f > 1 =>
    LET last == fetches[f - 1]
    IN last.ended # Absent /\ (last.refusals > 0 \/ fetches[f].started >= last.expires)

\* An event counts as delivered when a request that carried it was accepted, or
\* when it has nothing to send; a failed one had all its attempts, or its job
\* had an answer that no retry would change (in a Bulk request it shares the
\* fate of the others, even when it has nothing to send); retries repeat the key
\* (wire.ts:80-96, base-adapter.ts:385-410).
Carrying(id) == {i \in DOMAIN sent : \E e \in sent[i].events : e.id = id}
DeliveredMeansAccepted ==
  \A id \in DOMAIN results :
    LET mine == Carrying(id)
        e == CHOOSE x \in Events : x.id = id
    IN /\ results[id].outcome = "delivered" =>
            (\E i \in mine : sent[i].status \in 200..299) \/ Wired(<<e>>) = <<>>
       /\ results[id].outcome = "failed" =>
            \/ results[id].attempts = target.maxRetries + 1
            \/ \E i \in DOMAIN sent :
                 /\ e \in sent[i].job
                 /\ sent[i].status # Absent /\ sent[i].status \notin Retryable \cup (200..299)
       /\ Cardinality(mine) <= results[id].attempts
       /\ \A i, j \in mine : sent[i].key = sent[j].key

\* The ring lists the newest dead letters, newest first (dead-letter.ts:25-57).
LettersKept ==
  List = [i \in 1..Smaller(Len(letters), LetterCapacity) |-> letters[Len(letters) - i + 1]]

\* A remembered ETag is the newest the target told of its user, and what a request
\* demands with If-Match was the newest one of its own user when it was made,
\* whatever was answered to other slots since (sender-scim.ts:304-337).
NewestTag(u, etag, until) ==
  /\ etag \in 1..until /\ sent[etag].tells = u
  /\ \A k \in (etag + 1)..until : sent[k].tells # u
EtagsKept ==
  /\ Len(etags) <= EtagLimit
  /\ \A t \in Range(etags) : NewestTag(t.user, t.etag, Len(sent))
ConditionsTold ==
  \A i \in DOMAIN sent :
    LET match == sent[i].ifMatch
    IN match # Absent =>
         /\ match.asOf < i /\ match.user \in {e.user : e \in sent[i].job}
         /\ NewestTag(match.user, match.etag, match.asOf)

\* Nobody waits for a refresh that is over, although the slot that asked for it
\* ends like all others when it fails (auth.ts:142-158).
RefreshAwaited ==
  /\ inFlight # Absent => fetches[inFlight].ended = Absent
  /\ \A w \in Workers : pc[w] = "token" => inFlight # Absent

SentTruly ==
  /\ FetchesExplained /\ RefreshAwaited /\ DeliveredMeansAccepted
  /\ LettersKept /\ EtagsKept /\ ConditionsTold
=============================================================================
