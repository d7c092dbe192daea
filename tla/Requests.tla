------------------------------ MODULE Requests ------------------------------
(***************************************************************************)
(* The requests of the enrichment workers: the rate limiter                *)
(* (enrichment/rate-limiter.ts) and the retries of graphqlWithRetry,       *)
(* against a GitHub that keeps two budgets per token: the points of its    *)
(* GraphQL API, of which a query costs several, and the requests of its    *)
(* REST API, of which a call costs one.  One limiter hears of both, and    *)
(* what it hears of one overwrites what it knew of the other.              *)
(*                                                                         *)
(* Every worker is a sequential process with a RateLimiter of its own,     *)
(* which knows only what the answers said; several may share a token.      *)
(* GitHub is external: it counts what it executes within a window of its   *)
(* own per budget, which starts with the first request after the last one, *)
(* refuses when nothing is left, may ask for a pause (a secondary limit),  *)
(* fail, hang, and execute what no worker waits for: a request that was    *)
(* given up, or one of somebody else who has the token.                    *)
(*                                                                         *)
(* Time is a number of ticks, and every deadline counts down.              *)
(***************************************************************************)
EXTENDS Integers

CONSTANTS
  Workers,      \* worker ids: 0 .. total - 1
  Tokens,       \* GitHub tokens
  TokenOf,      \* the token of every worker
  Budget,       \* points of a window, of either API: 5000
  MaxCost,      \* bound: points of a query, about one per repository or comment
  MinRemaining, \* 100
  Window,       \* ticks: an hour
  Timeout,      \* ticks until a request is aborted: RESPONSE_TIMEOUT_MS
  MaxRetries,   \* attempts of a query: MAX_RETRIES
  Backoffs,     \* ticks before attempt n + 1: 1, 2 seconds
  RetryAfter    \* ticks a secondary limit asks for

Apis == {"graphql", "rest"}

ASSUME RequestsAssumption ==
  /\ TokenOf \in [Workers -> Tokens]
  /\ Budget \in Nat /\ MinRemaining \in 1..Budget /\ MaxCost \in Nat \ {0}
  /\ Window \in Nat \ {0} /\ Timeout \in Nat \ {0}
  /\ MaxRetries \in Nat \ {0} /\ Backoffs \in [0..(MaxRetries - 1) -> Nat]
  /\ RetryAfter \in Nat

VARIABLES
  left,       \* GitHub: points left in the window, per token and API
  ends,       \* GitHub: ticks until that window ends
  exits,      \* RateLimiter.exitOnRateLimit: --exit-on-rate-limit of the worker's run
  remaining,  \* RateLimiter.remaining
  resetAt,    \* RateLimiter.resetAt: ticks from now, 0 when past
  pc,         \* what the worker is doing
  wait,       \* ticks until it wakes up, or until its request is aborted
  api,        \* the API its request is for
  attempt,    \* graphqlWithRetry: attempt
  reply,      \* what has become of its request
  heard,      \* history: the API the limiter heard of last
  unheard     \* history: points of an API its token was charged since the worker heard of it
github == <<left, ends>>
limiter == <<exits, remaining, resetAt>>
known == <<heard, unheard>>
vars == <<github, limiter, pc, wait, api, attempt, reply, known>>

Costs(a) == IF a = "graphql" THEN 1..MaxCost ELSE {1}

\* A budget at GitHub: a token's for one API.
Budgets == Tokens \X Apis
Of(w, a) == <<TokenOf[w], a>>

\* Not served yet, and served without an answer that ever arrives.
Bare(kind) == [kind |-> kind, remaining |-> 0, resets |-> 0, unheard |-> 0]
WithHeaders == {"answer", "refused", "secondary"}

Least(a, b) == IF a < b THEN a ELSE b
Most(a, b) == IF a > b THEN a ELSE b

\* Mutant of Down: a reset that is past counts on.
DownPast(n) == n - 1

\* A deadline comes nearer; one that is past is 0 (the Math.max of the waits).
Down(n) == Most(n - 1, 0)

\* What is left of a budget: a window that is over has not been started again yet.
Left(b) == IF ends[b] = 0 THEN Budget ELSE left[b]

(***************************************************************************)
(* The rate limiter.                                                       *)
(***************************************************************************)
\* The history of what a worker has heard.
Hear(w, r) ==
  LET heardOf == r.kind \in WithHeaders IN
  /\ heard' = [heard EXCEPT ![w] = IF heardOf THEN api[w] ELSE @]
  /\ unheard' = [unheard EXCEPT ![w][api[w]] = IF heardOf THEN r.unheard ELSE @]

\* Mutant of UpdateFrom: the remaining budget is not read.
UpdateResetOnly(w, r) ==
  /\ remaining' = remaining /\ exits' = exits
  /\ resetAt' = [resetAt EXCEPT ![w] = IF r.kind \in WithHeaders THEN r.resets ELSE @]
  /\ Hear(w, r)

\* update: what the headers of an answer say, when it has any, of whichever API.
UpdateFrom(w, r) ==
  /\ remaining' = [remaining EXCEPT ![w] = IF r.kind \in WithHeaders THEN r.remaining ELSE @]
  /\ exits' = exits
  /\ resetAt' = [resetAt EXCEPT ![w] = IF r.kind \in WithHeaders THEN r.resets ELSE @]
  /\ Hear(w, r)

\* pacingDelay: the rest of the window spread over the usable budget, less what has
\* passed since the last request.
PacingDelays(w) ==
  LET usable == remaining[w] - MinRemaining
  IN IF resetAt[w] = 0 \/ usable <= 0 THEN {0}
     ELSE 0..((resetAt[w] + usable - 1) \div usable)

Enter(w, phase, ticks) ==
  /\ pc' = [pc EXCEPT ![w] = phase] /\ wait' = [wait EXCEPT ![w] = ticks]

\* An attempt is sent, under the timer of its AbortController.
Submit(w) ==
  /\ Enter(w, "sent", Timeout)
  /\ reply' = [reply EXCEPT ![w] = Bare("none")]

\* Mutant of HardStop: the wait for the reset is skipped.
HardStopNoWait(w) ==
  /\ remaining[w] < MinRemaining
  /\ Enter(w, IF exits[w] THEN "exited" ELSE "throttled", 0)
  /\ UNCHANGED reply

\* waitIfNeeded, below the threshold: RateLimitExitError, or wait for the reset and a
\* second more.
HardStop(w) ==
  /\ remaining[w] < MinRemaining
  /\ \/ exits[w] /\ Enter(w, "exited", 0)
     \/ ~exits[w] /\ Enter(w, "throttled", resetAt[w] + 1)
  /\ UNCHANGED reply

\* waitIfNeeded, otherwise: pacing, unless the worker exits on a limit.
Pace(w) ==
  /\ remaining[w] >= MinRemaining
  /\ \E delay \in IF exits[w] THEN {0} ELSE PacingDelays(w) :
       \/ delay = 0 /\ Submit(w)
       \/ delay > 0 /\ Enter(w, "paced", delay) /\ UNCHANGED reply

\* A stage asks GitHub something, by a query or by a REST call.
Ask(w) ==
  /\ pc[w] = "idle" /\ (HardStop(w) \/ Pace(w))
  /\ \E a \in Apis : api' = [api EXCEPT ![w] = a]
  /\ UNCHANGED <<github, limiter, attempt, known>>

\* The throttled wait is over: remaining is set to the minimum, whatever GitHub has.
Resume(w) ==
  /\ pc[w] = "throttled" /\ wait[w] = 0
  /\ remaining' = [remaining EXCEPT ![w] = MinRemaining]
  /\ Submit(w)
  /\ UNCHANGED <<github, exits, resetAt, api, attempt, known>>

\* The pacing pause, or the pause before another attempt, is over.
Proceed(w) ==
  /\ pc[w] \in {"paced", "backoff"} /\ wait[w] = 0 /\ Submit(w)
  /\ UNCHANGED <<github, limiter, api, attempt, known>>

(***************************************************************************)
(* graphqlWithRetry, and REST calls, which have a single attempt.          *)
(***************************************************************************)
\* The caller gets an answer or an error, and updates the limiter from its headers.
Return(w) ==
  /\ Enter(w, "idle", 0) /\ attempt' = [attempt EXCEPT ![w] = 0]
  /\ reply' = [reply EXCEPT ![w] = Bare("none")]

\* Mutant of MayRetry: an abort that comes again and again is retried for ever.
MayRetryAlways(w) == api[w] = "graphql"

MayRetry(w) == api[w] = "graphql" /\ attempt[w] < MaxRetries - 1

\* A retryable failure: back off and try again without a look at the limiter, which
\* learns from the headers of the last failure only.
Fail(w) ==
  \/ /\ MayRetry(w)
     /\ attempt' = [attempt EXCEPT ![w] = (@ + 1) % MaxRetries]
     /\ Enter(w, "backoff", Backoffs[attempt[w]])
     /\ reply' = [reply EXCEPT ![w] = Bare("none")]
     /\ UNCHANGED <<limiter, known>>
  \/ ~MayRetry(w) /\ Return(w) /\ UpdateFrom(w, reply[w])

\* The data, or an error that is not retried.
ReceiveAnswer(w) ==
  /\ pc[w] = "sent" /\ reply[w].kind = "answer"
  /\ Return(w) /\ UpdateFrom(w, reply[w])
  /\ UNCHANGED <<github, api>>

\* A failure: a 502, a reset connection, "errors only", which is how GraphQL refuses, and
\* the 403 of the REST API.
ReceiveError(w) ==
  /\ pc[w] = "sent" /\ reply[w].kind \in {"error", "refused"}
  /\ Fail(w)
  /\ UNCHANGED <<github, api>>

\* A 403 with retry-after: handleRetryAfter sleeps before the caller hears of it.
ReceiveSecondary(w) ==
  /\ pc[w] = "sent" /\ reply[w].kind = "secondary"
  /\ Enter(w, "told", RetryAfter + 1) /\ UpdateFrom(w, reply[w])
  /\ reply' = [reply EXCEPT ![w] = Bare("none")]
  /\ UNCHANGED <<github, api, attempt>>

Told(w) ==
  /\ pc[w] = "told" /\ wait[w] = 0 /\ Return(w)
  /\ UNCHANGED <<github, limiter, api, known>>

\* The timer aborts the request, or the agent's socket timeout a REST call; GitHub may
\* execute it all the same.
Abort(w) ==
  /\ pc[w] = "sent" /\ wait[w] = 0 /\ reply[w].kind \in {"none", "lost"}
  /\ Fail(w)
  /\ UNCHANGED <<github, api>>

\* The run has ended and the next one starts, with options of its own and a limiter that
\* knows nothing.
Restart(w) ==
  /\ pc[w] \in {"exited", "idle"}
  /\ Enter(w, "idle", 0)
  /\ remaining' = [remaining EXCEPT ![w] = Budget]
  /\ resetAt' = [resetAt EXCEPT ![w] = 0]
  /\ \E choice \in BOOLEAN : exits' = [exits EXCEPT ![w] = choice]
  /\ heard' = [heard EXCEPT ![w] = "graphql"]
  /\ unheard' = [unheard EXCEPT ![w] = [a \in Apis |-> Budget]]
  /\ UNCHANGED <<github, api, attempt, reply>>

(***************************************************************************)
(* GitHub.                                                                 *)
(***************************************************************************)
\* A request is executed as long as something is left and charged what it costs, in a new
\* window if the last is over.
Execute(b, cost) ==
  LET charged == Least(cost, Left(b)) IN
  /\ left' = [left EXCEPT ![b] = Left(b) - charged]
  /\ ends' = [ends EXCEPT ![b] = IF @ = 0 THEN Window ELSE @]
  /\ unheard' = [w \in Workers |-> [a \in Apis |->
       IF b = Of(w, a) THEN Least(unheard[w][a] + charged, Budget) ELSE unheard[w][a]]]

\* The answers under way that speak of a budget are older by what was charged to it.
Aged(w, b, cost) ==
  IF b = Of(w, api[w]) /\ reply[w].kind \in WithHeaders
  THEN [reply[w] EXCEPT !.unheard = Least(@ + Least(cost, Left(b)), Budget)]
  ELSE reply[w]

Fate(b, kind, now) ==
  IF kind \in WithHeaders
  THEN [kind |-> kind, remaining |-> now,
        resets |-> IF kind = "answer" /\ ends[b] = 0 THEN Window ELSE ends[b],
        unheard |-> 0]
  ELSE Bare(kind)

\* Executed: the answer, a failure on the way, or nothing at all.
ServeExecuted(w) ==
  LET b == Of(w, api[w]) IN
  /\ pc[w] = "sent" /\ reply[w].kind = "none" /\ Left(b) > 0
  /\ \E cost \in Costs(api[w]), kind \in {"answer", "error", "lost"} :
       /\ Execute(b, cost)
       /\ reply' = [v \in Workers |-> IF v = w THEN Fate(b, kind, Left(b) - Least(cost, Left(b)))
                                               ELSE Aged(v, b, cost)]
  /\ UNCHANGED <<limiter, pc, wait, api, attempt, heard>>

\* Not executed: a connection that fails, a budget that is used up, a secondary limit.
ServeRefused(w) ==
  LET b == Of(w, api[w]) IN
  /\ pc[w] = "sent" /\ reply[w].kind = "none"
  /\ \E kind \in {"error", "refused", "secondary"} :
       /\ kind = "refused" <=> Left(b) = 0
       /\ reply' = [reply EXCEPT ![w] = Fate(b, kind, Left(b))]
  /\ UNCHANGED <<github, limiter, pc, wait, api, attempt, known>>

\* What no worker waits for is charged to a budget: a request its worker has given up, or
\* one of somebody else who has the token.
ServeElsewhere(b) ==
  /\ Left(b) > 0
  /\ \E cost \in Costs(b[2]) : /\ Execute(b, cost)
                              /\ reply' = [w \in Workers |-> Aged(w, b, cost)]
  /\ UNCHANGED <<limiter, pc, wait, api, attempt, heard>>

Tick ==
  /\ ends' = [b \in Budgets |-> Down(ends[b])]
  /\ resetAt' = [w \in Workers |-> Down(resetAt[w])]
  /\ wait' = [w \in Workers |-> Down(wait[w])]
  /\ reply' = [w \in Workers |-> [reply[w] EXCEPT !.resets = Down(@)]]
  /\ UNCHANGED <<left, exits, remaining, pc, api, attempt, known>>

-----------------------------------------------------------------------------
Init ==
  /\ left = [b \in Budgets |-> Budget] /\ ends = [b \in Budgets |-> 0]
  /\ exits \in [Workers -> BOOLEAN]
  /\ remaining = [w \in Workers |-> Budget] /\ resetAt = [w \in Workers |-> 0]
  /\ pc = [w \in Workers |-> "idle"] /\ wait = [w \in Workers |-> 0]
  /\ attempt = [w \in Workers |-> 0] /\ reply = [w \in Workers |-> Bare("none")]
  /\ api = [w \in Workers |-> "graphql"] /\ heard = [w \in Workers |-> "graphql"]
  /\ unheard = [w \in Workers |-> [a \in Apis |-> Budget]]

\* What a worker does by itself once it has asked.
Step(w) == \/ Resume(w) \/ Proceed(w) \/ Told(w) \/ Abort(w)
           \/ ReceiveAnswer(w) \/ ReceiveError(w) \/ ReceiveSecondary(w)

Next == \/ \E w \in Workers : Ask(w) \/ Step(w) \/ Restart(w)
        \/ \E w \in Workers : ServeExecuted(w) \/ ServeRefused(w)
        \/ \E b \in Budgets : ServeElsewhere(b)
        \/ Tick

Spec == Init /\ [][Next]_vars

\* Time passes, and a worker takes the step that is due; GitHub owes nothing.
FairSpec == Spec /\ WF_vars(Tick) /\ \A w \in Workers : WF_vars(Step(w))
-----------------------------------------------------------------------------
Phases == {"idle", "throttled", "paced", "sent", "backoff", "told", "exited"}
ReplyType == [kind : {"none", "lost", "error"} \cup WithHeaders,
              remaining : 0..Budget, resets : 0..Window, unheard : 0..Budget]

TypeOK ==
  /\ left \in [Budgets -> 0..Budget] /\ ends \in [Budgets -> 0..Window]
  /\ exits \in [Workers -> BOOLEAN]
  /\ remaining \in [Workers -> 0..Budget] /\ resetAt \in [Workers -> 0..Window]
  /\ pc \in [Workers -> Phases] /\ wait \in [Workers -> Nat]
  /\ attempt \in [Workers -> 0..(MaxRetries - 1)]
  /\ reply \in [Workers -> ReplyType]
  /\ api \in [Workers -> Apis] /\ heard \in [Workers -> Apis]
  /\ unheard \in [Workers -> [Apis -> 0..Budget]]

\* What a worker believes is never more than what its token has left of the API it heard of
\* last, but for the points charged since that it has not heard of: those of the workers it
\* shares the token with, those of a query whose answer was lost or that was executed after
\* it gave it up.  The minimum that is assumed after a throttled wait is covered by the
\* reset that was waited for.
KnowsEnough ==
  \A w \in Workers : remaining[w] <= Left(Of(w, heard[w])) + unheard[w][heard[w]]

\* The threshold works, although one limiter serves two budgets, a query may cost more than
\* the threshold, and up to MaxRetries attempts are made without a new look: a request meets
\* a used-up budget only if at least MinRemaining of that budget's own points were charged
\* since its worker last heard of that budget, whatever it heard of the other one meanwhile.
RefusalsAreUnheard ==
  \A w \in Workers :
    pc[w] = "sent" /\ reply[w].kind = "none" /\ Left(Of(w, api[w])) = 0
      => unheard[w][api[w]] >= MinRemaining

\* A request ends, with an answer, an error or the end of the run, although GitHub may
\* never answer: it is aborted, retried a limited number of times, and the waits end.
RequestsEnd ==
  \A w \in Workers : pc[w] \notin {"idle", "exited"} ~> pc[w] \in {"idle", "exited"}
=============================================================================
