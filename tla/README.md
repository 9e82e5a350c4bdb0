# TLA+ models of Kit

Kit is a set of Python packages (`kit-core`, `kit-api`, `kit-data`, `kit-pay`,
`kit-media`) of small backend components whose state, with few exceptions, lives in Redis.
Nearly all of them are a few Redis commands in a row, run at the same time by every worker of
a service. A Redis command is atomic; the Python method around it is not. What
can go wrong is therefore in the order in which the commands of several workers
reach Redis, in a worker that dies between two commands, and in keys that expire
between them. None of this is reached by the packages' tests, which call one method
after another against a fake Redis. That is what these specifications are about.

Contents: the modules and what they model, the runs of TLC, what is proved, an
inventory of the whole repository, and the plan for what is left. Paths in this
document are those of the repository.

## Modules

| module | models |
|---|---|
| `CircuitBreaker` | `kit_api/circuit_breaker.py`, with the decorator and the Celery wrapper `kit_task` (with its `RetryEngine`) as the callers |
| `BreakerProtocol` | the abstract breaker: the state diagram of the docstring, one atomic step per outcome |
| `CircuitSerial` | `CircuitBreaker` with one worker, and the refinement mapping to `BreakerProtocol`; `MCComponents` runs it |
| `ConcurrencyLimiter` | `kit_data/concurrency.py`: the bulkhead over a sorted set |
| `BulkheadSlots` | the abstract bulkhead: take a slot if there is one, give it up |
| `Idempotency` | `kit_api/idempotency.py` with its users: the decorator, the FastAPI and Django middleware, the order endpoint of `example-app/main.py` |
| `WebhookReceiver` | `kit_pay/webhook_receiver.py`: lookup, handlers, mark |
| `EventProcessor` | `kit_pay/event_processor.py`; EXTENDS `WebhookReceiver` and composes it with the three lists, the metrics and the webhook endpoint |
| `RateLimiter` | `kit_api/rate_limiter.py`: the Lua script, and the clocks of its callers |
| `Subscription` | `kit_pay/plan_state.py` and `kit_pay/grace_handler.py` composed: two records, and the operations that change them |
| `Cache` | `kit_data/cache.py`: `get_or_set` by several callers, with a writer that changes what the loader reads |
| `ChunkedUpload` | `kit_media/chunked_upload.py` with the storage adapter it awaits |
| `Budget` | `kit_pay/budget_enforcer.py`: charges that race, periods that roll over, and hosts in another time zone |
| `SimpleRateLimiter` | the rate limiter of `example-app/main.py`, which has no script |
| `CostTracker` | `kit_api/cost_tracker.py`: one record in several periods |
| `PaymentKeys` | `kit_pay/idempotency_key.py`, used as the README shows it |
| `RetryDemo` | `kit_api/retry_engine.py` behind the retry endpoint of `example-app/main.py` |
| `ReplicaRouter` | `kit_data/replica_router.py`: threads that share one dictionary of marks |
| `KeysetPaginator` | `kit_data/pagination.py` over a table that changes |
| `CaptionJob` | `kit_media/caption_job.py`: workers that report, a client that polls |
| `GCSAdapter` | the multipart upload of `kit_media/adapters/gcs_adapter.py` |
| `MCConcurrencyLimiter`, `MCEvents`, `MCRateLimiter`, `MCUpload` | instances for TLC: symmetry sets, the deliveries |
| `Components` | the nine components from `Budget` to `GCSAdapter`: their parameters, the assumptions on these, one instance of each with variables of its own, and names for their properties |
| `MCComponents` | `Components` and `CircuitSerial` for TLC: one component runs, the others stand still |
| `ComponentsProofs` | theorems about `Idempotency` and about the nine of `Components` |
| other `*Proofs` | theorems about the module of that name; `CircuitBreakerProofs` also about `CircuitSerial` |

### How the code becomes actions

* One Redis command is one action. A pipeline executed at once (`reset()`)
  is one action. What the code computes between two commands belongs to the
  action before it, so that a process's `pc` says which command it issues next.
* The clock is read together with the Redis command next to it
  (`GetOpenedAt`, `SetOpenedAt` in `CircuitBreaker`). In `ConcurrencyLimiter`,
  where the time between reading the clock and using it matters, `Begin` reads it
  and `ZAdd` comes later.
* A missing key reads as what the code makes of it: no `state` key is
  `"closed"`, no counter is 0.
* A process that dies issues no more commands (`Crash`). An exception that the
  code does not catch, for instance a lost Redis connection, is the same
  thing to the shared state.
* The client is the synchronous `redis-py` one, which the tests and the example app
  inject. (`kit_core.RedisClient` wraps the asyncio client, while `kit_api` and `kit_data`
  call `.client` without `await`; nothing in the repository combines them.)
* Payloads, responses and names are model values. The only fields of a record that
  are kept are those a guard reads.
* Some variables exist only for the properties. They are marked `history:` at
  their declaration, and no guard reads them.
* Operators whose comment starts with `Mutant:` are variants of the action
  that follows them with one plausible mistake in it. No specification uses
  them: each is there to show that a property fails when the mistake is made.

### CircuitBreaker

State: the keys `state`, `failures`, `ho_calls` (`hoCalls`) and `opened_at`, the last
one as its `age`, and for every client the next command `pc[c]` and the operation
it belongs to `op[c]` (the `state` getter is shared by all operations, and `Resume`
is the return to the one that called it).

| code | actions |
|---|---|
| `state` getter | `GetState`, `GetOpenedAt`, `SetHalfOpen`, `ZeroHoCalls` |
| `allow_request` | `StartCall`, the getter, `AllowRequest`, `IncrHoCalls` |
| `record_success` | `CallReturns`, the getter, `RecordSuccess`, `SetClosed`, `ZeroFailuresClosing`, `DelHoCalls` or `ZeroFailures` |
| `record_failure`, `_trip` | `CallRaises`, the getter, `RecordFailure`, `IncrFailures`, `SetOpen`, `SetOpenedAt` |
| `reset` | `Reset` |
| `RetryEngine.execute` around the call in `kit_task` | `AfterFailure`: the attempt is repeated, without a new `allow_request`, until `max_retries` are used up |
| the dependency, the clock, a killed worker | `Heal`, `Tick`, `Crash` |

`opened_at` is written with `int(time.time())`, so it may lie up to a second in the
past: with `Second` ticks to the second, `SetOpenedAt` sets `age` to the
fraction of the second that was dropped. `failures` is saturated at the threshold,
`hoCalls` at one above its limit, `age` at the timeout: the code only
compares them with those values.

### ConcurrencyLimiter

State: the sorted set as its members (`zset`) and their `score`, the `deadline`
that EXPIRE gave the key, the clock, and each worker's `pc`. `acquire()` is
`Begin` (clock and token), `ZAdd`, `Trim`, `SetExpiry`, `Count`, and for the loser
`Reject`; `release()` and the end of `slot()` are `Release`; `in_flight()` is
`InFlight`, which trims. `Tick` advances the clock and, at the deadline, removes the
whole key. Removing the last member removes the key and its TTL, as in Redis.

### Idempotency

State: the stored `response`, the holder of the `lock` (the value in Redis is
just `"1"`; the holder is there for the properties, and no command looks at it) and `pc`
of each request. All requests carry one idempotency key: requests with
different keys share nothing. The three sets of requests run different code over
the same keys:

* `Decorated`: `idempotent()` releases the lock when the handler raises, and again
  after it has stored the response; a response that cannot be stored leaves it. It stores
  a `CachedResponse` only: the handlers of the requests in `plain`, any of them, may return something else
  (`HandlerReturnsOther`), and then nothing is stored, however often that happens;
* `Middleware`: both middleware release it after storing the response but
  have no `try`, so an exception leaves it;
* `Endpoint`: the order endpoint never releases it and relies on the TTL.

`LockExpires` may happen at any time after the lock is set, because nothing relates
how long a handler runs to `lock_ttl`. `release_lock` is a plain DEL and deletes
whatever lock is there.

### WebhookReceiver and EventProcessor

State of the receiver: the ids with a `seen` key, and for every process the delivery
in its `hand`, the handlers that returned so far (`ran`) and the status that `process()`
returned. `process()` is `Lookup`, `HandlerReturns` or `HandlerRaises` for each
handler, then `MarkSeen` or `MarkRaises`. A status `"blank"` is a failure whose error
text is empty, which the caller treats differently.

`EventProcessor` adds the lists `queue` and `failed` (LPUSH/RPOP, so first in first out),
the dead letters, the attempts in the record, and the metrics. `enqueue` is `Enqueue` then
`IncrMetric`; an iteration of `process_batch` is `Pop`, the whole of `process()`,
then `PushFailure` (that is `_handle_failure`) or `Complete`, then `IncrMetric`; an
iteration of `retry_failed` is `PopFailed`, `Requeue`, `IncrMetric`. The webhook
endpoint is `Receive`, `process()`, `Answer`. Any process may do any of these at
any time; batches are not modelled as a unit, since a batch is only the same
iteration again.

### RateLimiter

State: the sorted set (`zset`, `score`), its `deadline`, and the clock `now` of Redis.
`acquire` is one Lua script and hence one action: `Admit` or `Refuse`, by what the set
holds after the trim. What is not atomic with the script is its argument: each client
reads `time.time()` on its own host before it sends the script. So a script that runs
at `now` works with any timestamp in `Timestamps`, from `Lag` behind (a slow clock,
a slow network) to `Lead` ahead. The member is the timestamp and a random
number; a call that draws the pair of an earlier one replaces its member (`Alike`).
`remaining()` is `Remaining`, which trims; `reset()` is `Reset`.

### Subscription

State: the plan record (`plan`), the grace record (`grace`, with end 0 for a missing
key), and for every worker the two records as it has read them (`sub`, `rec`), since an
operation writes back the whole JSON value it read. An end is counted in
extensions: `start_grace` makes it 1, `extend_grace` adds one.

| code | actions |
|---|---|
| `PlanStateManager.transition` | `Get` (read and validate), `Put` |
| `start_grace` | `Get`, `Put`, `GetAgain`, `PutUntil`, `PutGrace` |
| `extend_grace` | `GetGrace`, `GetAgain`, `PutUntil`, `PutGrace` |
| `end_grace` | `Get`, `Put`, `GetAgain`, `PutUntil`, `DelGrace`; the target is `active` for the reason "resolved", `cancelled` for any other |
| `mark_reminder_sent` | `GetGrace`, `PutGrace` |
| `create` | `Init` |

The histories `stale` (whose copy has been overtaken) and `irregular` (did
operations overlap, was one cut short, did a `transition` go round the handler)
say in which executions a property may fail.

### Cache

State: the cached `value` or a miss, the `lock` key with what is `lockLeft` of
its TTL, and per caller its `pc`, what its loader `got`, and how long it may still
wait (`waitLeft`). `get_or_set` is `Get`, then `WinLock`, `Recheck`, `Load`, `Put`,
`Unlock` for the caller that wins, and `TurnedAway`, `Poll`, `Wait` for one that
does not, which at its deadline goes on to `Load` and `Put` without the lock. `Raise`
is the loader that raises or a value that is not JSON. `Nulls` are the contents for
which the loader returns None: they are stored as `null`, and read back as a miss.
The other half of the model is what a cache is for: the database changes
(`Update`), and its writer then calls `delete` (`Invalidate`) or `set`
(`WriteThrough`). `ValueExpires` may happen at any time, because of the jitter.

### ChunkedUpload

State: the JSON `record` in Redis, the multipart upload at the storage service
(`storage`, `stored`, `object`), and each worker's operation with the record as it
has `seen` it. Every operation is a read (`Read`), the awaited call of the adapter
(`SendPart`, `SendComplete`, `SendAbort`, or `Refused` if it is not
`Accepted`), and the write of the whole record (`WritePart`, `WriteFinal`).
`complete` is called without a part list (the recorded ones) or with one of the
received ETags. No operation looks at the status in the record, so what can be refused is up to the `adapter`, which is
one of `Adapters`. The services are modelled from how the adapters use them. S3 takes nothing more once the
upload is completed or aborted, and completes with parts it has only. With `adapters/gcs_adapter.py` a session that
has been deleted takes no parts, but complete makes no request and abort does not look at the answer to
its DELETE, so neither is ever refused (`Unchecked`).

### Budget

State: the limit (`config`), and for each period the list of the present one as the sum of its
charges by time stamp (`spent`). `record_charge` is `GetLimit`, `Sum`, `Block` or `Allow`, `Push`. Each
of these asks the clock anew which period it is, and `Advance` may come between any two.
Weekly periods begin at `Tag` for the name of the list and at `Start`, in the hosts' local time, for what
is counted; `west` is how far the hosts are from UTC. Daily periods are left out: they do what monthly ones
do. Amounts are whole units and positive.

### SimpleRateLimiter

State: the sorted set (`members`, each the request it was added for), the time each request read
(`stamp`), the TTL of the key (`keyEnds`). `acquire` is `Begin` (the clock), `Trim`, `Count`, `Add`, `Expire`;
the endpoint then asks `remaining` (`Look`, with a clock reading of its own), and `reset` is `Reset`. The requests
run in the threads of one server, at most `Threads` at once.

### CostTracker

State: the counter of each period and bucket for the provider (`total`) and for each worker's
endpoint (`share`), and when these keys expire. `record()` is `NameKey` once for every key, since
`_bucket` reads the clock each time, and `Execute`, the transaction with all the increments
and TTLs. `Usage` and `EndpointUsage` are what `get_usage` and `get_endpoint_usage` read.

### PaymentKeys

State: the lock (`lockOf`; whose it is matters to the property only) and the result. A client runs the
code of the README: `AcquireLock`, `Pay` or `Refused`, `mark_completed` as `StoreResult` and `Release`, the
`finally` with its own release (`Finally`), `GetResult`. A client that finds no result may start over. The lock runs out
(`LockLapses`), and so does the result (`ResultExpires`), which `mark_completed` stores with a TTL.

### RetryDemo

State: the global `_retry_call_count` (`count`), and each request's attempt in `RetryEngine.execute`. The
endpoint zeroes the count (`Start`); an attempt is `LoadCount`, `StoreCount` (a `+=` in Python is not
atomic) and then `Returns` or `Raises` by the count as it is by then.

### ReplicaRouter

State: the dictionary of marks (`downAt`), and of each thread the list that `_recover` has made (`stale`), its
`pool`, the replicas it has `tried`, and the one it reads from. A round of `run` is `Scan`, `Recover` for each mark
to delete, `Pool`, `Select`, then `Return` or `Failover`; `MarkedDown` and `MarkUp` are the application's own calls.
`ScanRaises` is the `RuntimeError` of a dictionary that changes size while it is iterated, and `Recover`
of a mark that is gone the `KeyError`. `route` is the first round.

### KeysetPaginator

State: the table and its rows' keys, which may be equal, the `cursor`, and how often each row was `seen`. `Page` is
one `fetch` and what `iter_items` does with it; `Insert` and `Delete` come between pages. The query is external: `WHERE
key > cursor ORDER BY key LIMIT n`, with the rows of one key in any order.

### CaptionJob

State: the `job` record, each worker's `copy` of it and the `report` it is to make, and what the `client` knows.
`update_status` is `Read` and `Write`; `poll` is `Poll` (a poll that does not say completed changes nothing), `get_result` is
`GetResult`. More than one worker may take a job up, as when a backend retries it.

### GCSAdapter

State: the session and the `bytes` of the object, by the part that put each there. `upload_part` is `Send` and then
`Land` or `Fail`, by the storage service: an answer may be lost after the bytes have been put. `Offset` is the adapter's
computation. Completing makes no call, so it has no action here; what that does to the uploader's record is in `ChunkedUpload`.

## Runs

| run | instance | what it shows |
|---|---|---|
| `circuit_shared` | 2 callers, 1 monitor, threshold 2, one trial, timeout of one tick, 1 crash, 1 reset | a circuit at rest is not half-open with no trial left (`HalfOpenHasTrial`), nor closed and one failure from tripping (`ClosedIsArmed`); it closes for good when the dependency has recovered and nobody was killed (`Recovers`) |
| `circuit_trials` | 2 callers, threshold 1, one trial, no fault | a finding: two test calls at once in a half-open circuit that allows one |
| `bulkhead` | 3 workers, 1 slot, hold time 2, clock to 5 | the limit, the trimming and the refinement of `BulkheadSlots` |
| `idempotency` | 1 request of each kind, 2 faults, 1 crash, 1 expiry | exclusion, no lock stranded for an unlisted cause, a stored response in the end unless a decorated handler returns plain values |
| `idempotency_replay` | 2 decorated requests, no fault at all | a finding: the handler runs twice and the first response is replaced |
| `events` | 2 processes, a delivery, its redelivery to the endpoint, an event nobody handles; 2 handlers, 3 retries, 3 faults, 1 crash, 1 expired mark | deduplication, one place for each event, attempts and dead letters, verdicts, metrics, everything settles |
| `events_blank` | the same, 1 fault | a finding: a handler that raises an exception without a message has its event counted as completed |
| `rate_limit` | 4 calls, 2 per window of 4, timestamps one behind to one ahead, clock to 8, 1 reset | the limit holds in a window shortened by the clocks' error (`WindowBound`), nobody is refused for nothing (`RefusalIsFair`), and the key goes exactly one window after the latest admitted call, however many were refused or trimmed since (`KeyOutlivesWindow`) |
| `subscription` | 2 workers, 1 extension, 1 crash, from every state | the two records agree at rest if operations did not overlap (`BooksAgree`); forbidden transitions (`TransitionsEnforced`), lost extensions and revived grace records (`GraceKept`) come from stale writes only |
| `cache` | 2 callers, lock TTL of 2, 2 changes of the data, one content for which the loader returns None, 1 fault, 1 crash | one caller computes under the lock (`SingleFlight`), the others outwait it (`FailsOpenLate`), no stale value but for a late store (`FreshUnlessLate`), and every call ends (`CallsEnd`) |
| `upload` | 2 workers, 2 parts with 2 contents each; S3 with 1 fault and 1 expiry of the record, or GCS without | with S3 a final status is true (`FinalIsTrue`) and stays (`FinalStays`); with either, complete() without a list names all acknowledged parts (`ObjectIsWhole`), unless a stale record is written |
| `components` | see below | nine components that share nothing, and the breaker of a single worker, one at a time in one run |

`components` adds up the states of ten models, the nine instances of `Components` and `CircuitSerial`: `MCComponents` chooses one at the start and leaves the others
still. What is chosen, and what is checked of it:

| component | instance | property |
|---|---|---|
| `Budget` | 2 workers, charges of 2, limits of 1 and 2, periods of 2, hosts one tick east of UTC, or one tick west with weekly limits only, clock to 2, 2 pushes | `OverspendBounded`: charges that race exceed the highest limit by one charge for each other worker at most; what is stamped in one period and pushed in the next is one charge for each worker |
| `SimpleRateLimiter` | 5 requests in 2 threads, 2 per window of 2, clock to 3 | `OvershootBounded`: one request for each other thread too many, but for members lost with an expired key |
| `CostTracker` | 2 workers, periods of 1 and 2, clock to 4 | `UsageIsCurrent`: the usage is that of the present period, up to records made across its beginning |
| `PaymentKeys` | 3 clients, 1 lock or result that runs out | `PaidOnce`: a payment goes through twice only for a listed cause |
| `RetryDemo` | 2 requests, 2 retries, any number of failures up to 3 | `DemoIsTrue`: a request that ran alone succeeds if and only if the retries are enough |
| `ReplicaRouter` | 2 threads, 2 replicas, cooldown of 2, clock to 2 | `RoutesByHealth`: a pool has only replicas whose last failure is a cooldown old or whose mark was taken away; a call fails only when every other replica is down |
| `KeysetPaginator` | 4 rows, 3 keys, pages of 2 | `EachRowOnce`: no row twice, none that stayed left out, but for equal keys at the end of a page |
| `CaptionJob` | 3 workers | `PolledIsFetched`: a job polled as completed has a result to fetch, but for its TTL or a second worker |
| `CircuitSerial` | 1 caller of `kit_task` with 2 retries, threshold 3, 2 trials, timeout 2 s, 2 ticks to the second | `ImplementsProtocol`: one worker sees the documented diagram |
| `GCSAdapter` | 4 parts of 3, a last one of 1 to 3 | `PartsInPlace`: parts of one length lie in their places, however they were sent; a shorter last part does the damage stated and no other |

Three of the runs end in a counterexample: they check what the documentation says
of the code, and the code does something else. `PROJECT.json` quotes the
documentation line of each under `findings`. `circuit_trials` and
`idempotency_replay` are races that need two
callers and an order of commands no test has: the slower of two callers that promote an expired circuit zeroes `ho_calls`
after the faster one has counted its trial, and a duplicate that missed the cache takes the lock after the
first request released it.
`events_blank` is a plain mistake in a condition.

Most other properties have an "unless" in them, and the unless is the point: the
code holds no lock over its read-decide-write steps, so lost updates are possible in
`Subscription`, `ChunkedUpload`, `CaptionJob`, `PaymentKeys` and `Budget`. The property says that these
are the *only* way to the bad state. A reader who wants to see one of these races
removes the excuse (`\E w \in stale ...`, `irregular = "no"`, `clobbered = "no"`,
`outdated = "no"`, `excuses = {}`, `crossed`, `mixed`) and lets TLC print it.

Other places where the text and the code differ, seen while modelling and not made a run of:

* `README.md:272-275` decorates with `idempotent` a handler that returns a dictionary. `idempotency.py:119` stores
  a `CachedResponse` and nothing else, so nothing is ever cached for such a handler, and a duplicate that comes after it runs
  it again. `HandlerReturnsOther` is that return, and the reason for the condition `plain = {}` in `EventuallyStored`.
* `chunked_upload.py:111` says of `complete()`: "Returns the final object location." It checks no status, and
  `gcs_adapter.py:147` returns a location without a request: with the GCS adapter a `complete()` after `abort()` returns the location of an
  object that does not exist and turns the record from aborted to completed, and an `abort()` after `complete()` turns it
  back. `FinalIsTrue` and `FinalStays` are therefore stated for S3.
* `README.md:671` documents `end_grace(..., reason="payment_received")` after a payment;
  `grace_handler.py:104-107` cancels the subscription for every reason but "resolved".
* `budget_enforcer.py:154` says "UTC epoch" of a period's start, and the weekly one is
  computed with `mktime`, in local time, while the name of the list changes with UTC. On a
  host west of UTC, charges of the first hours of a week are in the week's list but never counted;
  in those hours nothing is, and no limit is enforced. `OverspendBounded` is about what is counted, and the run
  bounds the number of charges (`PushLimit`) because nothing else does.
* `README.md:519-538` shows `IdempotencyKeyManager` with the lock first, the payment under it, and the
  `get_result` that is to "skip duplicate processing" after both. Run in that order, a repeat of a
  completed payment finds the lock free and processes it again; so does a client of any order that comes after the result's TTL.
  And the release in the `finally`, after `mark_completed` has released the lock already, may delete the lock of the
  next client. `PaidOnce` lists all three among its excuses.
* `gcs_adapter.py` computes a part's offset as if all parts were as long as the one at hand. A
  shorter last part overwrites earlier bytes, and the end of the object stays unwritten.
* `replica_router.py` has no lock around its dictionary: with two threads a call can end with a
  `KeyError` or a `RuntimeError` instead of a replica, and a fresh mark can be deleted with a stale one.
* The retry endpoint of the example app promises success for `fail_times <= 3` and counts all requests'
  attempts in one global: beside another request it may fail earlier, or succeed where it should not.
* `CaptionJob` has no final states: `update_status` accepts any change, and a job polled as
  completed may be processing again when its result is fetched.
* `SimpleRateLimiter` is "simplified", and lets `Threads - 1` requests too many through.

What the passing runs say beside the findings:

* **Breaker.** That two callers can both promote an expired circuit, and that
  `SET half_open` of the slower one can undo a close, costs a test call too many (`circuit_trials`) and is not harmful
  in the long run: whatever is left behind, some operation that is still to
  come repairs it. Only the death of a worker that holds the last trial is not
  repaired (`HalfOpenHasTrial` and `Recovers` exclude it; see the hazard at
  `circuit_breaker.py:133`): `ho_calls` has no TTL, so the circuit then rejects
  every call until someone calls `reset()`.
* **Bulkhead.** Add-then-check never admits too many, in any order, as long as the key
  lives. EXPIRE comes after ZADD, so the TTL of an earlier holder can run out in between and take
  all tokens with it. More workers than the limit are then admitted, which is
  why the limit (`FreshWithinLimit`) and `FreshIsRecorded` except the tokens that
  vanished with the key (`dropped`). It may admit too few: two workers can each count the other's tentative token and both be
  rejected. That is not a violation of anything the code promises, so it
  is not a property.
* **Idempotency.** Apart from an overrun of `lock_ttl` there is exclusion. The release
  of a request that was overrun deletes the lock of the next, which is why
  exclusion is conditional on no overrun anywhere, and not just on none by the two
  requests concerned.
* **Events.** A record is lost only with the process that popped it.
* **Rate limiter.** The script is atomic, so the clocks are all there is to go wrong,
  and their error shortens the window by `Lag + Lead` and does nothing worse. The TTL
  starts with Redis's clock while scores are the clients': it still never ends early, nor late.
* **Subscription.** Every illegal history needs either two workers at once, a crash in the
  middle, or a `transition` into or out of `grace` that the `GraceHandler` does not know of.
* **Cache.** Waiting exactly `lock_ttl` is what makes the waiters outlive the
  lock that turned them away; one unit less and `FailsOpenLate` fails (the mutant `TurnedAwayShort`).
  An invalidation does not reach a value that is loaded and not yet stored.
* **Upload.** S3 arbitrates final states, so with its adapter a final status in the record was true
  when it was written, however stale its writer; but a late part write may take it back. The GCS adapter
  arbitrates nothing: there the status is what the last writer made it, and the two properties of it are stated for S3.
* **Budget.** The overspend does not accumulate: later charges see the excess and are blocked.
* **SimpleRateLimiter.** Nor does the overshoot: a request that is overtaken for a whole window still
  counts what came after it, because it trims by its own old clock.
* **CostTracker.** A bucket lives for two periods from its last record, so no TTL takes usage back; but
  the provider and an endpoint may put one call in different buckets.
* **Replicas.** Whatever the threads do to each other's marks, nobody skips a replica that is up.
* **Pages.** Insertions and deletions between pages disturb nothing; equal keys do, and are in no test.

### Bounds

Bounds are constants that a guard compares with a counter: `CrashLimit`,
`ResetLimit`, `FaultLimit`, `ExpiryLimit`, `LapseLimit`, `PushLimit`, `MaxTime`, `LastTime`, `MaxUpdates`,
`MaxEnds` (an extension of a grace period that has reached it just ends). Everything else is finite by
itself. Why these values are enough:

* Two callers are the least that race, and every race found (and every mutant) needs two.
  The third client of `circuit_shared` is a reader of the `state` property,
  which is enough to promote a circuit. The bulkhead has three workers
  because with one slot a holder, an admitted one and a rejected one can
  then be there at once.
* `FailureThreshold` 2 is the least with a state between armed and tripped; `CircuitSerial`
  has 3, so that a retry loop of `MaxRetries + 1 = 3` attempts can trip the circuit
  on its last attempt, or half way when failures were counted before.
* `RecoveryTicks` 1 in `circuit_shared` leaves the order of the timeout and the
  commands free, which is what matters there; the length of the timeout and the
  dropped fraction of a second matter in `CircuitSerial`, with 4 ticks of half a
  second.
* `MaxTime` 5 with a hold time of 2 lets a claim go stale, be trimmed, and the
  worker that follows go stale again.
* Three faults are enough to exhaust `MAX_RETRIES = 3`. With the redelivery
  and the expired mark all causes of a second run of the handlers occur.
* `rate_limit` has a window of 4 and timestamps that are wrong by up to 1 in either
  direction, so that shortened and lengthened windows are both non-empty and different; four
  calls are twice the limit, and the clock runs for two windows.
* `MaxEnds` 2 is one extension, which a stale write can take back; every pair of the
  operations can interleave.
* `LockTTL` 2 lets a lock run out before, during and after the load; two changes of the data let
  a late store be overtaken by the next change, and one of the three contents loads as None.
* `upload` needs two contents per part to tell a resent part from the old one. Its GCS part has no faults and no
  expiry: nothing is refused there, so final states do not end the run, and the states would multiply. What is checked of it is what
  the record has at complete(), which only workers that overtake each other disturb; the proofs have faults and expiry with both adapters.
* `circuit_trials` is the smallest instance with its counterexample.
* The budget's limits, 1 and 2 with charges of 2, make the bound on the overspend tight: both
  workers see 0 of 2 spent, and 4 are; the lower limit is never enough. The clock
  ends in the second period, where hosts a tick west of UTC count nothing yet; two pushes are two racing charges, or
  one and a late one. Monthly limits do not depend on the zone, so only the hosts in the east run them (`Zoned`).
* One lock or result of a payment runs out (`LapseLimit` counts both), which is either cause by itself.
* Five requests in two threads are twice the limit and one more; the clock runs for a window and a half, so
  that a request can be overtaken across the end of a window and lose its member to the TTL.
* Of the cost tracker's periods one divides the other, as days do weeks, and the clock passes two of the longer.
* Three clients of a payment are what the second release takes: one to release, one whose lock it is, one
  who takes it next.
* Two replicas and a cooldown of 2 with a clock to 2 let a mark be made, and be renewed or
  taken away while another thread recovers it.
* Four rows are two pages of two, with equal keys on either side of their boundary or across it.
* Four parts have a third full part, so that the damage of a short last part can be told from its place.
* Symmetry is used where the workers (calls, parts, contents) are alike and no
  liveness is checked: `bulkhead`, `rate_limit`, `upload`.
* The proofs have none of these bounds.

### Fairness

Liveness is checked under weak fairness of each process's own next step, and of time:

* breaker: live workers keep running, requests keep coming to each caller, the guarded
  call ends, time passes. Nobody has to read `state` and nobody has to call
  `reset()`. The dependency is not assumed to recover; `Recovers` starts when it has.
* idempotency: clients repeat a request that was turned away, handlers end, and
  the TTL of a lock runs out. The last is Redis's; without the first there is
  nobody to complete the request.
* cache: Redis answers, loaders end, and time passes. The waits then end by themselves, which is what
  `CallsEnd` shows.
* events: some process keeps running `process_batch` and `retry_failed`, which is how
  `docs/pay.md` says the processor is to be used, and handlers end.

No fairness is assumed of crashes, faults, expiries of marks, or deliveries.
The ten models of `components` state no fairness, and only safety is checked of them: what must
eventually happen in them is that a loop over a bound ends. The runs of the events and `components` disable the
deadlock check: when the provider sends nothing more and the lists are empty, when all requests have been answered or all
pages read, the system rests, and is meant to. No other run does.

## Proofs

TLC's results hold for the instances above. The theorems hold for every value of the
constants that satisfies the `ASSUME` of the module: any number of clients,
tokens, requests, processes, any thresholds and limits. The assumptions only say
that limits, periods and clocks are natural numbers (positive where the code needs them to be),
that the kinds of request are disjoint, that a mark such as `NoPayer` is no client, and, where a bound counts them,
that workers, rows and amounts are finitely many. `Components` states those of its nine; two of them are
worth a word. Charges are positive, since a refund would let a limit be exceeded by the order in which the list is
summed. And a cooldown is positive: with 0 a mark is over as soon as it is made.

Every safety property of every passing run is proved, the two refinements among them.

**CircuitBreakerProofs** (`TypeCorrect`, `HalfOpenNotStuck`,
`ClosedStaysArmed`). None of these is inductive. The invariant adds, first, that a
client's next command belongs to its operation. Second, who is going to repair a state in transition: a half-open circuit with
no trial left has a client that either holds a trial (and will record its
outcome), or is about to zero the counter, or is about to write a new state; a closed circuit
at its threshold has a client that is about to zero the failures or to trip
it. The properties about a circuit at rest follow, because at rest there is no such
client; a killed client is the one way to lose it, which is why they say "unless a client was
killed".

`SerialRefinement` proves that the breaker of a worker that has it to itself, with no monitor, no crash and no `reset()`
(`Alone`), implements `BreakerProtocol`. `SerialInv` says that what a command goes by is still so
(`HeldInv`: nobody else writes the state between the read and the write), that the streak is the `failures` key except while a
success is on its way to zero that key or the last failure on its way to trip (`RowInv`), and that `opened_at` is ahead
of the opening by less than a second (`AgeInv`), which is where `Wait` loses that second. Each command is then one
step or none: `IncrFailures` is `Fail`, `SetOpen` is `Trip`, `SetClosed` and a call that returns to a closed circuit are
`Succeed`, `SetHalfOpen` is `Probe`.

**ConcurrencyLimiterProofs** (`TypeCorrect`, `FreshRecorded`, `LimitHolds`, `CrashedHolderFreed`,
`Refinement`). The invariant says where each token is while its `acquire` is at each
command, that scores are never in the future, that the deadline is never past, and that
the recorded holders are at most `MaxConcurrent`. The limit is kept because a worker is admitted only when
the whole set, which contains the recorded holders and the worker itself, is within it.
`FreshIsRecorded` holds because a trim uses a clock read earlier, so that
what it removes is past the hold time now. The refinement is proved step by step:
`Count` that admits is `Take`, everything else is `Vacate` or a stutter.

**EventProcessorProofs** (`VerdictHolds`, `TypeCorrect`, `DedupHolds`, `OnePlaceHolds`, `ExhaustedHolds`, `MetricsHold`). The
first invariant, `EventInv`, says that a `seen` mark that stands,
or that a process is about to set, belongs to an event whose handlers have all
returned, and that this is never undone. The second, `WholeInv`, has three more parts. `PlaceInv`: a
delivery that was sent is in one place, any other in none; each step takes one delivery from
one place to another, and what the two lists do is in two lemmas (`AppendedList`, `PoppedList`). `AttemptInv` uses it: the
record a pop adds an attempt to is nowhere else, so no list or dead letter changes under it. `DedupInv`: an
event without an excuse is handled by one process at a time, begins when its handlers have not run, and once they have
it is marked or about to be. Each part has one lemma for `process()` and one for the queues. `MetricsHold` needs a third,
`MetricsInv`: a counter is what it should be less the processes that are about to increment it (`Due`), of
which there are finitely many, and a record between the lists is in the hands of a process that is requeueing.

**RateLimiterProofs** (`TypeCorrect`, `RateLimited`, `RefusalsJustified`, `KeyOutlives`). The invariant
bounds the score of each admitted call by when it was admitted (`StampInv`: within `Lag` and `Lead`), says
that the recent calls, but for overwritten ones, are still in the set (`RecentInv`), and that the set holds at
most `MaxRequests` (`CapInv`). A trim at timestamp `t` keeps what is younger than `Window` by its
score, hence all that is younger than `Window - Lag - Lead` by Redis's clock; `WindowBound` is the
cardinality of a subset. `KeyOutlivesWindow` is inductive and part of the invariant: an admission sets the deadline
one window after itself, later than that of any call before it, and nothing else moves it.

**SubscriptionProofs** (`TypeCorrect`, `Enforced`, `Kept`, `RecordsAgree`). `SubInv` says that the
copy of a worker that is not stale equals what is stored, with a transition that is still valid. The two action
properties follow step by step. `RecordsAgree` needs a second invariant, `BooksInv`: while nothing irregular has
happened at most one worker is busy, and where it is in its operation says how far
the records have come apart.

**CacheProofs** (`TypeCorrect`, `OneFlight`, `OutwaitsLock`, `CacheFresh`). `HolderInv`: while no
lock ran out under its caller, whoever is at a locked step is the holder. `WaitInv`: a caller turned away has at least as long to
wait as the lock has to live; both count down together, so it cannot reach the end first.
`LateInv`: between changes, whoever holds old content is known to be late; `FreshUnlessLate` is inductive with it.

**ChunkedUploadProofs** (`TypeCorrect`, `FinalTrue`, `FinalKept`, `ObjectWhole`). `SeenInv`: who is not stale
has read what is stored. `SentInv`: with S3, who is about to write a final status has the service's
agreement, and who is not stale overwrites nothing final, since the service was open when it answered. `AckInv`, with either adapter:
before the first stale write the record has everything that was acknowledged.

**ComponentsProofs**, `Idempotency` (`TypeCorrect`, `ExclusionHolds`, `LocksAccounted`). The key of the
induction is `HolderInv`: while no lock has run out under its request, whoever works holds
the lock. Exclusion is then the fact that the lock has one holder; and the
unconditional DEL is harmless, since the one that issues it is the holder.
For `NoStrandedLock` the invariant records how a lock without a worker came
about.

The rest of **ComponentsProofs** has one section for each component of `Components`:

* `Budget` (`Overspend`). Two amounts are bounded at once. `RaceInv`: in each period the charges that may still enter
  the list, each having found room for itself, include one, the last to have summed the list, that leaves room for
  a greatest charge of every other. `BehindInv`: what was pushed into the period with an earlier stamp, with what is
  still to come of that kind, is a charge for each worker; a worker is there once, because its next charge
  is stamped in this period. Each action has a lemma that says what it does to both. The totals are sums over a set of
  time stamps that the model computes by a fold. The folds' theorems take operators, which the provers cannot
  instantiate, so `SumExists` and `TotalIsSum` derive from the definition that the total of a finite set is the value
  of a recursive function, by induction on the number of stamps, and `TotalMore` that a charge adds to the totals it is in.
* `SimpleRateLimiter` (`Overshoot`). `PlacesInv`: the members of the set and the requests on their way to add one are
  never more than `MaxRequests + Threads - 1` together, for one of them was let on by a count below the limit, and
  the others under way are other threads. `KeyInv`: a member that counts is in the set as long as the
  key lives, and the requests whose key ran out first are in `lost`.
* `CostTracker` (`UsageCurrent`). `NamesInv`: the keys of a record are named in the order of time, each for the bucket of
  its moment. `TalliedInv`: the counter of a bucket that is not past is the number of finished records that named it,
  and its TTL does not end before the bucket has.
* `PaymentKeys` (`OnePayment`). `PayerInv`: who pays or has yet to store the result holds the lock, unless it was overrun
  or released twice. `PaidInv`: without an excuse, the expiry of the result being one, whoever has paid is about to store, or has, and then nobody pays.
* `RetryDemo` (`DemoTrue`). `AloneInv`: for a request that ran alone the global count is its own attempt.
* `ReplicaRouter` (`RoutedByHealth`). `MarkInv`: a mark is the time of the replica's last failure, and a replica
  without one is `pardoned` (somebody took its mark away) or failed a cooldown ago at the latest. `StaleInv`: what a thread is going to
  delete had cooled when it looked, or the mark is a newer one.
* `KeysetPaginator` (`RowsOnce`). Only rows up to the cursor have been yielded, and `EachRowOnce` is inductive with it.
* `CaptionJob` (`PolledFetched`). `ResultInv`: every copy of the record that says completed has a result.
  `CompletedInv`: a worker that completed the job has no more to report, so that it takes a second one to take it back.
* `GCSAdapter` (`PartsPlaced`). `PartsInPlace` is inductive; the proof is that parts of one length do not overlap (`Disjoint`).

Only model-checked: liveness (`Recovers`, `EventuallyStored`, `Settles`, `CallsEnd`), which is out of the prover's
reach, as is the ENABLED in their fairness. The types of the modules that have proofs are proved, and no run
checks them again. The findings are counterexamples and need no proof.

## Inventory

For each component: its state, its operations, how it meets the others, what is hard,
and what makes it correct. The hazards, with their lines and the properties that
cover them, are listed in `PROJECT.json`.

| component | state | operations | correct means |
|---|---|---|---|
| `kit_api/circuit_breaker.py` | 4 keys | `state`, `allow_request`, `record_success`, `record_failure`, `reset`, decorator | see above |
| `kit_api/adapters/celery_adapter.py`, `retry_engine.py` | the attempt number | `kit_task`, `execute`, `execute_async` | retries stop, outcomes are recorded, the breaker is asked first |
| `kit_api/idempotency.py`, `middleware/` | response key, lock key | `check`, `acquire_lock`, `store`, `release_lock` | one execution at a time, the first response replayed |
| `kit_api/rate_limiter.py`, `SimpleRateLimiter` of the example app | a sorted set of timestamps | `acquire` (Lua; four commands), `remaining`, `reset` | at most `max_requests` in any window; every admitted call recorded |
| `kit_pay/budget_enforcer.py`, `kit_api/cost_tracker.py` | lists of charges, limits; counters by bucket | `set_limit`, `record_charge`, `check_limit`, `get_history`; `record`, `get_usage`, `get_endpoint_usage`, `set_budget`, `check_budget` | the limit is exceeded by races only; usage is that of the present period |
| `kit_data/concurrency.py` | sorted set with a TTL | `acquire`, `release`, `slot`, `in_flight` | see above |
| `kit_data/cache.py` | value and lock keys | `get`, `set`, `get_or_set`, `delete` | one loader at a time, waiters get its value, nobody waits for ever |
| `kit_data/replica_router.py` | a mark per replica, in process | `healthy`, `mark_down`, `mark_up`, `route`, `run` | replicas are used and avoided by their marks, and come back after the cooldown |
| `kit_data/counter.py` | one key or hash | `incr`, `get`, `reset`, ... | one Redis command each |
| `kit_data/pagination.py`, `batch_loader.py` | none; a cache per request | `paginate`; `load`, `load_many` | every row once; every key loaded once |
| `kit_pay/webhook_receiver.py`, `event_processor.py` | marks, 3 lists, 5 counters | see above | see above |
| `kit_pay/idempotency_key.py` | result key, lock key | `acquire_lock`, `mark_completed`, `release_lock`, `get_result` | one payment for one key |
| `kit_pay/plan_state.py`, `grace_handler.py` | a plan record, a grace record | `transition`; `start_grace`, `extend_grace`, `end_grace`, `check_grace`, `due_reminders`, `mark_reminder_sent` | only permitted transitions; in GRACE if and only if there is a grace record |
| `kit_media/chunked_upload.py` with the storage adapters | an upload record | `create`, `upload_part`, `complete`, `abort`, `resume` | no acknowledged part is lost; a completed or aborted upload stays so |
| `kit_media/caption_job.py` | a job record | `submit`, `update_status`, `poll`, `get_result` | a finished job stays finished |
| `kit_media/cdn_router.py`, `presigned_url.py`, `processor.py` | none | weighted choice, signing, HTTP | the choice covers the weights |
| `kit_core`, `kit_api/adapters/redis_adapter.py`, payment adapters | connections, configuration | connect, read, wrap | no logic of their own |

How they interact: through Redis keys, and by calls. The decorators and
middleware wrap a handler, and its exceptions pass through them. `kit_task` puts the breaker around a
retry engine. The webhook endpoint and the event processor both call
`WebhookReceiver.process`. `GraceHandler` calls `PlanStateManager.transition`. A loader of
`Cache` may be a `ReplicaRouter.run`. `ChunkedUploader` calls a storage adapter between
reading and writing its record.

What is hard, in general: every read-decide-write over Redis (all components), keys
whose TTL runs out while someone relies on them (locks, bulkhead, marks), the death of
a worker between two writes (breaker, grace, events), clocks that differ between hosts or are truncated
(rate limiter, breaker), and exceptions that leave a step of several undone (middleware,
events, grace).

### Not modelled

`kit-core`, the Redis admin helpers (`KEYS` and then `DEL`, for operators), the payment
adapters, the R2 adapter, presigned URLs, `MediaProcessor` and the URL code of `CDNRouter` keep no state or wrap one
library call; its weighted choice is a sum and a comparison. `Counter`'s operations are one command each.
`BatchLoader` belongs to one request and runs in one thread; what it returns is a function of what
it was asked, which its unit tests reach. HTTP, logging, configuration, the FastAPI and Django plumbing and the pages of
the example app have no logic of their own. Within the modelled components: the contents of responses and events,
wording of errors, metrics of the middleware, verification and parsing of webhooks (so that
two events that come without an id, which share one dedup key, are one event in the
model), the weights of replicas, the rounding of amounts, `CostTracker`'s budgets (one SET that only a report reads), and
the backoff delays of the retry engine, which only take time.

## Plan

Done: every component with an operation of more than one step over state that others see, and the proofs of all their
safety properties. What is left: `ReplicaRouter.run` as the loader of `Cache`, and the circuit breaker inside a loader, if the
application comes to combine them; nothing under `kit_*` or in the example app does.
