# Verification of grafana-oncall-mcp

TLA+ specifications of the MCP server for Grafana OnCall in this repository, their
TLC configurations, and TLAPS proofs. `src/...` names a file of the repository.

## The system

A process that answers MCP `tools/call` requests by calling the Grafana OnCall API.

| Part | Source | State it keeps | Operations | Modelled |
|---|---|---|---|---|
| Startup, configuration | `cmd/oncall-mcp/main.go`, `internal/config`, `internal/server/transport.go` | the configuration, how far `main` is | load, override, validate, build the client, register, serve, exit | partly |
| Plugin discovery | `internal/oncall/plugin.go` | two `probeResult`s, written by two goroutines | probe both plugins, wait, select, resolve the base URL | yes |
| OnCall HTTP client | `internal/oncall/client.go` | an `http.Client`, immutable | `get`, `post`, the four alert group writes, current users | yes |
| Read-only gate, registry | `internal/server/readonly.go`, `server.go`, `internal/tools/tools.go` | `ReadOnlyMode.Enabled`, the registered tools | `RegisterTool` | yes |
| Alert group write tools | `internal/tools/alert_groups_write.go` | none | check the arguments, POST, build the result | yes |
| List tools | `internal/tools/schedules.go`, `teams.go`, `users.go`, `alert_groups_read.go` | none; the cursor travels with the client | parse cursor, limit and filters, GET a page, map it | partly |
| Current on-call users | `internal/tools/users.go`, `client.go` | none | GET, and a second GET if the first is a 404 | yes |
| Shift and alert group reads | `schedules.go`, `alert_groups_read.go`, `internal/oncall/dtos.go` | none | GET and map fields | partly |
| Error envelope | `internal/oncall/errors.go`, `mapUpstreamError` | none | code, message, hint, retryable | yes |
| Retry helper | `internal/oncall/retry.go` | attempt, deadline | `DoWithRetry`; nothing calls it | partly |
| Observability | `internal/obs` | logger, tracer | set-up only | no |

`main` builds the configuration, then the client (which runs plugin discovery unless a
direct OnCall API is configured), then registers the tools through the read-only gate,
then serves. From there on mcp-go runs every request in a goroutine of its own. The
handlers share only the immutable client, so all interaction between calls goes through
the alert groups and lists in OnCall, which people change at the same time. When `Serve`
returns `main` does too: handlers that still run are not waited for.

What is hard: the handler of a write and its POST end independently (a timeout, a lost
response, the end of the process); several calls and people act on one alert group; the
two probes finish in any order, or not at all; a walk through a list is a sequence of
stateless calls over a list that changes; one call may make two requests, and read the
clock three times, while the world goes on; the flags, variables and probe results make
many startup paths.

What makes each part correct:

* writes: an answer says what really happened to the alert group, no write happens
  twice, a rejected call has no effect, read-only mode never writes, calls are answered;
  a silence ends when it was asked to, within bounds;
* discovery and startup: the selection depends on the probe results and not on their
  order, never changes, matches the precedence table; the process serves only what was
  configured and found; startup ends;
* list tools: a walk goes forward, delivers in order, ends, and ends at the end; the
  answers match the filter;
* current on-call users: an answer was true at one moment of the call, and a failure is
  never taken for an empty rota;
* retries: bounded in number and time, ever rarer, and the last failure is reported.

## Modules

| Module | Models |
|---|---|
| `WriteContract` | abstract: what a client may conclude from the answer to a write |
| `BoundedRequest` | abstract: what a helper that repeats a request promises |
| `ToolRegistry` | the tool names and the read-only gate |
| `ErrorEnvelope` | `mapUpstreamError` and which codes are retryable |
| `AlertGroupWrites` | the write tools, `Client.post`, the timeout, and OnCall around them |
| `PluginSelection` | `SelectAndResolve` and its two goroutines |
| `Startup` | `main`, which extends `PluginSelection` and `ToolRegistry` |
| `Server` | the process: `Startup` and `AlertGroupWrites` composed, its end and restart |
| `Pagination` | a client's walk through one of the four list tools |
| `CurrentOnCall` | `get_current_oncall_users` and its two requests |
| `SilenceClock` | the times of one silence |
| `AlertGroupReads` | the filters of `list_alert_groups`, and `get_alert_group` |
| `Retry` | `DoWithRetry` against a clock |
| `MC...` | instances for TLC (`Startup`, `Retry` and `SilenceClock` need none) |
| `..._proofs` | theorems about the module they are named for and the modules it extends or implements |

`AlertGroupWrites` and `Server` implement `WriteContract`; `Retry` implements
`BoundedRequest`.

Definitions named `Mutant...` are faulty variants of the definition that follows them
(a forgotten timeout, a name missing from a list, a retry loop). No specification uses
them; each property is checked to fail when one of them takes the place of the original.

### AlertGroupWrites

`phase[c]` is where the handler of call `c` is, `wire[c]` where its POST is, `state` the
alert groups in OnCall. `effects[c]` counts how often OnCall carried the write out and
`move[c]` records what it changed; the code cannot see these two, the properties need
them. `Post`, `Respond`, `TransportError` and `Timeout` are the steps of `performWrite2`
and `performWrite3`; `RejectTool` is mcp-go's answer for a tool that `RegisterTool`
skipped. The handlers drop the request's context (`_ context.Context`,
`context.Background()`), so a client that cancels changes nothing in the model.

`http.Client.Do` returns an error only without a response. The `switch` on the status
inside `if err != nil` is therefore never entered, and every response, whatever its
status, is a `WriteResult` whose `was_already_in_state` is `status == 200 || status ==
201`. The model does what the code does. It follows that the flag means "carried out".

OnCall is external: `Sources` and `Target` are the transition table of
`specs/001-oncall-mcp-server/data-model.md` (its `firing` is the API's `new`), with
refusals in every state allowed on top. Assumed of it: a status in `AcceptCodes` is given
to a write that was carried out only, and no redirects.

### PluginSelection and Startup

A goroutine is `out` until it stores its `probeResult`, `wrote` until it calls `wg.Done`,
then `done`. Grafana hosts any subset of the plugins and any probe may fail. `main` names
the step `main()` is at. `Settings` lists one value for each branch the code takes on an
environment variable or flag: `https` stands for every URL `validateURL` accepts, `http`
for one it does not; ` IRM ` has to be trimmed and lowered. `--read-only` is absent, true
or false. A URL is a record of what `irmBaseURL` looks at. The API library may refuse the
URL of direct mode (`aapi.New`) and one taken from the IRM settings
(`aapi.NewWithGrafanaURL`); which ones it refuses is external and left open.

### Server

`Start == INSTANCE Startup` and `Write == INSTANCE AlertGroupWrites WITH readOnly <-
readOnly` share two variables: `readOnly`, which `main` sets, and `registered`, which
decides whether a call reaches a handler. `Process`, `Handle`, `Meet` and `Upstream` are
the steps of both, each allowed when the process is in a state for it; OnCall and the
people in it go on when it is not. The process may end at any time while it serves. A
call in flight then stays where it is: its POST may still be carried out, its handler
makes no further step, and its client learns of the closed connection (`GiveUp`).
`Restart` puts everything in memory back and leaves OnCall, the requests under way and
the settings as they are; nothing is persisted, so nothing else is recovered.

### Pagination

The cursor is `strconv.Quote` of OnCall's `next` URL; the model keeps the page number in
it. `Ask` is a handler up to its request, `AnswerPage`, `AnswerNotFound` and
`AnswerError` the rest of it. The client starts with no cursor or one the server did not
make, follows `next_cursor`, and repeats a call whose error is `retryable`
(`ErrorEnvelope`). Others insert at the front and delete anywhere. External: OnCall
numbers its pages from 1 and answers 404 past the last.

### AlertGroupReads

What `Pagination` leaves out of `list_alert_groups`: the state filter, the time range,
which of both a later call of a walk sends, and the summary built of each group. A page
is any subset of what matches the options sent. `Arguments` is the code's choice: of the
cursor only the page counts, so the filter of a later call is what the client repeats.
`StartedAt` completes a range with one bound from the clock of the call. It drops the
offset of an RFC 3339 time and the fraction of its second (`Whole`; a second is `Second`
ticks), as `Format("2006-01-02T15:04:05")` does. Alert groups start at any tick, are
acknowledged, resolved and reopened meanwhile, and may lose a timestamp on the way.
`GetAlertGroup` takes one of them, or refuses a call without an id.

### CurrentOnCall

`schedule` is the rota in OnCall or `Gone`; `reply` a response with the rota it was made
from, so a response describes the moment OnCall served it and not the one it arrives.
The first request may find the endpoint missing. Whatever goes wrong with the second,
the code returns the first one's error: `FallbackRefused` and `FallbackFails` answer
`NOT_FOUND`. `EffectiveTimeout` is the one of the handlers' `http.Client`, which sends the
first request only; `FirstTimesOut` is its timer, which does not run if it is negative.
`seen` and `received` are history for the properties.

### SilenceClock

The handler reads the clock when it checks `until` (`AcceptUntil`), when it computes
`delay` (`Post`) and when it builds `silenced_until` (`Answer`); OnCall counts the delay
from its own moment (`Silence`). A second is `Second` ticks, so that cutting to whole
seconds is visible. `Until` is `time.Until`, which saturates: an end more than the
longest `Duration` away (`DurationMax`, 292 years) gives that one. `Seconds()` as a float
rounds by less than a microsecond, which the model ignores. A handler that can go on is
kept waiting for at most `Lag` ticks.
The clocks of both sides are taken to agree.

### Retry

The loop of `DoWithRetry` with the two selects as choices: when the timer and the
context are both ready either is taken. `Backoff(n)` is the set of delays the jitter and
the cap allow. The conversion of a float beyond `DurationMax` gives the smallest int64 on
the usual platforms, a negative delay that is over at once: then 0 is among the delays.
`FnReturns` is any outcome of the request, `FnGivesUp` the one of a done context.

## Runs

| Run | Configuration | Shows |
|---|---|---|
| `writes` | `MCAlertGroupWrites.cfg` | a flagged success took effect once; read-only never writes; at most once; invalid input has no effect; answers settle; every call is answered; `WriteContract` is implemented |
| `startup` | `MCStartup.cfg` | precedence table, what is served and registered, probes only under settings sound by themselves, the selection is final, startup ends |
| `server` | `MCServer.cfg` | read-only mode from the flag to the wire; calls are answered or given up; `WriteContract` across the end and restart of the process |
| `walk` | `MCPagination.cfg` | walks go forward, in order, end, and end at the end |
| `oncall` | `MCCurrentOnCall.cfg` | a result is one reading of the schedule; `NOT_FOUND` has a cause; the first request is bounded |
| `retry` | `MCRetry.cfg` | deadline, the error reported, backoff, `BoundedRequest` with its liveness |
| `silence` | `MCSilenceClock.cfg` | a silence is not cut short unless it has the longest delay, overruns by a bound, and its reported end is close |
| `reads` | `MCAlertGroupReads.cfg` | a repeated filter holds for every page, to the second of its lower bound; a range with an upper bound excludes nothing in it up to the last whole second; `updated_at` is the latest time shown |

Each of them checks the type invariant too, except `server`, whose parts have theirs in
`writes` and `startup`.

The other runs check one statement of the documentation each and end in a
counterexample:

| Run | Statement | What the code does |
|---|---|---|
| `writes_success` | an illegal transition is rejected with `STATE_TRANSITION_REJECTED` | it is answered with a `WriteResult` |
| `walk_skip` | the cursor is the upstream's `next`, forwarded | every second page is left out |
| `oncall_limit` | an upstream 429 is `UPSTREAM_RATE_LIMITED` | one met by the fallback is `NOT_FOUND` |
| `reads_cursor` | the cursor is the upstream's `next`, forwarded | the filters in it are dropped |

Disagreements that reading the code settles, without a run:

* `was_already_in_state` is documented as the state before the write; it is set on HTTP
  200 and 201, and the state before is never read.
* Every outbound call MUST have a timeout and be retried with backoff on 429 and 5xx
  (FR-041, `specs/001-oncall-mcp-server/spec.md:264`, `002-multi-plugin-support/spec.md:290`).
  A negative `GRAFANA_ONCALL_HTTP_TIMEOUT` turns the timeout off and the reads through the
  API library never had one. No handler repeats a request: `DoWithRetry` has no caller.
  For the writes that is what `AtMostOnce` rests on, since a repeated POST could be
  carried out twice; retries as FR-041 asks for would break it.
* The flag is said to win over the environment variable for read-only mode (`main.go:83`,
  `002-multi-plugin-support/research.md:99`, `data-model.md:90`). `main.go:74` ORs them:
  `--read-only=false` does not undo `GRAFANA_ONCALL_READ_ONLY=true`. `ReadOnlyIsHonoured`
  and `ReadOnlyToTheWire` say what both agree on: read-only mode is asked for by the flag,
  or by the variable when the flag is not given. They say nothing of that combination.
* A preference for a plugin that is not installed is documented as `INVALID_CONFIG`
  (`002-multi-plugin-support/spec.md:117` and `:174`, FR-006, `research.md:73`, and the
  comment at `plugin.go:178`). `selectPlugin` makes that code, but `main.go:151` exits with
  `STARTUP_HEALTH_CHECK_FAILED` whatever the discovery failed with. No property is about
  the exit code of a startup that fails after the probes. With both plugins hosted, one
  failed probe of the legacy one selects IRM. `README.md:60` and `main.go:37` list `unset`
  as a value of the preference, which `ParsePluginPreference` rejects.
* A silence lasts until `until` (`alert_groups_write.go:78`); one that is centuries away,
  `9999-12-31T23:59:59Z` say, is accepted and cut short to 292 years.
* `limit` is documented as the maximum number of items; it is parsed and bounds nothing.
  A cursor that does not decode is not rejected but served page 1.
* A `started_at` bound with an offset loses it: the properties of `AlertGroupReads` speak
  of bounds in UTC (`InUTC`). One with a fraction of a second loses that: `from` 12:00:00.9
  admits a group of 12:00:00.5, `to` 12:00:00.9 excludes it. The properties speak of whole
  seconds where that matters.
* A shift's `schedule_id` is filled with its team.
* `tests/e2e/mcp_client_test.go:51` expects the server to start while Grafana cannot be
  reached, when `main` exits.

### Bounds

* `writes`: two calls on one group. A property speaks of one call, or of one call while
  another and other people change its group. One status of each class (accepted, refused,
  failed) is enough since the code only asks whether a status is 200 or 201.
* `startup`: no bound; two probes and finitely many settings.
* `server`: two calls on one group and one restart, so that a POST of the first process
  meets a call in the second. Since `startup` covers every setting, `SomeSettings` keeps
  complete and incomplete ones of both modes, each way to ask for read-only mode, and
  one hosted plugin; one call acknowledges, the other reopens the group or silences it
  until a time past.
* `walk`: pages of two items, at most seven items at first and two changes, so there are
  walks over no, full and half pages that the list overtakes. `walk_skip` needs no
  changes. Limits below, at and above the page size and both caps.
* `oncall`: two changes of the schedule, one before and one after the first response;
  rotas with no, one and two users, with entries that lack the id or the end.
* `retry`: four retries with backoffs of 2 or 3, 4 or 5 and 5 ticks (the cap) and one
  that overflows; the deadline of 18 ticks falls into each of them.
* `silence`: three ticks a second and a timeout of four, so that every remainder occurs
  and a response may take longer than a second; the clock runs for more than three timeouts.
  The longest duration is eight ticks, no whole number of seconds, and `until` is up to 14
  away: both sides of the saturation occur.
* `reads`: one group; seconds of two ticks, so that bounds and starts lie on and between
  whole seconds; the clock runs three ticks past its start with a day of one, so that a
  range completed from the clock moves past the group's start; two calls, since the second
  is the one that differs.
* `writes`, `server` and `oncall` have an `HTTPTimeout` of 0, the value that has to be
  replaced; any positive one behaves like its replacement, and a negative one turns the
  timer off.

`CHECK_DEADLOCK FALSE` is set where calls can all be answered, a walk be over, the
process be ended for good, or a clock be at its bound.

### Fairness

* `AlertGroupWrites!FairSpec`: weak fairness of each handler, including `Timeout` when it
  is armed: the Go scheduler runs goroutines and `http.Client` fires its timer. Nothing
  is assumed of OnCall, the network or clients.
* `Startup!FairSpec`: weak fairness of `main`, the selection and each goroutine, which
  `pluginProbeTimeout` ends. Nothing is assumed of Grafana.
* `Server!FairSpec`: the handlers as above while the process serves, and each client
  notices a closed connection. Nothing is assumed of when the process ends.
* `Pagination!FairSpec`: the handler runs and the client goes on, both weakly fair; OnCall
  answers a request that is repeated again and again (strong fairness), so `WalkEnds`
  is about a persistent client and an upstream that is not down for ever.
* `CurrentOnCall!FairSpec`: the handler runs and the first request's timer, if there is one, fires. Nothing
  is assumed of OnCall or of the API library's client, which has no timeout; so the
  property ends where the fallback begins.
* `Retry!FairSpec`: the loop runs, time passes, and `fn` returns when its context is done.

## Proofs

All theorems hold for every value of the constants (calls, groups, items, rotas, changes,
restarts, page sizes, status codes, retry configurations, lengths of time) that satisfies
the named assumptions of the modules.

* `AlertGroupWrites_proofs`: type correctness, `FlaggedSuccessTookEffect`,
  `ReadOnlyNeverWrites`, `AtMostOnce`, `InvalidInputHasNoEffect`, the action property
  `AnswersSettle`, and `ImplementsContract`. None of these is inductive. `IInv` adds, for
  each call, what ties its POST to its effect (`WireInv`: no POST, or one still out, has
  had no effect; an accepted status on one that came back means one effect that left the
  group in the tool's target state; a POST means that the gate let the tool through) and
  its answer to its POST (`AnswerInv`: a rejected call has no POST; a `WriteResult` is the
  one built from the status of a POST that came back). Each action changes one call, and
  `Untouched` carries the others over. The refinement follows from `IInv`, one lemma per
  way a step changes `view`.
  The contract itself keeps `Promise` (`PromiseKept`): confirmed means carried out once,
  refused means never. Both together give `WritesKeepPromise`.
* `Server_proofs`: `ReadOnlyToTheWire` and `ImplementsContract` of the process. `GateInv`
  follows read-only mode along the way: once the settings are loaded the gate is closed,
  so no write tool is registered, so no call is posted. The second theorem uses the
  handlers' invariant and refinement through `INSTANCE AlertGroupWrites_proofs`, whose
  assumptions are `Server`'s own. While `readOnly` stands still, a step of the process is
  one of theirs or none. `main` and a restart change it, and the handlers' invariant
  forbids a POST under a closed gate: `GateIsAskedFor` (the gate is closed only if the
  settings ask for it) and `GateInv` together say that nothing was posted that it forbids.
  A restart and the end of the process stutter, and giving a call up maps it to
  `unconfirmed`, which the contract allows.

  The same invariant carries the handlers' other properties over to all processes:
  `PromiseKept`, `AnswersStayHonest` (flagged successes, single effects, clean rejections)
  and `AnswersStaySettled`. `StartupStaysSound` does it for the other component: through
  `INSTANCE Startup_proofs` the invariant of the startup holds in every process, because
  a step of `main` is one of `Startup`'s and `Restart` leads to one of `Startup`'s initial
  states. `SelectionOfProcess` is `SelectionIsFinal` but for a restart. (An instance with
  proofs and the one in `Server` are different names to the prover: `SameActions`,
  `SameMainSteps` and `SameDiscoverySteps` say that their actions are the same.)
* `Startup_proofs`: type correctness and all safety properties of `startup`. `IInv` adds
  what the probes have done by each state of the discovery (`ProbeInv`), that the
  selection is in the precedence table (`ChoiceInv`), and what `main` has checked and
  built by each of its steps (`MainInv`, `ClientInv`). So `ServesOnlyWhatWasFound` speaks of
  `serving` but rests on checks made four steps before, and `ProbesAreConfigured` on what
  was checked before the first probe went out.
* `Pagination_proofs`: type correctness, `WalkAdvances`, `QuietWalkInOrder` and
  `EndsWithTheLastItem`. `AdvanceInv` adds that the page a held cursor leads to, or that is
  being asked for, lies beyond all pages served. `WalkInv` adds which page that is (after
  `n` pages of an undisturbed walk the cursor names page `2n`) and that everything
  delivered lies before it, which makes the items of the next page later ones.
  `ServesOddPages` and `LongListNeverDelivered` (invariant `SkipInv`) say for all lists and
  page sizes what `walk_skip` shows on one: pages 1, 3, 5 ... are served and no others, so
  a list of more than one page that nobody changes is never delivered in full.
* `CurrentOnCall_proofs`: type correctness, `ResultIsOneReading` and `NotFoundHasACause`.
  `ReadingInv` adds that the schedule as it is, and the rota a response was made from, have
  been seen during the call, and that a 404 had a cause when it was given. The type of an
  answer needs that the loop over the rota (`Listed`) gives a sequence of users for every
  rota: an induction over its rounds (`LoopHasRounds`).
* `Retry_proofs`: type correctness, `DoneByDeadline`, `LastFailureReported`, the action
  property `AttemptsBackOff`, and the safety part of `ImplementsBoundedRequest`, a negative
  `MaxRetries` included. `AttemptInv` ties the loop variable to the calls made; `ErrorInv`
  ties `lastErr` to the last failure at the loop's head; `WaitInv` ties the end of a
  backoff to that failure's time. `BackoffBounds` says how long a backoff is at least, for
  which `Power`, a recursive function, is shown to satisfy its equation (`PowerEquation`).
* `SilenceClock_proofs`: type correctness and the three bounds, for every longest duration
  of a second or more. `DelayInv` and `DeadlineInv` keep, at each step, how far now plus the
  delay may lie from `until` (or that the delay is the longest), and how long ago the delay
  was computed.
* `AlertGroupReads_proofs`: type correctness, `RepeatedFilterHolds`,
  `RangeExcludesNothing` and `UpdatedAtIsLatest`, for any set of alert groups and any
  length of a second and of a day. `WholeBounds` says what dropping the fraction of a
  second may change. `SentInv` says what a repeated filter makes of the request on every page
  of a walk, whatever the cursor; `TimesInv` that no group has a time in the future or was
  resolved before it was created; `WalkInv` that an answer has a request.

Two of these proofs need an induction over the naturals. The library states induction for
an operator, which the provers cannot instantiate; `SetInduction` states it for a set, and
follows from the least element of the set's complement (`WFMin`,
`NatLessThanWellFounded`). For the same reason `Power` is a recursive function and
`Listed` is written as the loop of the code, a function of the rounds done.

Every invariant and every action property that a passing run checks is thus a theorem.
Only model-checked is liveness: `EveryCallAnswered`, `CallsEnd`, `StartupEnds`, `WalkEnds`,
`FirstRequestBounded`, and the fairness part of `ImplementsBoundedRequest` rest on fairness
and `ENABLED`, which the prover does not handle. Of the statements that the other runs
refute, `LongListNeverDelivered` generalises one; the rest stay single counterexamples.

## Not modelled

* Message texts, hints and identifiers, and fields copied one by one; `get_oncall_shift`
  does nothing else.
* The team, username, label and search filters, which are handed to OnCall as they are.
* `ParseRetryAfter`, a conversion without state that nothing calls. `DoWithRetry` has no
  caller either at this commit; `Retry` models it for the one it is meant for.
* Observability: logging and tracing are set up and change nothing the tools depend on;
  the metrics listener and the slow-request middleware only observe.
* `-version`, and what the `sse` and `streamable-http` servers do once they serve.
* Redirects, and retries inside the client library of the reads, are outside the models.

## Plan

Done, in this order: `WriteContract`, `ToolRegistry`, `AlertGroupWrites` and its proofs;
`PluginSelection`, `Startup`; `Pagination`; `ErrorEnvelope`, `CurrentOnCall`; `Retry` with
`BoundedRequest`; `SilenceClock`; `AlertGroupReads`; `Server`; the proofs of `Startup`,
`Pagination`, `CurrentOnCall`, `Retry`, `SilenceClock` and `Server`; the proofs of
`AlertGroupReads`, of the type invariants and of the properties of both components across
restarts.

Left:

1. `Server` with a supervisor that restarts it for ever, and with several clients of the
   `sse` and `streamable-http` transports.
2. `AlertGroupReads` over the pages of `Pagination`, when the cursor carries the filters.
