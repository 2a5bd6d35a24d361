# Verification of the SGraph AI service

TLA+ specifications of the parts of this repository that have a protocol of their
own, checked with TLC and, where stated, proved with TLAPS:

- the **Playwright service** (`src/sg_compute_specs/playwright/core`), a FastAPI
  process that drives Chromium through Playwright's synchronous API. One-shot requests
  launch a browser, run a list of steps and kill it; a *held session* keeps a browser
  alive between requests, on a thread of its own, until it is closed or its time to live
  runs out. A watchdog ends the process when a request hangs;
- the **edge fleet reconciler** (`src/sg_compute_specs/sg_edge`), Lambdas that keep a
  fleet of proxies whose membership is one DNS record;
- the **vault-publish waker** (`src/sg_compute_specs/vault_publish`), two Lambdas that
  start a sleeping instance for a visitor, each with a cache of its own;
- the **stack provisioners** (VPC in `src/sgraph_ai_service_playwright__cli/aws/ec2`,
  ALB in `src/sgraph_ai_service_playwright__cli/aws/alb/service`), command lines that
  build AWS resources in order, roll back, and take them down;
- the **LETS pipeline** (`src/sgraph_ai_service_playwright__cli/elastic/lets/cf`),
  command lines that load CloudFront's logs from S3 into Elastic, by day or by file.

The repository holds much more (compute specs for other services, AWS clients,
CLIs, user interfaces); the inventory says what, and why it is left out.

## Inventory

Paths are relative to `src/sg_compute_specs/playwright/core/service/` unless they
begin with `src/`.

| Component | State | Operations | Talks to | Hard because | Correct means | Status |
|---|---|---|---|---|---|---|
| Session worker `Session__Worker.py` | inbox queue, `_stopped`, `_setup_done`, `_setup_error`, thread, launch state | `start`, `submit`, `stop`, `_run` | request threads (futures), browser launcher (closures of `open`) | three unlocked flags and a queue shared by any number of threads; two timeouts that are silently ignored | no call lost or run twice; calls only on a live browser; browser released by a stop | modelled, proved |
| Session registry `Session__Registry.py` and `session_*` of `Playwright__Service.py` | dictionary of sessions, expiry stamps | `open`, `get`, `close`, `sweep_expired`; act, probe | worker; every endpoint sweeps through `setup()` | no lock; every request may close somebody else's session; check-then-act on expiry | listed sessions usable; no browser orphaned; each closed by one; requests return | modelled, proved |
| Desktop browser manager `Desktop__Browser__Manager.py` | none | `open_browser`: session_open, then session_act | registry | the second call fails, or the session is swept in between | no session left that nobody closes | modelled, proved (with the registry) |
| Browser launcher `Browser__Launcher.py` | table of live browsers | `launch`, `register`, `stop` | Playwright, OS processes | partial failure of a launch | nothing registered is left behind | partly |
| Sequence runner `Sequence__Runner.py`, `_run_sequence_via` | step results, `halted`, deadline | `execute`, `execute_on_held_page` | launcher, credentials loader, step executor | exceptions at every place, deadline at any moment, a handler that starts the run over | browser stopped on every path; one result per step; nothing after a halt; no step twice | modelled, proved |
| Probe executor `probe/Probe__Executor.py` | none | `execute`, `execute_on_held_page` | sequence runner | results cut by offsets | each result under its own step's name | modelled, proved |
| Request watchdog `Request__Watchdog.py`, middleware | requests in flight, thread | `register`, `unregister`, `check_once`, `kill` | the process itself | reads the clock, the map and the decision apart; ends the process | kills for cause, and in time | modelled, proved |
| Screenshot and one-shot endpoints (`Playwright__Service.py`) | none | build a sequence, read its response | sequence runner | captures paired with results by position | each capture in its own place, or an error | modelled, proved |
| Credentials, validator | none | `apply`, `validate_*` | sequence runner | may raise anywhere | | as exceptions of the runner |
| Edge fleet reconciler `src/sg_compute_specs/sg_edge/service` | an A record (the fleet), a TXT record (the idle streak), EC2 | `ensure_booting`, `reconcile`, `idle_check` | Route 53, EC2 | every invocation reads, decides and writes the whole record back; nothing is locked | the record is the fleet; torn down when due; follows the traffic | modelled, proved |
| Vault-publish waker `src/sg_compute_specs/vault_publish` | an instance, two caches, the visitor's page | waker and admin handlers, `register`, `unpublish`, stop | EC2, the vault | caches of two Lambdas against an instance that stops, goes and gets new addresses | an asked-for vault comes up; no stale or false answer | partly, proved |
| VPC and ALB provisioners | AWS resources, `created_now`, report | `create_stack`, rollback, `delete_stack` | EC2, ELBv2 | partial failure, answers lost, interrupts, AWS's order of removal | what is reported is so; a failed run undoes itself; a repeated one succeeds | modelled, proved |
| LETS pipeline `src/sgraph_ai_service_playwright__cli/elastic/lets/cf` | the inventory's flags, the events' indices, one events file and one manifest per day on S3 | inventory load, events load, consolidation, consolidated load, sync, two wipes | Elastic, S3 | commands overlap and die; a bulk request may be refused in part, an upload may fail unnoticed | a marked file is indexed; a load without error has loaded; inventory and S3 agree | partly |
| Listeners buffer, network-idle wait | event lists, in-flight set | callbacks, poll | Playwright events | caps, re-used `id()`s | | not modelled |
| Step executor, artefact writer, capability detector | none | a verb, a file, a probe of the environment | Playwright, S3, disk | I/O | | not planned: a step is a choice of outcome |
| Other specs, AWS clients, CLIs, TUIs, JavaScript | | | | | | not planned: thin wrappers or user interface |

Interactions. A request enters the Playwright service through the middleware (watchdog),
calls a method of `Playwright__Service`, which sweeps the registry in `setup()`, and then
either gets a session and submits `execute_on_held_page` to its worker, or runs
`Sequence__Runner.execute` in its own or a pool thread. Workers and the runner share
the launcher's table. Request threads share the registry's dictionary and the
workers' queues; nothing else is shared. The fleet's Lambdas meet only in two DNS
records and in EC2. The waker's two Lambdas meet only in EC2 and in the page of the
visitor, whom one sends to the other. A provisioner runs alone; its histories are long
because each run meets what earlier ones left. The commands of the LETS pipeline meet in the
inventory, the indices and S3, and keep nothing between runs.

## Modules

| Module | Models | Level |
|---|---|---|
| `HeldSession` | what a held session promises | abstract |
| `SessionWorker` | `Session__Worker` and the closures of `Session__Registry.open` | one action per statement that another thread can see |
| `SessionRegistry`, `MC_SessionRegistry` | the registry, `session_*`, the desktop endpoint, any other endpoint, the clock; workers as far as `HeldSession` tells them apart | one action per statement on shared state |
| `SequenceRunner` | `Sequence__Runner` and `_run_sequence_via` | one action per phase that can raise, per step |
| `ProbeExecutor` | `Probe__Executor`, EXTENDS `SequenceRunner` and runs it | operators over its results |
| `Endpoints` | the screenshot, batch and one-shot endpoints, EXTENDS `SequenceRunner` and runs it | operators over its results |
| `MC_Replies` | `Endpoints`, `ProbeExecutor` and a caller's own sequence over one runner | composition |
| `RequestWatchdog` | the watchdog thread, the middleware, the restart | one action per statement under the lock |
| `FleetReconciler` | the three kinds of invocation, the two records, EC2 | one action per call of Route 53 or EC2 |
| `VaultWaker` | the two Lambdas, their caches, the instance, the page, the operator | one action per call and per page |
| `StackProvisioner` | both provisioners: creation, rollback, deletion, the operator | one action per step of a table |
| `LetsPipeline`, `MC_LetsPipeline` | the loaders, the consolidation, the sync, the wipes | one action per call of Elastic or S3 |
| `*_proofs` | theorems (see Proofs) | |

`SessionWorker` and every session of `SessionRegistry` are shown to implement
`HeldSession`: the two levels meet there. The registry has each statement of `submit` and
`stop` too, and a worker's thread as far as a request can tell: it takes what is in its
inbox in order and ends at the first pill. The launch, the browser and the teardown are
`SessionWorker`'s alone.

### HeldSession
`phase`, `closing`, `serving`, `call`: a session opens or fails to; calls are asked,
served one at a time, answered at most once; a close waits for the call being served;
a call is refused only after somebody asked for the close, or after the close itself.

### SessionWorker
`inbox`, `stopped` and `setup` are the worker's `_inbox`, `_stopped` and
`_setup_done`/`_setup_error`; `worker` is the thread's place in `_run`, `pc[t]` a
request thread's place in `start`, `submit` or `stop`, `reply[t]` its future. A task
is named by its caller, who has at most one outstanding. `runtime` follows the
processes: Node started, browser registered, killed. `start` may give up at any time
while the launch goes on (`SETUP_TIMEOUT_S`), and `join` may return at any time
(`TEARDOWN_TIMEOUT_S`): both timeouts are taken as a choice, since neither has a
relation to how long a launch or a call takes. The steps of the launch closure are
apart because each may raise and leaves something else behind.

### SessionRegistry
`sessions` and `expires` are the dictionary and the stamps in it; `phase`, `stopped`,
`inbox` and `serving` are the workers; the rest are the local variables of the request
threads: `scan` the comprehension of `sweep_expired` (which raises when the dictionary's
size changes under it, as Python's iterator does), `victim` and `after` the session being
closed and what follows. `submit` is its look at `_stopped` (`SubmitRaises`, `SubmitCheck`)
and its put (`SubmitPut`); `stop` is its look, its set, its pill and its join (`StopCheck`,
`StopSet`, `StopPut`, `Join`), so that two stops may both put a pill. A call that is put
behind a pill, or into the inbox of a worker that has ended, waits for ever, as in
`worker_hang`: `overtaken` remembers these calls, and what the registry promises of waiting
requests excepts them and no others. A reply resets a thread's locals. `Begin` draws a
request; `IdsLeft` keeps the number of opens within the ids. The desktop endpoint is an open
that goes on, in the same request, as an act on the session it has made (`StartUrl`); its
session is listed before the caller can know its id.

### SequenceRunner
A request is a mode (held page, direct, through the pool), the number of steps,
`halt_on_error` and whether it has credentials. Every place that can raise has its
action; `error` says whether a `RuntimeError` (which includes `NotImplementedError`)
or another exception is under way, because the handler in `_run_sequence_via`
tells them apart. `late` is the clock past the deadline, at any moment. `InOrder` is what
a filter over the results, the artefacts or the shots keeps: the positions of a set, in
order.

### ProbeExecutor, Endpoints, MC_Replies
`Steps` assembles the sequence, `SequenceRunner` runs it, and operators cut its results
as the code does: `_execute_internal` by offsets, the screenshot endpoints by kind and
position (`Paired` for the steps of a batch, `OfItem` for a single screenshot or an
item). A call of `Endpoints` is a list of *shots*: does it navigate, how many scripts
and clicks, png or html; a capture is known by the shot it was taken after, so that a
capture in another one's place can be told. `item` and `taken` are the loop over the
items of a batch, each a run of its own. The one-shot calls are a shot followed by
`GET_URL`, and `GET_CONTENT` where wanted. `MC_Replies` instantiates both over one
runner, so that each behaviour is one call of either kind, or a sequence that the caller
gives (`OwnCall`).

### RequestWatchdog
Time is in ticks. The watchdog thread reads the clock (`Wake`), copies the map
(`TakeSnapshot`), and kills or sleeps. `Restart` is the supervisor's.

### FleetReconciler
`record` and `zero_streak` are the values of `proxies.<parent>` and `_state.<parent>`;
`pc`, `left`, `ip`, `ips` the locals of the invocations; `todo` what the drain has
listed. Every read and every write of a record is an action of its own, as each is a
call of Route 53: an `upsert` writes back what was read with one address more or less,
and deleting the last address is a read and a delete that Route 53 refuses when the
values have changed. An address that a terminated proxy had may be given to the next
one. `torn` remembers that an update was lost: a write over a value that was not the
one read, an address found in the record already, or an invocation that died between
its two halves. The only writer of the streak is the idle check; one runs at a time,
which its schedule (minutes) and its Lambda's time limit make so. `missed` remembers that
a reset was due and not written, because the idle check that saw traffic died: until the
next reset the streak still counts the checks before the traffic.

### VaultWaker
`inst` is the slug's instance with its state and public address, `cache` the `_SLUG_CACHE`
of each Lambda, `req` the request each of them is at, `page` what the visitor has in front
of them; a visit ends in the vault (*open*), in the waker's own page that says it failed
(*failed*), or in a 502 or at another machine (*stray*). The warming page polls the admin
Lambda, and goes back to the waker when that says *ready*. An entry's `age` is counted from
the reading of the clock before the look-up, as `_cached_get` stores it. `was` is for
observation: ticks since the entry was last true. `Recycle` is a new sandbox of a Lambda. A
machine that has taken over an address may answer the probe or not.

### StackProvisioner
The tables are the order of the calls: what a creation makes, what the rollback of each
provisioner removes and in which order, what a deletion removes. `Inside` and `HoldsUp` are
AWS's: what goes with a resource, and what has to go before it. `created` is
`created_now`, `found` the detail that the VPC's deletion reads up front (the ALB's
looks everything up at its turn). A call raises before its effect or after it; the process
can be interrupted, and `KeyboardInterrupt` passes the `except Exception` that would roll
back. `before`, `lost`, `hindered` and `dirty` remember a run's beginning and its faults.

### LetsPipeline
`flag` and `batch` are `content_processed` and `consolidation_run_id` of a file's document
in the inventory, `view` the flag as a search sees it, `events` the indices, `artefact` and
`manifest` the day's two objects on S3, `run[c]` the locals of a command. What a file holds
is drawn at the start (`content`): nothing, events of its day, or also some of the evening
before, which a load by file puts into another index than a consolidated load does. An
inventory load is one step: one bulk request, which replaces documents, flags and run ids
included, and which asks for no refresh, so that searches go on seeing the documents as they
were until Elastic refreshes the index (`Refresh`); an `_update_by_query` asks for one,
leaves out documents that have changed since they were last refreshed (`Updatable`), and
when its reply is an error may be seen late (`Shows`). What an inventory load lists, what is
refused, and whether a sync goes on from it, are choices. A bulk request may be refused, in
part or with its effect; an `_update_by_query` may miss documents; an upload may fail; any
command may end at any place (`Dies`). For observation a set flag is *backed* or *doubtful*:
doubtful since an index was dropped and until the reset, or when it was set by a
consolidated load that was refused or read a pair of two runs, or by a load that was about
to post or mark the file when an index was dropped (`tainted`). `misled` says that a load
may leave out what it is asked for: a wipe, or a flag set without right, while it was under
way, a doubtful flag it has believed, or a search that did not see all a sync had posted.

## Runs

| Run | Instance | Shows | States |
|---|---|---|---|
| `worker` | opener and two more threads | ownership of every unresolved call, browser life, `HeldSession`, that calls are served in turn and no stop is lost, and that accepted calls are answered, stops release the browser, failed opens end the thread | 22 000 |
| `worker_hang` | same | a submit overtaken by a stop never returns | |
| `registry_safety` | 2 threads, 2 sessions, ttl 1, clock to 2, symmetric | listed sessions usable, no orphans, waiters that are not overtaken have workers, one closer, `HeldSession` for each | 1 220 000 |
| `registry_liveness` | 2 threads, 1 session | requests return unless overtaken, closed sessions end | 63 000 |
| `replies` | own sequences of up to 4 steps; up to 3 shots of 1 act and both formats; 2 settle steps, 2 probes | browser stopped on every path, halting, no step twice; captures in their own places, after their own steps, all there unless late; probe results under their names | 421 000 |
| `watchdog` | 2 requests, max 5, poll 2, clock to 14 | stuck requests end in time, kills have a cause | 131 000 |
| `fleet` | 3 proxies, target 2, threshold 2; a visitor, a scale check and an idle check; 1 death | the record is the fleet and the fleet follows the traffic until an update is lost, a teardown is earned unless a reset is missing | 71 000 |
| `fleet_lost` | same, no death | a proxy whose registration was overwritten is never reclaimed | |
| `stacks` | both provisioners, 3 faults | ok means complete, a rollback undoes its run and takes nothing else, deleted means gone, repeating converges | 46 000 |
| `lets` | 2 commands at a time, 1 file of any content, 2 consolidations, symmetric | a file marked by right is indexed, a load without error has loaded what its search could see, inventory and S3 agree | 3 447 000 |
| `waker` | 2 addresses, ttl 2, 1 change, 1 error | no false *not found*, nothing older than the ttl; a vault that is up is reached unless an old address is cached, no page warms for ever, and who keeps asking gets there | 174 000 |
| `waker_sleeps` | 1 address, ttl 2, 1 change | a visitor of a vault that is just stopping waits for ever | |

Deadlock checking is off where requests need not come and time or the number of opens is
bounded (the service's runs); the fleet, the stacks, the waker and the LETS
commands can always go on, and it is on.

### Why the bounds are enough
Three threads give the worker an opener, a submitter and a stopper, and also two
submitters or two stoppers against the third; a thread can make calls without end, so
the inbox holds every mix of calls and pills that three outstanding calls allow. Two
threads and two sessions are a closer and a user, or two closers, over the same or
different sessions while the second id grows or shrinks the dictionary under a scan; the
clock passes each deadline before and after a renewal. Four steps hold a pass, a
failure, and two skips behind it. Two settle
steps and two probes distinguish every offset from its neighbours. Three shots are the
fewest with a capture of one format before two of the other, where a wrong pairing
returns a capture in the place of another; with a script or click each they are nine
steps. The watchdog's clock allows two whole periods of five ticks and a restart between.

Three proxies are the target of two and the extra one that two racing invocations cost;
one of each kind of invocation overlaps with every other kind, and a threshold of two
tells a streak from a single check. `fleet` has the constraint `Untorn`: two of its properties
speak of histories without a lost update, so states behind one are not followed
(`fleet_lost`, which is about those, has no constraint); the third, `TeardownEarned`, speaks
of all histories, and `TeardownIsEarned` proves it for them. A reset that is missed is
followed. Three faults are one in a
creation, one in its rollback and one in a later run. Two ticks tell an entry that is
fresh from one that is about to expire, two addresses the vault's from a stranger's; one
stop or unpublish against one error is every pair of those that races with a request,
and requests come without end.

Files do not meet but in what a command has in hand: one file and two commands, each of any
kind and begun again without end, are every overlap over a file, and two consolidations
(one of which may have read the file and the other not) every pair of objects on S3.

The types of the worker, the fleet, the waker, the stacks, the watchdog and the runner are
theorems and in no run.

### Fairness
`SessionWorker`: the worker thread and a thread inside `start`, `submit` or `stop` are
scheduled (weak fairness of each); nobody has to begin a call. Python's threads are
preempted by the interpreter, so a thread that can go on does. A call on the page ends
because Playwright's timeouts end each step. `SessionRegistry`: the same for requests under
way and for workers. No run of the service assumes strong fairness, that requests arrive, or
that the clock advances. `RequestWatchdog` has no liveness property; instead its clock does
not pass the end of the watchdog's sleep before the watchdog has looked, the promptness its
header relies on ("the watchdog thread still runs on its scheduled tick"). The service's
clock is the wall clock; the models take it not to go back.

`FleetReconciler`: the schedule (EventBridge) keeps asking for scale and idle checks, and an
invocation that has begun goes on unless it dies; nobody has to visit. `StackProvisioner`:
the operator repeats what has not been done, and a command runs to its end; the faults are
bounded, so in the end it meets none. `VaultWaker`: EC2 goes on with what it has begun, a
handler ends, the clock advances, and strong fairness of the page's poll and redirect: a
Lambda that is busy gets another sandbox, so a page's request is never starved by the other
visitors' that keep the modelled one busy. That the visitor asks is a premise of
`ReachedIfUpOrAsked`, not assumed. It says three things. A vault that stays up is reached
from a warming page if no cache then holds an address of before its stop (`Believed`),
unless a call of AWS raises: so a cache that still says *stopping* or *pending* does no
harm. With such an address the page may end in a 502 or at another machine, after a call
that raised in a 404 or a 500, and all that is promised is that it ends. And who asks the
waker again and again, of a vault that stays registered, is in the end let in, whatever was
cached.

## What the violations say

- **worker_hang** `submit` looks at `_stopped` and puts its task without a lock; a
  `stop` in between puts the pill first, and `fut.result()` has no timeout.
- **fleet_lost** `add_proxy_ip` writes the whole record back. Of two racing
  invocations the later write drops the earlier one's address; `idle_check` terminates
  only what the record lists, so that proxy runs for ever, where the module's header says
  that idle teardown reclaims it.
- **waker_sleeps** only a *stopped* state starts the instance. A visitor who comes while
  it is stopping, or while the waker's cache still has it running, gets the warming page;
  that polls the admin Lambda, which starts nothing, and reloads only when the vault is
  up. Who reloads by hand gets the vault (`ReachedIfUpOrAsked`).

Some more facts, seen while modelling, have no run of their own. The first three are
exceptions of properties that are checked: leave the exception out, and TLC finds the
history.

- A reset of the idle streak can be lost (the exception `missed` of `TeardownEarned`): an idle
  check that sees traffic writes the reset in a call of its own
  (`SG_Edge__Fleet__Reconciler.py:72-74`), and when it dies in between, the next quiet checks are
  added to those before the traffic. The fleet is then drained after fewer quiet checks in a
  row than the threshold, which line 36 describes as "consecutive zero-vault idle-checks
  before teardown".
- A flag can stay set without events (the exception of the tainted loads of
  `ProcessedIsIndexed`): a load that has posted a file marks it on the strength of that
  (`Events__Loader.py:277-303`); a wipe that drops the index and resets the flags in between is
  not noticed. `--from-inventory` and `--skip-processed` then pass the file over, where
  `Inventory__Manifest__Updater.py:13-14` says that "wipe-and-reload returns to a clean state".
- A sync can end without an error having loaded nothing (the exception `misled` of
  `OkMeansLoaded`): the bulk post of the inventory asks for no refresh
  (`Inventory__HTTP__Client.py:112-118`; `refresh=True` adds no parameter, and Elastic's default
  is not to), nobody calls `trigger_refresh`, and the search of the events phase follows at once
  (`SG_Send__Orchestrator.py:83`, `:100`), so it may see the documents as they were, or
  none.

The service:
- when the page cannot be created, the browser is already registered, and the worker's
  `_run` returns before the `try` whose `finally` has the teardown;
- the sweep pops what was expired when it looked: a session renewed since is closed;
- a session closed between an act's `get` and its `submit` raises the worker's
  `RuntimeError`, a server error where a late act is otherwise a 404;
- steps skipped by the deadline are not failures: such a sequence is COMPLETED, or FAILED
  although `halt_on_error` is off. A one-shot call may then reply 2xx with the url it was
  asked for and no step executed, a screenshot as html with an empty page, and a batch
  with fewer captures (`CompleteUnlessLate` says that only the deadline does this,
  `CapturesInPlace` that those returned are the first);
- the configuration passed for "no halt_on_error" halts by default: one failed probe skips
  the others, and the diagnostics appended to every inspect sequence are skipped
  whenever something failed, which is when the response wants them;
- a `RuntimeError` from the runner in the pool makes `_run_sequence_via` call it again
  inside the event loop, where the launch raises and hides the first error
  (`NoStepRunsTwice` shows that no step is repeated);
- with 28 s and 2 s the watchdog's kill may come as late as 30 s after the arrival
  (`StuckRequestsEnd` is that bound);
- when the navigation of the desktop endpoint raises, the caller never learns the id
  of the session it has opened; the session stays listed until a sweep after its ttl.

The fleet and the stacks:
- an address in the record after a lost removal stays there for as long as traffic lasts,
  and counts as a proxy;
- an ALB creation that fails after a security group was made but before its rules
  were authorised, and whose rollback could not remove the group, leaves a group that the
  next run takes for complete: it reports ok without ingress rules (the exception in
  `OkMeansComplete`);
- the VPC's creation attaches the gateway on every run, and its rollback detaches it
  even when an earlier run attached it (the exception in `CreationTakesNothing`), where
  the header says that only what was created in this run is removed;
- `describe_stack` finds the gateway by its attachment: a VPC deletion that failed after
  the detach leaves the gateway for ever (the exception in `DeletedMeansGone`);
- deleting a complete ALB stack always tries `alb-sg` while a rule of `target-sg`
  refers to it, collects the refusal and reports ok; a second deletion finishes.

The LETS pipeline:
- a consolidated load sets the flags although its bulk request was refused, and also when
  the events file is of another run than the manifest, which one failed upload is enough
  for: `--from-inventory` and `--skip-processed` then pass files over that are not indexed;
- a wipe that ends before its last step leaves the flags set; a sync, which posts the
  inventory anew, repairs both, once its search sees what it has posted (`OkMeansLoaded`);
- every inventory load clears the flags and the consolidation's stamps of what it lists, so
  that a sync loads the whole day again each time;
- `consolidate --from-inventory` after a first consolidation has only the files that are
  new, and replaces the day's events file by one of these alone;
- events of the evening before are indexed under their own day by a load by file and under
  the file's day by a consolidated one, so that who does both has them twice.

The waker:
- a polling page stops for good on *not found*, and a `ClientError` of
  `describe_instances` is answered as *not found*;
- a stale address may be another machine's: for up to a ttl the waker proxies to it.

## Proofs

Eight modules of theorems, each an inductive invariant with its consequences. All hold
for every value of the constants under the assumptions named in the modules. Each
inductive invariant was checked by TLC, on the instance of the component's run, before it
was proved.

**`SessionWorker_proofs`** (`ThreadsAssumption`: the opener is a request thread, the pill
and the empty marker are not). `IInv` adds to the checked invariants what ties the state
together: a pill or a teardown means `stopped` (`PillsMeanStopped`), what exists when
(`SetupFollowsLaunch`), and that only the opener touches the worker before `open` has
returned (`SharedOnlyWhenUp`). `PendingIsOwned` alone is not inductive: that the task run
next is nobody else's needs the types of the inbox, and that a put makes no duplicate needs
that its caller's future was not pending before. From `IInv` follow the types
(`TypeCorrect`), `NoCallLost`, `BrowserOutlivesCalls`, what the liveness of the worker rests
on, and `ImplementsHeldSession`: the
initial state is one of `HeldSession`'s, and each step is one of its steps or invisible,
with `SubmitPut` as `Ask`, `SubmitRefused` as `Refuse`, `TakeTask` as `Serve`, `RunTask` as
`Answer`, `StopSet` as `RequestClose` and `TakePill` as `Close`. What liveness rests on are
two facts about steps: a call ahead of every pill comes closer with each step of the worker
and with no step of anybody falls back (`CallsServedInTurn`, an action property whose
measure is `StepsTo`), and a stop, once begun, is on its way as a pill until the worker has
seen one (`StopsArrive`). With the worker's fairness, which is all that is left to TLC, the
first gives `AcceptedCallAnswered`; the second is why `StopReleasesBrowser` needs nobody to
call `stop` twice.

**`SessionRegistry_proofs`** (`RegistryAssumption`: the ids are finitely many, ttl positive,
the pill no thread, the marker neither pill nor thread nor id). `IInv` ties a thread's place
to the sessions it has in hand: `RequestsHaveSessions` (what a request names, some open has
returned), `LaunchesApart` (an id is drawn once), `ClosersHaveVictims` (who closes a session
has popped it, or is an expired get or a failed open), `OpenedBefore` (nothing is listed,
scanned or stopped before its launch), `WorkersAtRest` (a stopped worker that is up has a
pill in its inbox or on its way), `CallsAwaited` (a waiting request is in exactly one queue,
once, or being served), `CallsAhead` (in the inbox of a worker that is up, the calls behind
a pill are exactly the overtaken ones, and a call that is not overtaken has a worker that is
up) and `PendingTillReply` (a request under way has no outcome). None of the checked
invariants is inductive alone: that a popped session is stopped needs that nobody else has
popped it (`PoppedOnce`), which needs that a listed one is not being closed
(`ListedIsUsable`), which needs `ClosersHaveVictims`. From `IInv` follow
`RegistryTypeCorrect`, `ListedSessionsUsable`, `NoBrowserOrphaned`, `WaitersHaveWorkers`
(from `CallsAwaited` and `CallsAhead`: a worker ends only at a pill at the head of its
inbox, and then every call in it is behind a pill, so it strands no call but overtaken
ones), `SessionsPoppedOnce`, and `EverySessionIsHeld`: `SubmitPut` is `Ask` of one session,
`SubmitRaises` is `Refuse`, `Serve` and `Answer` are themselves, `StopSet` is
`RequestClose`, `OpenStore` is `Opened`, `OpenFails` is `OpenFailed`, `Teardown` is `Close`,
the other statements of `submit` and `stop` are invisible, and a new request of a thread
forgets its last answer; every other session stutters meanwhile. With
`ImplementsHeldSession` the worker is proved below the promise that the registry is proved
to keep.

**`Replies_proofs`** (`MaxStepsAssumption`, `BoundsAssumption`: the bounds are numbers, so
that the theorems hold for calls and sequences of any length). First the runner's own. `IInv`
has two parts beside the types: `Position` says what exists at each place of a run, `Tally`
accounts for each result. The hard step is the loop's (`LoopTally`): that a skipped result
is followed by skipped ones only needs `halted` to remember it, and that a halt without
the deadline has exactly one failure behind it needs that none came before. `StepsRunOnce`
rests on a fact about the exceptions: a run that raises has no results, so starting over
repeats nothing. Then the replies, in four layers:

1. *Positions in order.* `InOrder` of a bounded set enumerates it upwards
   (`InOrderEnumerates`), it is the only sequence that does (`InOrderIs`), and the rank of
   an element is its index in it (`RankInOrder`). These need induction over the size of
   data, which the library states with an operator parameter; `NatSetInduction` states it
   with a set of numbers instead, from the well-foundedness of `<`, and so within reach.
   The same lemma gives what `FlattenSeq`, a recursive function, puts together
   (`FlattenSeqIs`): what its parts have, in an order that holds in them and between them.
2. *The sequence of a call* (`StepsOK`, by `StepsFacts`): the entries of each shot that is
   run, shot by shot, a capture after whatever its shot asks for, and for each capture that
   the caller waits for exactly the steps of its kind.
3. *Pairing* (`PairedByIndex`). When what has passed is a prefix of the sequence, the k-th
   capture is the i-th of its own kind, `i` being `IndexAmongKind`, and is found under that
   index among the results of its kind just when it has passed. So `Paired` is a prefix of
   the captures (`PairedIs`), and one index for both kinds, or a failure in the middle,
   would break it: this is why a reply needs `RaisesOnFailure`, and why halting for good
   matters.
4. *The invariant* `RepliesInv`: the runner's `IInv`; the sequence that is run is the one its
   call asks for; and each capture of the items before is of its own item, or an empty
   page (`RequestFollowsCall`). It is inductive because an item that succeeds appends its
   own capture (`ItemReply`), and a run that finishes with status 2xx has no failed step
   and a prefix of passed ones (`FinishedFacts`, from `HaltedForGood`).

`RepliesInPlace`, `GoodRepliesComplete` and `CapturesAfterTheirSteps` follow;
`ProbeResultsNamed` follows from where the parts of an inspect lie in its sequence
(`ProbeStepsFacts`); `RepliesRunWell` carries the runner's own invariants over to whole
calls.

**`RequestWatchdog_proofs`** (`WatchdogAssumption`). `WakesInTime` bounds the next look by one
interval and by every request's arrival plus both durations; it is kept by `SleepAgain`
because a check that spares a request has found it young (`SparedIsYoung`), which needs that
the snapshot misses only requests of the same moment (`CheckIsCurrent`). `NoRequestStuck` and
`NeverKilledIdly` follow.

**`FleetReconciler_proofs`** (`FleetAssumption`: finitely many addresses, a target and a
threshold that are positive, the kinds of invocation apart; any number of visitors and scale
checks). `FleetInv` adds to `RecordIsTheFleet`, for histories in which no update was lost,
two parts, and a third for all in which no due reset is missing. The two are
`AddersAreApart` (no two invocations register the same address, since EC2 gives out free
ones), `DrainIsListed` (a drain removes what the record has, and an address it has
terminated runs again only while it is being registered); the third is `StreakIsEarned` (the
streak never runs ahead of the quiet checks). `RecordTellsTheFleet` and `TeardownIsEarned`
follow.

**`VaultWaker_proofs`** (`WakerAssumption`). `WasSoSince` says that nothing was true longer
ago than its entry is old, nor longer than its look-up has taken: from it, that an entry
is dropped at the ttl bounds how stale an answer can be (`RecognisedTheorem`, an action
property). `BlindIsKnown` follows a look-up that may find nothing (`NotFoundTheorem`).

**`StackProvisioner_proofs`** (`ProvisionerAssumption`). The tables are sequences; a
handful of lemmas state their order (`PlanOrder`, `RollbackOrder`, `NothingUnrooted`), and
the rest is about sets. `Rooted` says that what exists has what AWS needs for it: a
creation goes from the roots up, a removal takes whole branches. `CreatedIsNew` says that
`created_now` is exactly what the run has made, and `RolledBackSoFar` that what is left
of it is still to come in the table; together they give that no removal of an undisturbed
rollback is refused (`NeverRefused`): what would hold it up has been there before, with
what it needs, or has been removed. `GroupsHaveRules` is what a re-run relies on.
`StackTypeCorrect`, `OkIsComplete`, `RollbackTheorem`, `FoundIsKept` and `DeletedIsGone`
follow, for any number of faults and runs.

**`LetsPipeline_proofs`** (`PipelineAssumption`: the bound of the runs is a number, the
empty marker no file). Three parts make the checked invariants inductive. `PostedSoFar`: of
the file in hand, the days that are gone have been posted unless a bulk request was refused,
and of what the load was asked for, all that is neither in hand nor in the queue is indexed;
it survives the steps of every other command because events only disappear in a `Drop`,
which taints whoever is to mark what it has posted, misleads every load under way and makes
every flag doubtful, in the documents and in what searches see. A sync finds what it was
asked for in its queue or indexed because, unless it is misled, its search has seen the
documents as they are, and each is unprocessed or backed. `IdsAreFresh`: a run id is nowhere
to be seen before its consolidation has come to write it. `StampsAreCovered`: what a run has
stamped, or may still stamp, is in the events file it has written and in what a consolidated
load has read of it; this needs `IdsAreFresh`, since a stamp by an older run of the same id
would not be covered. One lemma (`CommandStep`) says what a step leaves to the other
commands, and each action then only accounts for its own. `LetsTypeCorrect`,
`ProcessedTheorem`, `StampedTheorem` and `LoadedTheorem` follow, for any number of commands,
files and consolidations.

## Only model-checked

Liveness (`AcceptedCallAnswered`, `StopReleasesBrowser`, `FailedOpenEndsThread`,
`EveryRequestReturns`, `ClosedSessionEnds`, `ConvergesUnlessTorn`, `RetriesConverge`,
`ReachedIfUpOrAsked`) rests on fairness, which TLAPS cannot reason about here; ENABLED is
out of reach for the same reason. Of the worker's, the part that is about steps is proved
(`ServedInTurn`, `StopIsOnItsWay`). Every invariant and every action property that a run
checks, and both refinements, are theorems. No module declares a RECURSIVE operator.

## Not modelled

Wording, logging, timings, artefacts and the content of results; Playwright itself beyond
what may raise; the scripts and routes around the service. Data races inside CPython's
dictionary and queue are not possible under its global lock; one statement on them is one
step.

Of the LETS pipeline: the compatibility check of a region's configuration, Kibana's views
and dashboards, the journal and the reading commands. What searches of the events see, which
no modelled command reads, is left out; an events index is its documents. Run ids are fresh,
where the code has a timestamp and four hex digits. A day is one index and one delivery day;
what is said of one file says nothing of counts.

Of the waker: adopting and tagging instances, creating and removing the Lambdas, the
admin console, `unpublish` and `status` with a region of their own (one slug in one region
is modelled), and two registrations of one slug at once. Of the fleet: two idle checks
at once, and Route 53's propagation (its API answers from what was written). Of the
stacks: two commands on one stack at once, resources that others make in the VPC, and the
time a deleted load balancer takes to give its network interfaces back.

The listeners buffer and the network-idle wait depend on when Playwright's synchronous API
dispatches events, which the code does not decide; their hazards are listed without a
property. The compute specs, clients and CLIs are sequences of calls without a state of
their own, the content proxy a decision per request, the pod manager and the host plane
wrappers of the container runtime, and the certificate client one run of the authority's
protocol.

## Left to do

1. The listeners buffer with the network-idle wait, with the dispatch of events as a
   choice.
