# Starkite in TLA+

Starkite runs automation scripts written in Starlark. One Go runtime (`libkite`) is embedded in the
command-line programs `basekite`, `kite`, `cloudkite` and `aikite`; built-in modules give scripts files,
processes, HTTP, SSH, SQL, containers, Kubernetes controllers and MCP. This directory holds the
specifications of the parts in which several goroutines, processes or machines meet, and of the rules that
decide what a script may do; the TLC configurations that check them; and the TLAPS proofs of what matters most.

- §1 the parts of the system and what makes each correct
- §2 the modules and how they correspond to the code
- §3 what each run checks, its bounds, the fairness assumed
- §4 what is proved and along which argument
- §5 what the code does that its documentation does not say
- §6 what is not modelled, and why

Line numbers are those of the commit the modules were written against.

## 1. Inventory

| Component | State | Operations | Hard behaviour | Correct when |
|---|---|---|---|---|
| **k8s controller engine** `cloudkite/modules/k8s/control.go` | `cache`, `echoKeys`, rate-limited queue, one `dispatch` stack per worker; finalizer and Ready condition on the server | watch, resync, related watches, dispatch, add/remove finalizer, status update, retry, drop | each API write comes back twice, as a reply and as a watch event, in either order; workers share keys; crashes; lost replies | nothing seen is forgotten; Ready is only shown for what was handled; a finalizer comes off after `finalize`; the controller does not feed itself |
| **leader election** same file 457-516 | the Lease, `leading`, workers | acquire, renew, release, start workers, stop | the Lease is released before the workers have stopped; leadership won during shutdown; a leader that stands still | nobody works without the Lease, but for the moments around losing it |
| **child reconciliation** same file 767-930, 1538-1675 | `watchedGVRs`, child watches, children with owner references | apply, watch, list, prune | apply and prune are separate requests; the set of kinds is lost in a restart; two leaders apply and prune beside each other | the children become those the handler returned; one that was always wanted is never deleted |
| **runtime lifecycle** `libkite/runtime.go`, `signals.go` | `deferredFuncs`, `goCleanups`, signal channel and handlers, `callMu` | Execute, `defer`, `on_signal`, AddCleanup, Close, callbacks | the signal goroutine races the script for both lists and for the exit; a lock that is not re-entrant | each task runs at most once, in order, before the process ends; callbacks exclude each other; a signal ends the process |
| **http server** `libkite/modules/http/server.go` | `running`, server, listener, `done`, `handlerMu` | start, serve, shutdown, handle, use | `Serve` returns before `Shutdown` has drained; restarts overlap with the drain; handlers call the server's own methods | one generation serves; handlers exclude each other; shutdown drains or cuts; `serve` comes back |
| **concur** `libkite/modules/concur` | semaphore, context, results | map, each, exec | deadline against completion; a pool held by those who wait for it | at most `workers` at once; nothing outlives the answer; it answers |
| **retry** `libkite/modules/retry` | attempts, delay, deadline | do, with_backoff | the deadline is looked at between attempts only | success and failure mean what they say about the work |
| **sql** `libkite/modules/sql` | connection pool, transaction `done` | begin, commit, rollback, tx | failed or unanswered commit; a callback retried, or finishing its own transaction | all of a transaction or nothing of it |
| **known_hosts** `libkite/modules/ssh/known_hosts.go`, `keyscan.go` | the file, `knownHostsMu`, the lock file | add, remove, keyscan with save | a mutex per process and a lock file that a crash leaves behind; read, write beside, rename | the file is a set of trusted pairs on which each call takes effect at once |
| **module manager** `basekite/manager`, `resolver` | `~/.starkite/modules`, receipts, `mod.lock` | Install, Update, Remove, Verify, Sync | death between any two file-system steps; several processes and no lock | what verifies is complete |
| **module loader** `loader.go`, `cache.go`, `preload.go` | source read ahead, loaded modules | load, static load closure | files are read first and verified later | an installed module that is loaded is the tree that was locked |
| **permissions** `libkite/permissions.go` | rule lists of a profile | match, generate, suggest | rules are generated from paths, names and endpoints and matched as text | the rules grant what the profile says |
| **sandbox profiles** `libkite/sandbox/profile.go` | one profile per command | resolve, override, compile | built-in, configured and command-line layers, each field with its own rule of precedence; two compilations | mounts and rules agree; each rung of the ladder grants more than the one below |
| windows lease journal `libkite/sandbox/lease_windows.go` | journal file of ACL grants | record, remove, sweep | crash between grant and record | - |
| sandbox drivers, ssh connections, containers, mcp, k8s client modules | in the kernel or on other machines | request and response | network and kernel I/O | - |
| command line, data, file, process and tooling modules | none that is shared | sequential calls | conversions with unit tests | - |

How they interact. The command resolves a profile (`basekite/cmd/root.go`), which gives the sandbox its mounts
and the runtime its rules, and calls `Runtime.Execute`, which runs the script on the main goroutine. The
script starts servers, controllers and MCP tools; these call Starlark functions back from goroutines of their
own through `CallSafe` (`runtime.go:438`) or, in the http server, through `starlark.Call` under `handlerMu`.
Modules register what must be closed at the end with `AddCleanup` (`runtime.go:331`); the http server
registers its shutdown there. `concur.map` gives every item an interpreter thread; `retry` and `sql` find the
deadline in that thread's context. `k8s.control()` and the MCP server install signal channels beside the
runtime's own. `load()` of an installed module goes through the cache the manager writes, and `mod.lock` that the
resolver writes. `PROJECT.json` lists the hazards of each component at their lines.

## 2. Modules

| Module | Role |
|---|---|
| `K8sController` | reconcile engine, composed with the API server, the watch stream and client-go's queue |
| `K8sReplicas` | several replicas of a controller: leader election and the children of one parent |
| `Runtime` | one run of a script: main and signal goroutine, callbacks |
| `HttpServer` | one `http.server` value over several generations, with requests, script and signal |
| `Concur`, `Retry`, `Transaction` | the three control structures, each open at the function it calls |
| `FanOut` | their composition: `concur.map` of `retry.do` of `db.tx` |
| `KnownHostsStore` | abstract: a set of trusted pairs with atomic calls |
| `KnownHosts` | the file, mutex and lock file that implement it |
| `ModuleStore` | cache, receipts and lock of the module manager, with the loader that reads them |
| `Permissions` | rules: reading, matching, generating, deciding (pure) |
| `SandboxProfile` | from a command line to a decision: resolve, override, compile twice, run |
| `MC*` | model values, command lists and symmetry for TLC |
| `*Proofs` | theorems |

Each module keeps its mutants (operators whose comment begins with "Mutant") next to the definitions they vary: a plausible bug
each, for which TLC finds the named property violated. They belong to no specification.

### K8sController

| Variables | Code |
|---|---|
| `store`, `lastRV`, `stream`, `watching` | API server and the watch connection (external) |
| `inHand` | the event between `ResultChan` and the lock section of `doWatch` |
| `listed` | what `doResync` has listed and not walked |
| `cache`, `echoKeys` | `c.cache`, `c.echoKeys` |
| `queue`, `dirty`, `waiting`, `failures` | client-go's workqueue and rate limiter (external) |
| `pc`, `job` | where each worker is in `dispatch`, and its locals |
| `handled`, `abandoned`, `finalized` | history, read by properties only; objects are known by uid, `finalized` by name and uid |

Every API request is two outcomes (it commits or fails; with `ApiFaults` also commits and loses its reply),
and each request, each section under `cacheMu` and each handler call of `dispatch` is a step of its own, so
everything may happen between a request and the store of its reply. The queue keeps items by value except for
`old`, which is a pointer: two items for one key are therefore distinct and two workers may hold them at once.
A crash keeps the server and clears the rest. Objects carry what decisions read: identity, version, generation,
finalizer, deletion mark, Ready and its observedGeneration. Two keys never meet in the code except in the
queue's order, so one key with several items, or two workers on it, is the interesting instance.

### K8sReplicas

| Variables | Code |
|---|---|
| `log` | the parent's history: the children each version of it makes the handler return |
| `child` | each child on the server, and whether its owner is the parent |
| `holder`, `expired`, `le` | the Lease, and each replica's elector (client-go, external) |
| `workers`, `done`, `inflight` | OnStartedLeading's goroutine and worker, the cancelled context, a last request that may still land |
| `seen`, `queued` | the parent in each cache and queue |
| `watched`, `open` | `watchedGVRs` and the child watches that are connected |
| `job` | the worker: version, children to apply, kinds listed, victims of the prune |
| `paused` | history: leaders that stood still while their Lease ran out |

A replica may crash and come back, be terminated (its context ends, the Lease is released while the worker may be inside
a request), stand still, lose a request, or miss events between two watches; all of them count as faults. A restarted
replica begins with the kinds of `watch_owned`. Simplified: one worker for each replica (two on one key is
`K8sController`'s subject); the status write; the delay of an event or of the poll timer counts as time in the queue; a
restarted replica that does nothing stands for one that is down; a retry is never dropped, as the bounded faults are
fewer than `max_retries`; children are numbered in the order of the returned list.

### Runtime

| Variables | Code |
|---|---|
| `deferredFuncs`, `goCleanups` | the lists under `deferMu` and `cleanupMu` |
| `pc`, `todo`, `closing` | the main goroutine (Execute, then Close) and the signal goroutine, and the part of a list each has taken |
| `hooked`, `signalChan`, `got` | `signal.Notify`, the channel of capacity one, the signal being handled |
| `signalHandlers` | handlers by the name the script spelled |
| `held`, `call` | `callMu`, `fallbackCallMu`, the server's `handlerMu`, and each callback |
| `exit` | the process: running, or who ended it |
| `late` | history, with `registered`, `runs` and `ended`: the tasks registered after main took their list for the last time |

`defer()` and `on_signal()` are closures over the runtime and may be called wherever Starlark code runs (`Register`, `OnSignal`): in the
body, in deferred functions, signal handlers and every callback. `RegisterCleanup` finds the runtime on the thread, so a controller's
callback registers none. `TakeDeferred` and `TakeCleanups` are the sections under the lock that take a whole list; walking it is a step
per task, so the other goroutine can register, take or exit between any two. Go cleanups take no mutex. A
callback that takes `CallSafe` again inside one (`inventory.filter`) waits for a lock it may hold itself.
SIGHUP runs both lists and lets the script go on. Left out: `inventory.filter` called by a deferred function or a signal handler, which
waits for itself like a tool's (§5). Abstracted: what tasks do, the order in which one callback's
calls follow each other, errors of tasks (logged, the walk goes on).

### HttpServer

A *generation* is one successful start: `s.server`, `s.listener`, `s.done` and the goroutine in `Serve`.

| Variables | Code |
|---|---|
| `running`, `current` | `s.running`, and `s.server`/`s.done` as a generation number |
| `serving` | each generation's goroutine: in `Serve`, returned, after `s.running = false`, after `close(done)` |
| `stopping`, `forced` | generations whose `Shutdown`, `Close` was called (net/http, external) |
| `handlerMu`, `gen`, `pc` | the handler in progress, the generation of a request, all goroutines |
| `target`, `after` | local `srv` and the return of `shutdownInternal`, or the `done` that serve waits on |
| `installed`, `cleanup` | serve's default signal handlers, how many times shutdown is on the runtime's cleanup list |
| `left`, `closing` | entries of that list an ender has taken and not run, whether the script's goroutine has left Execute and is in Close |

Every start puts another shutdown on the cleanup list. The list is taken whole, by the script's goroutine after Execute and again in
Close, or by the signal goroutine; what is put there afterwards stays. Script and handlers may call start and shutdown at any time; the signal goroutine calls shutdown as default
handler and both ends of a run call it again as a cleanup. `Serve` of net/http returns when `Shutdown` begins,
not when it has drained, so the goroutine of a generation goes on while requests of it are still in flight.
The end of a run is that of module `Runtime`, reduced to what this server sees.

### Concur, Retry, Transaction, FanOut

| Variables | Code |
|---|---|
| `workers`, `deadline`, `ctx` | arguments of the call and its `context.WithTimeout` |
| `next`, `item`, `stopped`, `result`, `answer` | launching loop, goroutines, cancelled interpreter threads, result slots, the return |
| `maxAttempts`, `timed`, `timer`, `loop` | `executeRetry`: options, its own deadline, the loop with its `RetryResult` |
| `txRetries`, `txn` | `retry=` and the managed transaction of each thread: begin, callback, commit, rollback, the loop over conflicts |
| `zombies` | connections of open transactions whose context ended, until database/sql's own rollback (external) |
| `applied`, `excused` | history: commits of the attempts that have ended; items that made a second commit right |

`Concur` leaves open what an item's function does, `Retry` what an attempt does, `Transaction` whose context it runs in.
`FanOut` joins them through the two things they share in the code: the context on the interpreter thread, which the map's
deadline and the loop's deadline both end, and the connection pool. A callback may succeed, raise, meet a conflict, ask for a
second connection, or finish its own transaction. `on_error` is read when results are collected, so it is chosen there.

### KnownHostsStore and KnownHosts

| Variables | Code |
|---|---|
| `file` | the lines of known_hosts, each with its patterns, key and whether it is hashed |
| `lock`, `knownHostsMu` | the lock file by its creator, or an orphan, a stale one, or one that cannot be removed (`Stuck`); the mutex of each process |
| `pc`, `request`, `content`, `toAppend` | each goroutine in its call and what it has read or has still to write |
| `result` | whether the call has taken effect or failed |

`trusted` of the store is `PairsOf(file)`, `status` follows `result`. The abstract store has one step for an addition or a
removal, somewhere between call and return, and one for each pair a keyscan saves; every read, write, rename and lock-file
operation of the code is a step of its own, and each may fail as the code lets it: the removal of a stale lock file too, whose error nobody
looks at. The file is a set because neither the order nor the repetition of lines decides
anything. `removeKnownHost` looks for the host as text inside the pattern field; the instances have no host that is part of
another, and wildcard and negated patterns are left out.

### ModuleStore

| Variables | Code |
|---|---|
| `dir` | each `<name>@<rev>` directory: there or not, the state of its files, its receipt |
| `latest`, `modLock` | what the source offers, what `mod.lock` pins |
| `pc`, `job` | each process in install, update, remove, sync or load |
| `cross`, `alone` | whether staging is on another file system (rename or copy), whether changing commands run one at a time |
| `unlinked` | processes that copy into a file somebody removed: they write on, and the file is no longer in the directory |
| `touched`, `broken` | history: loads whose directory was changed since they began, revisions whose copy or removal has broken off |

A tree is the state of its files (missing, torn, complete), and hashing it is reading it, so equal hashes are equal trees.
Copying is a step per file with a torn file between. Between any two steps a process may die (`Crash`), and a copy or a removal may fail
(`Fail`: an I/O error, or a symbolic link that `copyDir` refuses), which returns an error and leaves what is there. Nothing keeps
commands apart, as nothing does in the code: a forced install or a removal may run beside an install. Fetching is an input.

### Permissions and SandboxProfile

`Permissions` defines operators for `ParseRule`, `matchSegments`, the generators for paths, binaries and endpoints, `Allows`
and the ladder that a denial's suggestion climbs. Texts are sequences of segments; a text is a scheme and segments, because
the code splits at colons and slashes. `ExecName` and `IsIdent` are constants: the name a binary is compared by, in lower case and without
`.exe`, `.bat` and the like, and whether a text could be a function's name. `SandboxProfile` is a small state machine (started, resolved or refused, running, with one
answered operation), because the checker keeps no state between operations; what is large is its input: every built-in profile and a
configured one, with groups of flag combinations. `Mounted` follows `MountRules`, the reading of mounts the rules are made by, and no driver. Abstracted: paths are clean and free of symbolic links, wildcards are whole
segments, there is one configuration file; driver, image, environment and limits, which no rule depends on.

## 3. Runs

| Run | Question | Bounds, and why they reach it |
|---|---|---|
| `k8s_finalize` | Does a finalizer come off only after `finalize` of that object, or of an earlier one of its name, succeeded, and is Ready only shown for what was handled? | one worker, 3 user operations (create, delete, re-create under the same name), one fault: a lost request or reply, a crash or a broken watch at any point |
| `k8s_settles` | With two workers, is every live generation handled or given up on, and do retries die out? | 2 workers, 3 user operations, one fault, 1 retry; two distinct `old` pointers put one key on both workers |
| `k8s_loop` | Do polling, resync, requeue, predicate and related kinds feed on the controller's own writes? | unlimited ticks and related events, no generation filter, 2 user writes, one own write allowed for each |
| `k8s_lost_edit` | *violated*: a status reply overwrites a newer cache entry | 2 user operations |
| `kr_replicas` | Does nobody work without the Lease, is a child always wanted never deleted, do the children settle? | 2 replicas (the old leader and the new), one child, one edit of the parent (wanted, then not, or the reverse), one meddling with the child, one fault of any kind |
| `rt_run` | Is every task taken once and in order, whichever thread registers it and whenever, do CallSafe's users exclude each other, do signals and script end terminate the process? | 2 deferred functions and a cleanup (an order), 2 signals of both kinds (one handled, one waiting, or SIGHUP then SIGINT), a http handler that filters: a callback that contends for `callMu` and outlives the body |
| `hs_run` | Does one generation serve, do handlers exclude each other over generations, is no generation left behind, does nothing hang? | 2 requests (one handling, one waiting), 2 starts (one draining, one serving), script and signal |
| `fo_run` | Are transactions all or nothing, is work applied exactly once, does nothing outlive the answer, does the map end? | 2 items over a pool of one connection (one holds it, one waits), one worker or unbounded; 2 callbacks for an item are 2 attempts or a repeated conflict; a deadline on the map, on the loops, or none |
| `kh_one_process` | Is the file a set of pairs with atomic calls, does the lock file belong to whoever changes the file, does every call return? | 2 goroutines, 3 calls out of 7 over 2 hosts and 2 keys, two I/O errors or crashes (one leaves the lock file, one meets it); a line with two patterns, so that a removal keeps part of a line |
| `ms_cache` | Is `verify` never fooled, does an undisturbed load run what was locked, is what is left complete? | 2 processes, 2 revisions (an update removes the other), 3 files (first, torn in the middle, last), 4 commands (install, sync, remove, load; or two installs, a removal and one more), one death and one failure |
| `sp_rules` | Do rules grant what flags name, do they agree with the mounts, does the ladder rise, does a suggestion help? | every rung and no profile, with every combination of flags within a group (files, network, switches), configured profiles with and without a base; operations of every module that asks, on paths in and beside each tree |
| `sp_endpoint` | *violated*: an endpoint given to `--sandbox-net-allow` grants no request | the same command lines |

The properties, by hazard. *Stale state*: `ReadyMeansHandled`, `NoGenerationForgotten`, `EventuallySettled`,
`LoadIsWhatWasLocked`, `SuggestionHelps`. *Two actors*: `OneWriter`, `WantedNeverPruned`, `TakenOnce`,
`RuntimeCallsExcluded`, `HandlersExcluded`, `RunningMeansServing`, `LockOwned`, `QuietMeansComplete`. *Failure between two
steps*: `FinalizedUnlessReused`, `ChildrenSettle`, `VerifyTells`, `AllOrNothing`, `ImplementsStore`. *Retries and deadlines*:
`AppliedOnce`, `NothingOutlives`, `OwnWritesBounded`, `Quiesces`. *Hanging*: `MapEnds`, `CallsReturn`, `SignalEndsProcess`,
`RunEnds`, `ShutdownEndsServe`. *Order and completeness*: `UndisturbedRun`, `NeverLeftBehind`. *Layers of rules*: `LadderKept`,
`FlagsGrantWhatTheyName`, `GatesMatchMounts`. The comment above each says which code behaviour it is about.

Options that make a run's question precise, each because the code does not keep the property otherwise (§5).

- `k8s_settles` has no status write-back, because with it a user's edit can be lost for good (`k8s_lost_edit`);
  `FinalizedUnlessReused` lets an earlier object of the same name stand for a later one, because a patch by name can reach the wrong one
  (§5); `k8s_loop` bounds the controller's writes only for handlers that succeed, as one whose result alternates makes it write the condition each time.
- `kr_replicas` has `Poll` and the child's kind in `WatchOwned`. Without `poll=`, a child that changes between its apply and
  the opening of its watch is not repaired; without `watch_owned`, a restart forgets the kinds and prunes nothing of them.
- `rt_run` has a http handler that filters and not a tool, because a tool waits for itself. A tool's call and a controller's add only
  another holder of a mutex, and are in the theorems. `UndisturbedRun` is about runs
  without a signal and about tasks that are not `late`: what is registered after its list was taken for the last time is lost (§5).
- `NeverLeftBehind` speaks of the cleanup list and of whoever took it: a server started after the last take stays on a list nobody runs.
- `kh_one_process` has one process and `SaveBesideRemove = FALSE`: a save takes no lock, so a removal that has read the file
  drops what a save (or, with two processes, an addition) writes meanwhile. `CallsReturn` ends where a stale lock file cannot be removed (§5).
- `VerifyTells` speaks of commands that run one at a time (`alone`), `LoadIsWhatWasLocked` of loads whose directory nobody changed,
  `QuietMeansComplete` of revisions no copy or removal of which has broken off (`broken`), whatever commands overlap. TLC chooses `alone`
  and `cross` in the initial state, so the run has behaviours in which changing commands overlap freely and behaviours in which they do not.
- `AppliedOnce` excepts items (`excused`) whose callback finished its transaction itself, whose value `retry_on` refused after
  the commit, or whose commit lost its answer; `MapEnds` excepts callbacks that hold the whole pool and want more, without a deadline.
- The ladder excepts `--sandbox-enabled` on `unconfined`, `GatesMatchMounts` a mount over a path that may be written. `FlagsGrantWhatTheyName` is about
  flags that only grant (`OnlyGrants`), without loopback, endpoints, mounts and wildcards.

`MaxRV`, `MaxOld`, `MaxUserOps`, `MaxFaults`, `MaxEdits`, `MaxMeddles`, `MaxSignals`, `MaxStarts`, `MaxOps`, `MaxCrashes` and `MaxFails` are bounds
of the model and not of the code, `MaxCalls` as well; `MaxRetries` and `MaxOpen` are options. A write beyond `MaxRV` fails like a request
the server refuses.

`CHECK_DEADLOCK FALSE` is set in the controller's runs, `fo_run`, `kh_one_process` and `ms_cache`, whose users stop at their bound (and
where callbacks that starve the pool are a property's subject). Runtime and HttpServer stutter explicitly after the process
has ended, so in the other runs a deadlock would be reported.

Fairness. Weak fairness: a goroutine that can go on does (Go's scheduler), timers fire, watches reconnect
(`watchLoop` retries for ever), electors campaign, callbacks and handlers return. Strong fairness for taking a mutex:
`sync.Mutex` switches to starvation mode and hands itself to a waiter after one millisecond, so a lock that is
free again and again is granted; and in `FanOut` for a callback's return, which may alternate with its use of a second connection.
None for users, clients, signals, faults, the resync ticker, nor for a script's next call: a script may block or loop for ever.

## 4. What is proved

For every value of the constants that satisfies the module's assumption (sets are disjoint where the code's identities are,
some are finite, bounds are naturals, booleans are booleans), checked by TLAPS:

| Theorem | Says |
|---|---|
| `K8sControllerProofs!TypeCorrect`, `ReadyCorrect` | `TypeOK`, the retry cap included; with a reconcile handler, `ReadyMeansHandled` |
| `K8sControllerProofs!FinalizedUnlessReusedCorrect` | the action property `FinalizedUnlessReused`, without a hypothesis |
| `K8sControllerProofs!OwnWritesCorrect` | without a finalizer and with handlers that do not fail, `OwnWritesBounded` |
| `K8sControllerProofs!NothingForgottenCorrect` | with a reconcile handler, no finalizer and no status to write, and with `generation_changed` neither a predicate nor a resync, `NoGenerationForgotten` |
| `K8sReplicasProofs!TypeCorrect`, `OneWriterCorrect`, `WantedKept` | `TypeOK`; `OneWriter`; the action property `WantedNeverPruned` |
| `RuntimeProofs!TypeCorrect`, `CallSafeExcludes`, `TakenCorrect`, `UndisturbedCorrect` | `TypeOK`; `RuntimeCallsExcluded`; `TakenOnce`; `UndisturbedRun` |
| `HttpServerProofs!TypeCorrect`, `RunningCorrect`, `HandlersCorrect`, `BehindCorrect` | `TypeOK`; `RunningMeansServing`; `HandlersExcluded`; `NeverLeftBehind` |
| `KnownHostsProofs!TypeCorrect`, `LockCorrect`, `StoreImplemented` | `TypeOK`; in one process `LockOwned`; and, with saves and removals apart, that the file functions implement the store |
| `ModuleStoreProofs!TypeCorrect`, `VerifyCorrect`, `LoadCorrect`, `QuietCorrect` | `TypeOK`; `VerifyTells`; `LoadIsWhatWasLocked`; `QuietMeansComplete` |
| `SandboxProfileProofs!TypeCorrect`, `GatesMatchMountsCorrect`, `SuggestionHelpsCorrect`, `LadderKeptCorrect`, `FlagsGrantWhatTheyNameCorrect` | `TypeOK`; `GatesMatchMounts`; `SuggestionHelps`; `LadderKept`; `FlagsGrantWhatTheyName` |
| `FanOutProofs!TypeCorrect`, `TransactionCorrect`, `ExactlyOnce`, `MapOutlivesAll` | `TypeOK`; `AllOrNothing`; `AppliedOnce`; `NothingOutlives` |

Arguments. Each invariant is strengthened until every action preserves it.

- *ReadyCorrect.* Knowing that the server's stamps are justified says nothing about the next stamp, so the
  invariant follows the stamp back to the handler: `StampsAccepted` (every object anywhere - server, stream, cache,
  listing, a worker's stack - that shows Ready carries a generation in `handled`), `StatusEarned` (a worker that is
  about to write Ready=True has just had its handler accept this object) and `DictIsObj` (what the handler was given
  and what is stamped are the same version: re-reading the cache in between would break it). With `TypeOK` these are
  inductive; user writes keep an object's condition, so copies of it remain justified.
- *FinalizedUnlessReusedCorrect.* `UidInv`: uids are given out in order, so each copy of an object - in the stream, the cache, a listing, a queue
  item, a worker's stack or a reply - is of the object that now has the name or of an earlier one (`Elder`), and a worker about to
  strip has had `finalize` succeed for the uid it holds. The statement about that very object is false (§5), so the order of uids is
  all that a patch by name guarantees.
- *OwnWritesCorrect.* `Budget`: versions written so far, and one more for each object whose status does not yet show its generation as done, are at
  most twice the users' writes. A user's write adds a version and at most one such object; the controller's adds a version and takes one away,
  because the server accepts it only for the version the worker has seen (`CopiesGenuine`, `JobsGenuine`: a copy with the server's version
  is the server's object), and a write that changes nothing is no new version.
- *NothingForgottenCorrect.* `KeepInv`: a generation in the cache has been handled or given up on, or is owed by a queue item with the key or by a
  worker whose locals still lead it to the handler (`AllCared`), and each step passes the debt on. With `generation_changed` an event may be dropped, so
  `Ordered` says that the stream, the event in hand and the cache show one object's versions in order: what is dropped has the cache's generation.
  Each hypothesis is needed; TLC finds a forgotten generation when any one of them is taken away.
- *OneWriterCorrect.* `ElectionInv` ties each replica's elector to the Lease: who leads is its holder or has stood still
  while it ran out; workers exist only under an elector that has led, and a cancelled context does not start one.
- *WantedKept.* `JobsOK`: a job is about a version of the parent that exists, and what it has found to delete is not asked for by that version.
  So each deletion can name the version that did not want the child, also when a restarted or second replica works from an old one.
- *CallSafeExcludes.* `RunnersHold` and `CallsHold` say that whoever is inside a CallSafe call on a thread of the
  runtime holds `callMu`, and `LockTypes` that a mutex has one holder. Exclusion follows. A goroutine that waits for
  a lock it holds keeps the invariant: exclusion survives the deadlock.
- *TakenCorrect.* `TasksSpread`: the two lists, the two runners' hands and the ended tasks share out the registered ones, each in one place
  and there once. Every step that moves tasks is one of four moves of that relation between sequences (`SpreadTake`,
  `SpreadEnd`, `SpreadRegister`, `SpreadSwap`), proved without the state machine. A take overwrites what the runner had, so
  `Walking` is needed: it has nothing in hand then. `StartedOnce` ties the count of starts to the ended tasks and the heads being run.
- *UndisturbedCorrect.* `OrderInv` says what main has done with the tasks at each label (`Orderly`): the list rises in the order of
  registration, main's hands hold it reversed, and all that is still in them was registered before all that has ended; later, what is on the
  list of deferred functions is late, and in Close what is on the other list as well. So any thread may go on registering: it adds to the end of
  a list that has not been taken, or to `late`. `Calm` keeps the signal goroutine away from the lists and makes the end of the process wait for empty hands.
- *RunningCorrect.* The statement is itself inductive together with the type of the variables it reads, because the
  second half of a generation's life (`returned` to `stopped`) and the start of the next both need `s.mu`, and the
  start is refused until `s.running` is false.
- *HandlersCorrect.* A request that is handling, or is inside a shutdown its handler called, is the one in `handlerMu`.
- *BehindCorrect.* `BehindInv`: while a server runs that nobody has told to stop, its shutdown is on the cleanup list, in the hands of who took
  that list, or about to be called by somebody for this generation (`Served`); who has entries in hand is running them (`TakersAt`); and a
  generation that was told to stop, with requests that were not cut, has somebody who waits for them (`DrainingAt`). `Begun` says that what
  was not started accepts nothing, and that what was started is in `Serve` until it is told to stop.
- *LockCorrect.* `LockInv`: the mutex has one holder among the goroutines of its process (`MutexHeld`), only that one is near the lock file, so what it
  breaks is an orphan's, and what it releases is its own.
- *StoreImplemented.* `StoreInv` adds that what a removal has read is still the file's content when it writes (`Fresh`), which holds because
  additions wait for the lock and saves are apart (`Apart`), and that a save has added what it no longer has to (`Saving`). Then each step
  maps to an action of the store or a stutter; the step that changes the file is the one that takes effect.
- *LoadCorrect*, *VerifyCorrect.* `LoadAt`: an untouched load has read, so far, what is there, and compares all of it with the lock.
  `ReceiptInv`: while one command changes the cache at a time, every receipt is absent or that of a complete tree, because
  it records a tree that was hashed after its last file was copied (`ProgressAt` says how far each command has come). So it matches only a
  complete tree, in whatever order a removal takes the directory apart.
- *QuietCorrect.* `OwedInv`: of a revision nothing has broken off, each file that is not complete is owed by a process - it is copying that file, will
  come to it, or is removing the revision. Removals beside copies are what makes it hard: a copy may write into a file that was unlinked under it
  and owes that file no longer, but then the one that unlinked it is removing the revision and owes it. `OpenAt` keeps `unlinked` exact: whoever
  copies and is not in it has its file in the directory. Idle processes owe nothing.
- *FanOut.* `ItemAt` ties each item's place in the map to its loop's, its transaction's and to the commits counted so far, and `CallAt` each `db.tx`
  to what the database has seen of it: from these follow `AllOrNothing`, `AppliedOnce` and, with `Answered`, `NothingOutlives`.
  `PoolInv` counts connections: open transactions and zombies never exceed `MaxOpen`, by cardinalities of the set of open ones.

- *SandboxProfile.* `SPInv`: from the command and the stage, the profile and the rules are what resolving, overriding and compiling give; all else
  is about these functions. `MatchSegments` is a recursive table. For a tree's pattern (`p/**`) and for a binary's (`/**/x`) the table is known row by
  row, so that one exists (`TreeFits`, `AnywhereMatches`), and for trees that any table says the same (`TreeAhead`) goes by `SetInduction`, induction for
  a set of numbers, proved by counting. `TreeMatches` is the result: `p/**` matches what begins with `p`.
  *GatesMatchMountsCorrect*: every path a profile grants is mounted (`ProfileTyped`, kept by each override), and a mount's rules grant what it shows.
  *LadderKeptCorrect*: `Below` relates the profiles of two rungs field by field, each override keeps it (`OverridesBelow`), and compiling is
  monotone in it (`CompileBelow`). The last rung has its sandbox switched off, where only what is denied counts (`Looser`). That each rung grants more is shown
  by the operations of `RungsAssumption`.
  *SuggestionHelpsCorrect*: each list of the ladder is contained in what the profile of its name compiles to (`RungGrants`).
  *FlagsGrantWhatTheyNameCorrect*: `GrantProfile` computes the profile the overrides leave, mount by mount, and one lemma for each kind of operation
  (`FilesNamed`, `DatabasesNamed`, `AmbientNamed`, `BinariesGrant`, `NetworkMatches`) what its rules grant.
  Assumed: the working directory is an absolute path other than the root; mounts are absolute (`decodeMount`), and so are the host's files; paths are literal
  (§5); operations carry the resource the modules check them with, a binary what `resolveExecTarget` finds for it. *What they name* is for a
  binary every file of its `ExecName`, as the code compares (§5).

Only model-checked: all liveness (out of the prover's reach). What a pattern matches is proved for those the code generates from paths and binaries; a rule
given by hand may have a wildcard anywhere, and of those only what holds for any pattern is proved (that the ladder keeps them).

## 5. Where code and documentation disagree

Two runs in which TLC finds a behaviour of the code that contradicts the quoted line.

| Run | Code | Documentation |
|---|---|---|
| `k8s_lost_edit` | `control.go:1516` stores the reply of UpdateStatus over a newer watch event; the edit is never reconciled unless another event or a resync brings it back | `docs/infra/k8s-controllers.md:44` |
| `sp_endpoint` | `permissions.go:271` takes the `https` of a generated network rule for a function name, so the rule grants no request (`EndpointGranted`) | `docs/fundamentals/security/sandbox.md:192` |

Met while modelling, and the reason for the restrictions in §3. These have no run of their own.

- Controller: `control.go:1439` removes a finalizer by name, without uid or version (`docs/infra/k8s-controllers.md:148`, `k8s.md:316`). With two workers
  and an object created, deleted and created again, one worker finalizes the removed object a second time, from its DELETED event, and takes the
  finalizer off the new object, whose `finalize` was never called: TLC shows it when `FinalizedUnlessReused` asks for equality of uids.
  `control.go:1305` drops the cache entry before `on_delete`, so its retry finds nothing and counts as
  success (`k8s.md:326`). After a restart, children of a kind that is not in `watch_owned` and no longer returned are not pruned (`k8s.md:345`).
  A failing Get in `dispatch` counts the parent as gone.
- Runtime: `defer()` called by a deferred function, or by a callback after the body (`builtins.go:38`), puts its function on a list that is not
  taken again, and it is never run (`running.md:89`): TLC shows it when `UndisturbedRun` does not except `late`. The script may end, and end the process, while the signal goroutine is still running the deferred functions it took
  (`signals.go:88`, `running.md:89`). `inventory.filter` in an MCP tool takes CallSafe on a thread that holds `callMu`, and a SIGINT then waits
  behind it (`inventory/module.go:189`, `embedding.md:321`); called by a deferred function or a signal handler it waits for itself, and the run
  does not end. A second SIGINT behind a waiting signal is dropped. SIGHUP runs the Go cleanups under a script that goes on. Three mutexes guard callbacks,
  while the comment at `runtime.go:36-38` speaks of one. Handlers are looked up as `interrupt` or `terminated`; one registered as
  `SIGINT` is never called. `os.exit()` ends the process without deferred functions or cleanups. The controller's and the MCP
  server's signal channels run beside the runtime's, whose goroutine may exit the process while they still shut down.
- http server: serve() wakes up as soon as `Serve` returns (`server.go:215`), which is when `Shutdown` begins, and a second shutdown returns at
  once although the first still drains (`server.go:265-268`). After Ctrl-C the script therefore ends, runs its cleanups and exits while the signal
  handler waits for requests in flight (`server.go:178-179`, `191-192`): TLC shows it when a process that has exited is required to have nobody
  draining. A shutdown() called by a handler is cut short in the same way.
- Parallel work: an item reported as timed out may have committed. A callback that commits its own transaction and then raises a
  retryable error is run again. For a function that returns a plain value the result counts attempts differently from `retry.md:36`.
- known_hosts: the mutex belongs to a process, so a removal in one process drops an addition another makes between its read and
  its rename (`known_hosts.go:280`, `ssh.md:371`); a keyscan's save takes no lock. A stale lock is checked and removed in two steps. Where it cannot
  be removed, `acquireFileLock` tries for ever without a look at its deadline, with `knownHostsMu` held (`known_hosts.go:184`, `200`): TLC shows it
  when `CallsReturn` does not except `Stuck`.
- Module cache: an install keeps a directory that is already there whatever its state (`manager.go:132`), so one that a failed copy left half
  done (`manager.go:146`, a symbolic link is enough) is "already cached" to the next install (`manager.go:130`). A sync does not repair a torn one (`resolver.go:31-32`), and one that has nothing locked yet hashes a half-copied directory and locks that hash, which later loads match; a load reads the files before it verifies the tree (`docs/fundamentals/modules.md:130`); two
  concurrent installs copy over each other.
- Profiles: `--sandbox-exec-allow=git` also grants `/x/GIT` and `./git.bat`, on every system (`permissions.go:361-367`), where
  `sandbox.md:171` speaks of specific binary names. An endpoint in `--sandbox-net-allow` on top of `sandbox-net` narrows it. `exec.allow` of a configured profile based on
  `sandbox-path` or `deny-all` has no effect, as the inherited denial of everything wins; only the flag lifts it. A named profile with
  `--sandbox-enabled=false` still denies `os.exec`. The compiled `deny-all` grants `/tmp` and sqlite's `:memory:`, the list the
  suggestion reads does not. `--sandbox-read=/tmp` makes `/tmp` read-only and takes `:memory:` away, because a path named for reading is mounted
  before `/tmp` is added (`profile.go:505`). A wildcard in a path is a name to the mount and a pattern to the rules, and no parser refuses it; the model's
  paths are literal. A read-only mount over a path of `paths.write` becomes writable again with any path flag. Switching the sandbox on
  for `unconfined` gives a profile without mounts. `ResolvePermissions` is used by tests only.

## 6. Not modelled, and why

Inside the modelled components:

- `control.go`: the health server and the admission of options, which are sequential; more than one parent, and children of parents
  that share them, in `K8sReplicas`.
- runtime: the REPL, the test runner, Call and Eval, nested execution contexts and thread cancellation. They run one at a time around
  the same lists.
- http server: registration of handlers and middleware (refused while running) and handlers written in Go, which take no
  mutex; two servers of one script.
- concur: `each` and `exec` differ from `map` in what an item returns. retry: the backoff only delays. sql: query building, rows and drivers.
- ssh: connections, transfers and tunnels are network I/O. Hashing of host names stands for itself (`hashed`).
- module manager and loader: the fingerprint that lets a sync skip hashing (`resolver.go:214-222`); fetching from git, manifests and version constraints are inputs; the registry of built-in modules, circular
  loads and the per-thread cache are sequential code with unit tests.
- permissions and profiles: wording of hints and diagnostics; symbolic links and partial wildcards in a segment; several configuration files.

Whole components:

- The windows lease journal and the sandbox drivers: what they do is in access lists and kernel interfaces behind system calls.
- containers, k8s client modules, MCP: one request for each call; the state lives in the engine, the API server or the vendor SDK.
- The command line (but for the choice of the profile), fleet, data, file and process modules, and the tooling: no shared state, and conversions
  whose cases unit tests enumerate.

What a next step could add: `Runtime` composed with `HttpServer` instead of the reduced end of run; two keys with a shared child in
`K8sReplicas`.
