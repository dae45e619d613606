# Verification of the .NET tracer's core

TLA+ models of three parts of the Datadog .NET tracer:

- the way of a finished span from the application to the agent: the trace that
  collects spans (`TraceContext`), the writer that queues, serializes, buffers
  and sends traces (`AgentWriter`, `SpanBuffer`), and the limiter that decides
  how many traces are kept (`RateLimiter`);
- the native profiler that instruments methods while the CLR runs them: its
  callbacks and its ReJIT thread (`CorProfiler`, `RejitHandler`), and what it
  makes of the body of a method (`ILRewriter`, `CallTargetRewriter`);
- what then runs around an instrumented method: the begin and end handlers, the
  continuations of the tasks it returns, and the scopes they open
  (`CallTarget`, `ScopeManager`).

TLC checks them on small instances; TLAPS proves their safety properties, and
the refinement of the writer, for every number of threads, spans, traces,
modules, methods, calls and flows, every buffer size, and every body of a method.
Model-checked only are liveness, and what a rewritten method does when it runs.

Paths are relative to the repository root; `D` stands for
`src/Datadog.Trace`, `N` for `src/Datadog.Trace.ClrProfiler.Native`, `C` for
`src/Datadog.Trace.ClrProfiler.Managed/CallTarget`.

## 1. The system

| Part | State it keeps | Operations | Talks to | What makes it correct |
|---|---|---|---|---|
| Tracer (`D/Tracer.cs`) | settings, sampler, scope manager, agent writer | StartSpan, CreateSpanContext, Write, FlushAsync | all parts | one trace context per local trace; every closed chunk is written |
| Trace context (`D/TraceContext.cs`) | root span, closed spans, open count, sampling priority and its lock | AddSpan, CloseSpan, SamplingPriority, LockSamplingPriority | Tracer.Write, sampler | each finished span written once, nothing stranded, one priority told to everybody |
| Span (`D/Span.cs`) | tags, IsFinished | SetTag, Finish | trace context | closed once |
| Propagation (`D/SpanContextPropagator.cs`) | none | Inject, Extract | trace context | headers carry the locked priority |
| Agent writer (`D/Agent/AgentWriter.cs`) | queue, mutex, two buffers, active buffer, flush tasks, keep rate | WriteTrace, FlushTracesAsync, FlushAndCloseAsync, two background loops | span buffers, API, keep-rate calculator | no trace lost, duplicated, stranded or corrupted; calls return |
| Span buffer (`D/Agent/SpanBuffer.cs`) | bytes, offset, IsFull, _locked | TryWrite, Lock, Clear | formatter | never written while sent, never over its limit |
| API (`D/Agent/Api.cs`) | endpoint, cached response | SendTracesAsync with retries | transports, sampler rates | bounded retries, a faithful result |
| Keep rate (`D/Agent/MovingAverageKeepRateCalculator.cs`) | ring of buckets, sums | IncrementKeeps, IncrementDrops, UpdateBucket | agent writer | the window's sums match its buckets |
| Sampling (`D/Sampling`) | limiter window and queue, rules, agent rates | Allowed, GetSamplingPriority | trace context | limit respected up to concurrency, rate within [0, 1] |
| Scopes (`D/Scope*.cs`, `D/AsyncLocal*.cs`) | active scope per asynchronous flow | Activate, Close | spans, log correlation | a flow finds its scope as it left it, its logs carry the trace while there is one |
| Sub-process manager (`D/TracingProcessManager.cs`) | per process: handle, keep-alive task | start, restart, stop | OS | at most one instance, restarted while wanted |
| Log correlation, metrics, diagnostics (`D/Logging`, `D/DogStatsd`, `D/RuntimeMetrics`, `D/DiagnosticListeners`) | stacks and timers | event handlers | scopes | follow the active scope |
| Managed instrumentation (`C`) | one delegate per target type, the state of each call, whether the integration is disabled | BeginMethod, EndMethod, continuations; one adapter per library | scopes | the application's context and the outcome of its calls are what they were |
| Duck typing | caches of emitted code | proxy creation | adapters | transparent to the application |
| Native profiler: callbacks (`N/cor_profiler.cpp`, `N/rejit_handler.cpp`) | module and method tables, ReJIT queue, one lock | callbacks of the CLR, the ReJIT thread | CLR | each matching method is requested once, rewritten with what was registered for it, never inlined; Shutdown drains and returns |
| Native profiler: rewriting (`N/il_rewriter*.cpp`, `N/calltarget_tokens.cpp`, `N/cor_profiler.cpp`) | a list of instructions per rewrite | Import, insertions, Export | CLR | the body is valid and the method does what it did |
| Native profiler: metadata and integrations (`N/clr_helpers.cpp`, ...) | none | parsers | - | not part of the state |
| Adapters, tools, build, samples, vendored code | - | - | - | not part of the running core |

Interaction on the main path: application threads start and finish spans; the
close that brings a trace's open count to zero (or triggers a partial flush)
calls `Tracer.Write`, which calls `AgentWriter.WriteTrace`. That enqueues the
trace and, if needed, sets an event. The serialization thread drains the queue
into the active of two buffers and swaps them when one refuses. The flush loop,
any number of `FlushTracesAsync` calls and the forced flush of
`FlushAndCloseAsync` lock, send and clear buffers. After the serialization
thread has ended, application threads run its code themselves.

On the other path: the CLR announces each module; the profiler looks for
methods an integration matches, registers them in tables and enqueues one
request. The ReJIT thread hands requests to the CLR, which compiles the methods
again when they are next called and asks the profiler for their bodies. The
rewritten body calls `CallTargetInvoker.BeginMethod` first and `EndMethod` in a
finally. The handlers open and close scopes, and put a continuation between the
caller and the task the method returns.

What is hard here: two background loops and arbitrary application threads with
almost no common lock; state read before an await and used after it (the active
buffer, the stored flush task, the trace count); an event that is tested, set
and reset by different threads; the live byte array handed to an asynchronous
send; a close that may time out and overlap with everything. In the profiler:
callbacks on any thread that use tables after they gave the lock back, or
without it; identifiers of modules that the CLR uses again; a shutdown that
joins a thread under the lock. In the rewriter: branches that grow and move,
clauses whose order decides which handler runs, and methods that must behave
the same whoever throws. Around a method: hooks that throw between opening a
scope and restoring it, and continuations that run elsewhere and later.
PROJECT.json lists the hazards line by line.

## 2. The modules

| Module | What it is |
|---|---|
| `SpanBuffer` | The pure operations of one buffer. |
| `AgentWriter` | Every thread and task of the writer, statement by statement where they meet. |
| `AgentWriterProperties` | Types, invariants, liveness, the refinement mapping, and one claim of a comment. |
| `AgentWriterInvariants` | The strengthenings that make the invariants inductive. |
| `TraceDelivery` | The abstract specification: what becomes of a trace. |
| `AgentWriterProofs` | Type correctness; the theorems about locks, monitors, wake-ups and full marks; conservation of traces and the counts of the keep rate. |
| `AgentWriterDeliveryProofs` | The refinement of `TraceDelivery`, and what a swap, a flush, a request and a close leave behind. |
| `TraceContext` | One local trace under concurrent spans, and its properties. |
| `TraceContextProofs` | Its theorems. |
| `RateLimiter`, `RateLimiterProofs` | The sampler's rate limiter under concurrent callers, its properties and theorems. |
| `RejitHandler` | The tables of the ReJIT handler, its queue and its thread's steps. |
| `CorProfiler` | The callbacks on the threads of the CLR, composed with `RejitHandler`. |
| `CorProfilerProperties`, `CorProfilerInvariants` | What the profiler promises; the inductive invariant. |
| `CorProfilerProofs` | Type correctness and the safety theorems. |
| `ILRewriter` | Import, Export and the widening of branches of a method body. |
| `CallTargetRewriter` | What the CallTarget rewrite inserts into a body, and its clauses. |
| `MethodExecution` | How the CLR runs a body: instructions, leave, exceptions. External. |
| `InstrumentedMethod`, `RewrittenMethod` | A method that is instrumented, and what is promised of it; its steps: it runs, is rewritten, and runs again. |
| `ILRewriterInvariants`, `ILRewriterProofs` | What holds of the rewriter's list between two edits; what Import, insertions, widening and Export make of it. |
| `RewrittenMethodInvariants`, `RewrittenMethodProofs` | The inductive invariant of the callback; its theorems. |
| `MethodBodies` | The bodies TLC tries. |
| `ScopeManager` | The active scope and the log enricher of each flow. |
| `CallTarget` | The handlers and continuations around instrumented methods, with the application's blocks, composed with `ScopeManager`. |
| `CallTargetProperties` | What instrumentation promises, and what makes that inductive. |
| `CallTargetProofs` | Type correctness and the safety theorems. |
| `MCAgentWriter`, `MCTraceContext`, `MCRateLimiter`, `MCNativeProfiler`, `MCRewrittenMethod`, `MCCallTarget` | Values and symmetry for TLC. |

### AgentWriter against the code

A thread, task or call is a record with a `pc` that names the next statement
touching shared state. Each action is one such statement with the local work
around it.

| In the model | In `AgentWriter.cs` |
|---|---|
| `pendingTraces`, `serializationMutex`, `processExit`, `activeBuffer`, `temporaryBuffer` | the fields of these names; the queue holds traces and watermarks (a watermark is named by its caller) |
| `writer[w]` | the frame of `WriteTrace` and `SerializeTrace`, in an application thread or the serialization thread |
| `serializer`, `hasDequeuedTraces` | `SerializeTracesLoop` |
| `buffer[b]`, `monitor[b]` | `_frontBuffer`, `_backBuffer`; who is inside `TryWrite` |
| `flushTask[b]` | `_frontBufferFlushTask`, `_backBufferFlushTask`: the flush whose task is stored, or `NoThread` for a completed one |
| `flusher[f]` | a `FlushBuffers` frame: of the loop, of a `FlushTracesAsync` call, of the close |
| `forceFlush`, `loopPc` | `_forceFlush` and `FlushBuffersTaskLoopAsync`; a writer that has read a source which the loop then replaces goes from `complete` to `stale` |
| `call[c]`, `close` | `FlushTracesAsync`, `FlushAndCloseAsync`; `before` is a history field, the traces written before the call |
| `keeps`, `drops` | what the keep-rate calculator is told |
| `outcome` | history: sent, rejected (the API gave up), dropped (no room), thrown (the formatter threw) |

Abstractions, and why they are harmless:

- A trace is one model value with a size; its bytes are copied as a whole. That
  two application threads overwrite each other's temporary bytes shows as one
  copying the other's trace (`torn_copy`); a mixture of both is not
  represented.
- `TryWrite` returns false when its monitor is taken or the buffer is locked,
  without being marked full. Only the serialization of the trace and the copy
  are separate steps, because the temporary buffer is shared between buffers.
- `FlushBuffer` runs synchronously up to the first await that does not complete
  at once. The task that `InternalBufferFlush` returns is stored after it was
  created, in a step of its own.
- The API's answer is chosen from `ApiResult`; false covers an exception, since
  both count the traces as dropped.
- Delays of one and twenty seconds may elapse at any time they are awaited; the
  step of `LoopWakes` is the elapsed second or what ends the wait before it.
- A formatter throws before it has touched the buffer, and does so inside
  `TryWrite` (`Unserializable`).
- Left out: statsd counters, the keep-rate tag on the root span, the `Flushed`
  event of the tests, `Ping`, `automaticFlush: false` (a test mode without the
  flush loop), and the .NET 4.5 build's completion of a task source on a thread
  pool thread.

### TraceContext against the code

`AddSpan` and the middle of `CloseSpan` run under the trace's lock and are one
action each. The setter is three steps (the span's IsFinished test, the test of
the lock, the store), injection two (lock, read), and the close of the root
locks the priority and reads it for the metric before it takes the lock.
`state` is each span's life, `written`, `headers` and `overtaken` are history.
`AddSpan` may be one step because no other thread knows a trace whose root has
not been added. The parent's priority is taken over when the context is created
(`Tracer.CreateSpanContext`), as the code does with an object initializer.
Global tags with a sampling meaning, and `TraceEnabled = false`, are left out.
A chunk of a partial flush without the root carries no priority metric; the
model says no more than the code about what the agent makes of that.

### RateLimiter against the code

Each action is one statement of `Allowed` or `WaitForRefresh`; the fields keep
their names. An entry of `intervalQueue` also names the trace it was enqueued
for, and `admitted` keeps every entry as history, so that a property can count
what a window held after the entries have been removed. `clock` only moves
forward (a `DateTime.UtcNow` that is set back is not modelled) and stops at the
bound `MaxTime`. A `ConcurrentQueue` operation is one step. Limits of zero and
below return before any state is touched and are left out, as is
`GetEffectiveRate`: its result is only sent as a metric.

### RejitHandler and CorProfiler against the code

A callback of the CLR is a thread with a `pc`; a step is what the callback does
between two points where another thread may intervene. `lock` is
`module_id_to_info_map_lock_`.

| In the model | In the code |
|---|---|
| `modules`, `metadata`, `methods`, `described` | `m_modules`, and of each module handler `m_metadata`, the keys of `m_methods`, and the methods with a function info and a replacement |
| `queue`, `popped`, `rejitThread` | `m_rejit_queue`, the item taken, `m_rejit_queue_thread` |
| `infoMap`, `managedLoaded`, `firstJit`, `isAttached` | `module_id_to_info_map_`, `managed_profiler_loaded_app_domains`, `first_jit_compilation_app_domains`, `is_attached_` |
| `Load*`, `Unload*`, `Jit*`, `Inline*`, `Shutdown*`, `ManagedProfilerLoaded` | `ModuleLoadFinished` with `CallTarget_RequestRejitForModule`, `ModuleUnloadStarted`, `JITCompilationStarted`, `JITInlining`, `Shutdown`, `AssemblyLoadFinished` |
| `Rejit*` | `GetReJITParameters`, `NotifyReJITParameters`, `CallTarget_RewriterCallback` |
| `clrModule`, `loads`, `targets`, `toCompile`, `managedIn` | the CLR (external): a module is announced once, is not unloaded while one of its methods is compiled, and its identifier may be used again |

A `ModuleMetadata` object is named by the load it was made for, so that a stale
one is told from that of a later module with the same identifier. Which methods
an integration matches is any set. A use of a freed object is recorded in
`faults` and the callback then does nothing more; what really happens is
undefined, and no property speaks of what follows it but `LockProtects`, which
says where it can happen. A load is one of three things under the lock
(`LoadLocked`): its metadata is stored, or it is the managed loader, whose domain
is marked in `firstJit` so that no startup hook is inserted there, or it is
skipped. `loaderIn` is history: the domains so marked. Left out: the call-site
mode, the domain-neutral flag and with it the domain of the core library,
`ProfilerDetachSucceeded`, and what is read from metadata.

### Rewriting against the code

`Import`, the two parts that `InsertBegin` and `InsertEnd` add, the loop over
the returns, `AddClauses`, `Widen` and `Encode` follow `ILRewriter::Import`,
`CallTarget_RewriterCallback` and `ILRewriter::Export`. An instruction keeps its
place, size, operation and operand; a `block` stands for instructions that
neither branch nor touch the stack they find. Exported branches are distances,
so that a wrong one leads somewhere else in `MethodExecution`, which runs a
body: evaluation stack, locals, `leave`, catch and finally by the order of the
table. A run of the original body makes choices (a block throws, a branch is
taken, a hook throws or answers another value); the rewritten body replays those
of the original code and makes its own in the hooks. Tokens, signatures and
types of the inserted code are left out, as are `tail.` calls, filters in the
application's own code, and the output buffer (ten bytes for each instruction,
which is always enough). The result of `ModifyLocalSigAndInitialize` is ignored
by the code; the model has it succeed.

A body is valid in two ways. `BodyValid` says what the encoding shows: branches
lead where they led in the list, and the body is as `WellFormed` as the one that
was imported, with clauses that begin and end at instructions, their try before
their handler, and that are nested. `SameBehaviour` says what a run shows: nothing is taken from
an empty stack, and the stack stays within what the header announces.

### ScopeManager and CallTarget against the code

`active` and `enricher` are `AsyncLocal` values, one per flow; `Fork` copies
them, as an `ExecutionContext` does. `Activate` and `Close` are
`ScopeManagerBase` 30-88 with the event handlers that register and clear the log
enricher. `stack[f]` are the calls and blocks a flow is in; `state[c]` is the
`CallTargetState` that `BeginMethod` returned. The five ends of a call are the
integration being disabled, `OnMethodEnd`, `OnAsyncMethodEnd` called in place for
a task that has run to completion, a continuation put on the task, and a hook
that throws. `Continue` is one of the three continuation generators.

- A fault in place is an exception the method throws. A task that is already
  faulted when it is returned gets a continuation in the code too, and counts as
  a pending one that ends next.
- Continuations run in a copy of the caller's context, which nobody reads
  afterwards: of what they do to scopes, only the end of the span is kept.
- The enricher that a continuation disposes is that of its own flow; the
  logging libraries keep their contexts per flow, so the model does too.
- A using block or a call is entered once. A scope that a continuation or a
  forked flow closes is the application's own (`CloseInherited`).
- `inherited`, `threw` and `upset` are history: where a flow began, which hooks
  threw, and which flows a failing hook has left a scope in. A flow goes to
  `upset` when a hook has thrown between opening a scope and returning, when the
  integration is disabled between begin and end, or when a task's end handler
  restores from the state of a begin that threw.

## 3. The runs

Deadlock checking is off, except in `coalesce`: the bounded sets of traces,
calls, spans and loads run out, and the system then rests.

| Run | Instance | Shows |
|---|---|---|
| `handover` | 2 application threads, 4 traces of which one throws, 2 traces per buffer, send may fail | No wake-up, trace, request or full mark is lost between queue, swap and flush: `NoLostWakeup`, `EveryTraceInOnePlace`, `FallbackNotStranded`, `FullMeansNoRoom`, `PayloadStable`, `RequestNotLost`, `TypeOK` |
| `flush` | 1 application thread, 1 `FlushTracesAsync`, 2 traces of which one throws, 1 per buffer | Two flushers never share a buffer and the call leaves nothing behind: `LockHasOneOwner`, `FlushLeavesNothingBehind` |
| `close` | 1 application thread, 2 traces, `FlushAndCloseAsync` | `RatesAccountForTraces`, `CloseLeavesNoBufferBehind`, and `ImplementsDelivery` (the writer implements `TraceDelivery`) |
| `progress` | 1 application thread, 1 trace, 1 flush call or a close, fairness | `EveryTraceSettles`, `FlushTracesCompletes`, `CloseStopsTasks` |
| `torn_copy` | 2 application threads, close | violation of `CopiesOwnTrace` |
| `flush_hangs` | 1 flush call, close, fairness | violation of `FlushTracesCompletes` |
| `spans` | 3 threads, 3 spans, partial flush of 2 | `SpansInOnePlace`, `OpenSpansExact`, `NoneStranded`, `OnePrioritySent`, `TypeOK` |
| `limit` | 2 threads, 5 traces, limit 2, interval of 1 tick, 4 times | `LimitHolds`, `RefreshEffective`, `CountedOnce`, `TypeOK` |
| `propagated` | 1 thread, 2 spans | violation of `PropagatedPriorityLocked` |
| `instrument` | 2 CLR threads, 2 module identifiers, 2 loads, 1 method, 1 domain; 14 bodies, up to 4 free choices; fairness | Of the callbacks `RequestedOnce`, `ShutdownDrains`, `RewrittenAsRegistered`, `TargetsNotInlined`, `LockProtects`, `HookedOnce`, `CallbacksReturn`, `RequestsMade`, `TypeOK`; of the rewriter `SameBehaviour`, `HooksPaired`, `BodyValid`, `Completes` |
| `calls` | 2 flows, 2 instrumented calls of any kind, 1 block | `ContextKept`, `OutcomeKept`, `SpanFinishedFirst` |
| `coalesce` | one body, `return x ?? y` | violation of `SameBehaviour` |

Why these bounds. One trace more than a buffer takes forces a swap; a full pair
of buffers needs no more than that while one is being sent. In `handover` and
`flush` another one throws when it is serialized; beside a close that would be
too much for TLC, and the proofs cover it (`RatesExact`, `Refinement`,
`CloseComplete` hold for any `Unserializable`). Two application
threads are enough to race on the event and, after the close, on the shared
temporary buffer; a third would repeat the second. Two flushers race for a
buffer's task and lock: the loop with a call, or the loop with the close. One
`FlushTracesAsync` call is enough for its promise, which is about one call. Three
spans with a partial flush of two give a partial flush, a last close, and a
span added after the trace was written. Five traces against a limit of two let a
window fill beyond the limit by a race, expire, and fill again; four times hold
two windows that do not overlap. The proofs cover the rest.

In `progress` there is a flush call or a close, but not both (`NextApart`),
because a call beside a close may hang (`flush_hangs`).

In `instrument` two loads with two identifiers give both a module that is loaded
beside another, and an identifier that is used again; the modules are alike, so
the first one loaded may be called m1 (`StartsWithM1`; symmetry itself is not
sound with liveness). Two threads are enough for every pair of callbacks to
meet. The callbacks and the rewriter share no state, so a behaviour of that run
is of one of the two (`part`). The bodies are those a C# compiler emits for if,
loops, switch, try with catch and finally, throw, and branches just short of and
just beyond the reach of a short one, before and after the insertions. With
`FastPathCount = 2` a method of two arguments takes the path that nine take in
the code. `MaxChoices` ends the loops. In `calls` one call may be inside the
other, inside the block or around it, or in the other flow, which is forked from
the first or stands alone.

Both bounds of the rate limiter are exact: with `Cardinality(Thread) - 2` in
`LimitHolds`, or `Cardinality(Thread) - 1` in `RefreshEffective`, TLC finds a
violation. The effective rate itself can exceed 1: a check may be lost in the
reset while the trace it admitted is counted after it. No comment or test says
that it cannot, so this is noted and not listed as a finding.

`EveryTraceInOnePlace`, `FallbackNotStranded` and `RatesAccountForTraces` are
stated while at most one thread can be in `SerializeTrace`: the violation of
`CopiesOwnTrace` shows that they fail beyond it. `OnePrioritySent` exempts a
set that passed its test of the lock before the lock was taken (`overtaken`):
the setter's test and store are not atomic.

`RequestNotLost` is stated until the first `FlushTracesAsync` call comes to its
flush, and for traces that fit an empty buffer. Such a call may delay the flush
of a full buffer to the loop's next second: the loop that meets a buffer the
call has locked is through with both; the other one fills meanwhile, and the
swap finds the first still full, so that the trace is dropped and nobody asks
for a flush. A trace that fits no buffer marks an empty one full. In both
cases what is in the buffer is sent when the delay has elapsed.
`CloseLeavesNoBufferBehind` says nothing of a close whose last flush timed out,
but holds whether or not the flush loop has ended.

### Fairness

`FairSpec` is weak fairness of each thread and task that is inside a call: the
serialization thread, the flush loop, each flush under way, each call that has
begun. No thread must ever begin a call. The .NET thread pool and OS threads
justify it. The flush loop must end its wait (`LoopMustWake`): until the close
because the one-second delay elapses, and after it only once the forced flush is
set or the serialization thread has ended, so that a close never owes its end to
a delay. The API ends a send because its retries are bounded (`Api.cs` 51-108).

In `instrument` the ReJIT thread goes on, and so does each callback that has
begun; the CLR need never call anything. The rewriter and the rewritten method
go on until they return. `CallTarget` states no fairness: nothing is promised
about when a task of the application ends.

### What the violations show

- `torn_copy`. The comment at `AgentWriter.cs:49` rests thread safety on the
  serialization thread alone changing the active buffer. After it has ended,
  `WriteTrace` lets every application thread run `SerializeTrace`; two of them
  share `_temporaryBuffer`, and one copies what the other serialized.
- `flush_hangs`. `FlushTracesAsync` checks that the serialization thread is
  running, then enqueues a watermark. If that thread makes its last pass over
  the queue in between, the awaited task never completes.
- `propagated`. `AddSpan` means to lock the priority of a propagated trace, but
  `CreateSpanContext` has already stored it, so the branch is never taken.
- `coalesce`. For a method that returns a value the rewriter stores the value in
  front of each RET and turns the RET itself into a LEAVE_S. A branch that names
  the RET passes the store: the method returns the default value. The bodies of
  `instrument` have no such branch.

More disagreements were met while modelling and are given no run.

`Tracer.ForceFlushAsync` is documented (`Tracer.cs` 375-380) to flush pending
traces and send them, yet a flush whose `Lock` fails overwrites the stored task
of the flush that is still sending, so the call may return while a trace is on
its way. `FlushLeavesNothingBehind` therefore says "settled or under way".

In the native profiler:

- `ModuleUnloadStarted` takes the domain of any module it unloads out of
  `managed_profiler_loaded_app_domains`, not only that of the managed profiler's:
  later rewrites in the domain are skipped with a log that says the managed
  profiler has not been loaded (`CorProfilerProperties!ManagedProfilerKnown`,
  which no run checks).
- `GetReJITParameters` and `JITInlining` use the handler without the lock.
  `LockProtects` says that this meets freed objects only once Shutdown has
  joined the ReJIT thread; between the clearing of the modules and the end of
  Shutdown, targets may be inlined.
- A request for a module that is gone, whose identifier is in use again, makes
  `NotifyReJITParameters` add a method without a function info; the rewriter
  refuses it (`RewrittenAsRegistered`).
- `JITCompilationStarted` marks a domain before it inserts the startup hook, so
  an insertion that fails is not tried again.
- `ModuleMetadata::GetCallTargetTokens` (`N/module_metadata.h` 121-128) creates
  its object without a lock.

Around instrumented methods:

- A cancelled `Task<T>` never reaches the integration's hook, and its caller
  sees a fault with an `AggregateException`; a cancelled `Task` becomes one that
  succeeds. The comment at `TaskContinuationGenerator.cs:78` speaks of rethrowing
  the original exception. `OutcomeKept` and `SpanFinishedFirst` exempt both
  (`CancellationLost`).
- When the begin hook of a method that returns a task throws, the end handler
  restores the scope of a default state: none. When an integration is disabled
  during a call, the call's scope stays active. `ContextKept` exempts flows it
  has happened to (`upset`).
- `CallTargetInvokerException` is only thrown in static constructors and so
  arrives wrapped in a `TypeInitializationException`: the test in
  `IntegrationOptions.LogException` does not see it.

## 4. The proofs

Assumptions: `SizeAssumption` (sizes are natural numbers, the limit is at least
the header), `ThreadAssumption` (threads, tasks and traces are told apart),
`TraceAssumption` (spans of one trace are finite in number, a sampler always
answers), `LimiterAssumption` (finitely many threads, a positive limit),
`RejitAssumption` and `ProfilerAssumption` (null values are no modules, methods
or threads; each module has a domain), `ScopeAssumption` and `CallAssumption`
(scopes are named by the calls and blocks that open them). `MethodsAssumption`
says that the CLR accepts a method before it is rewritten (`WellFormed`): its
instructions do not overlap, its branches and clauses lead to the start of one,
of two clauses the earlier is inside the other or apart from it. It is a
hypothesis of the rewriter's theorems, and `CompiledAssumption` and
`BodyAssumption` say it of the bodies that TLC tries. TLC evaluates all of these
in the runs of their modules.

| Theorem | Inductive invariant | Why it is needed |
|---|---|---|
| `AgentWriterProofs!TypeCorrect` | `Typed` = `TypeOK` + frames hold what their next statement uses | `Head` of a flush frame's buffer list, and the trace of a thread that is about to write |
| `OneOwner`, `PayloadUntouched` | `Exclusive` = `MonitorExcludes` + `FlusherFree` + `LockHasOneOwner` + `PayloadStable` | a thread between serialization and copy keeps the lock out by its monitor; a flush frame is free when its owner starts a flush |
| `WakeupKept` | `Awake` | `NoLostWakeup` from the moment the thread is bound to wait, and that the thread drains before it decides |
| `FullMarkTruthful` | `FullMeansNoRoom` itself | a write only takes room away; only `Clear` gives it back, with the mark |
| `TracesConserved`, `RatesExact` | `OneAtATime` = (`SingleWriter` implies `CopiesOwnTrace` + `Conserved` + `Accounted`), with `Base` and `Orderly` = `HandsEmpty` + `TurnsTaken` + `MonitorHeld` | with one thread in `SerializeTrace` the bytes copied are its own trace's; a thread outside has no trace in hand; application threads take over only when the serialization thread has left |
| `Refinement`, `RefinementOneThread` | `Landed` = `SendsSomething` + `ClearsSettled` | a batch is a buffer being sent, so it must not be empty, and what is cleared must have its outcome |
| `FallbackDrained` | `SwapInOrder` + `NotStranded` | the writer works with the active buffer, and leaves only one that is full, locked or empty |
| `FlushComplete` | `FlushInOrder` = for each call `CallInOrder`, and `OnlyLoopChooses` | the watermark is behind the caller's traces, so they are in buffers when the flush starts; of the buffers it has passed none keeps one of them that nobody is sending |
| `CloseComplete` | `CloseInOrder` | the same from the last drain on, although application threads serialize beside it and copy one another's bytes: `_temporaryBuffer` no longer holds an earlier trace then |
| `RequestKept` | `Requested` = `RequestMade` + `LoopFollows` + `RetryFits`, with `LoopTidy`, `OffsetOK`, `CloseFlushWaits` | a flush that ends at a buffer that is no longer the active one has a request behind it; the buffer swapped in has room or is being sent |
| `TraceContextProofs!TypeCorrect`, `CountIsExact` | `Accounting` = types + `OneCloser` + `OpenSpansExact` | the count is not negative because it is a cardinality; a span is closed by one thread |
| `NothingStranded` | with `Accounting` | the count after `AddSpan` is not zero |
| `SpansConserved` | `Placed` = `Kept` + `Apart` + `Unrepeated` + `ChunkInWrite` | existence and uniqueness of a span's place apart, since each step disturbs one of them |
| `OnePriority` | `ToldOnlyWhenLocked` | nothing is told before the lock, and only an overtaken set changes the value after it |
| `RateLimiterProofs!LimitIsKept` | `IInv` = types + `OneRefresher` + `PastTimes` + `HeadExpired` + `YoungQueued` + `RoomForPassed` + `WindowBound` | entries leave the queue only when they are older than the interval, so while a window is open all it admitted is in the queue; the queue and the threads past the test together stay under the bound; a thread counts for a window from its timestamp on |
| `CountsExact` | `CountInv` = `OwnTrace` + `AdmittedAsked` + `ChecksBound` + `AllowedBound` | a call in progress is one that no counter has seen yet; while the counts are being shifted, each alone stays under the bound |
| `OldEntriesLeave` | `LateInv` = `FewBehind` + `FewAfterRefresh` + `QueuePast` + `FreshCall` | behind any entry, the older ones come from threads that had their timestamp when it entered, one from each; those threads and the entries are counted together |
| `CorProfilerProofs!TypeCorrect` | `Typed` = types + frames have the arguments their step uses + `OneLoader` + `LoadsCounted` | a callback uses the module it was called with, which the CLR keeps until it returns |
| `RequestsInOnePlace` | `RequestsTracked` with `Serialized` | places in the queue are told by position; a load is enqueued once, at the end of its callback, and there are no two callbacks for it |
| `DrainedByShutdown` | `EndsQueue` = the end item is last, and only while a Shutdown holds the lock | nothing is pushed behind it because pushing takes the lock |
| `RewritesMatch` | `InfoKept` + `DescribedAsMatched` | the metadata found under the lock still belongs to the module when it is used, because the CLR does not unload it meanwhile; a method is described for the load that registered it |
| `TargetsStayOut` | `TargetsFound` | every target of a module that is in use is in the tables until they are cleared |
| `FreedNotUsed` | `Lives` + `LockProtects` | who holds the lock while attached finds a live handler |
| `HookInsertedOnce` | `HookMarked` | a mark is set, and found missing, only under the lock; who is about to insert a hook holds it, so no load of the managed loader comes between |
| `RewrittenMethodProofs!BodiesValid` | `IInv` = `MethodGiven` + `RewriterInPhase` (`RewriterOK`, `BeginInFront`, `EndBehind`) + `BodyValid` | from one edit to the next branches and clauses name instructions in the list, each once, and by their places the clauses are nested, begin and end outside the targets of a switch (`StartsOK`); the parts the callback inserts have no switch, and lie in front of and behind every clause of the method, so that the clauses it adds enclose them; places become offsets only when the last pass has encoded every distance |
| `LoopsProgress` | the same | a return is replaced by instructions that are none, and no instruction is made short: neither loop of the callback goes on for ever |
| `CallTargetProofs!TypeCorrect` | itself | - |
| `ContextSurvives` | `FlowKept` with `OncePushed`, `FlowsIdle`, `BlocksMarked` | every frame, not only the last, holds what is under it: the parent of its scope and the scope its begin read, so that ending the innermost restores the right one; a frame is on one stack once, so no other step changes it |
| `OutcomeComesThrough`, `SpanIsFinishedFirst` | `CallLife` | the caller sees the end of a task once: from the method, from the task, or from the continuation |

Each step lemma treats one group of actions, and the theorem combines them
with temporal reasoning only in its last step.

`Refinement` is stated of behaviours in which `SingleWriter` always holds:
beyond it a trace can be copied twice or not at all (`torn_copy`), and the
writer does not implement `TraceDelivery`. The condition is no assumption about
the code: with one application thread it always holds (`RefinementOneThread`),
and with any number until the serialization thread ends. `TracesConserved`,
`RatesExact`, `FallbackDrained` and `RequestKept` need no such hypothesis,
because their properties say when they apply.

`BodiesValid` is about any method the CLR accepts, of any size, and so about what
the recursive definition of the offsets computes for any list (`OffsetsAdd`).
Such facts are proved from the least element of a set of naturals
(`ILRewriterProofs!Least`): of the places where the fact fails there would be a
first, and at the one before it the definition gives the fact for the next.

Only model-checked:

- `SameBehaviour` and `HooksPaired`, about what `MethodExecution` does with the
  bodies. `SameBehaviour` is not true of every body that is well formed
  (`coalesce`). A proof would need the typing of stacks that the CLR verifies,
  and a simulation of the original body by the new one: the bodies of
  `instrument` are what is known.
- Everything temporal but the refinement and the action properties: liveness
  under fairness (`EveryTraceSettles`, `FlushTracesCompletes`, `CloseStopsTasks`,
  `CallbacksReturn`, `RequestsMade`, `Completes`) is outside what TLAPS proves
  here. `LoopsProgress` is the part of `Completes` that is about the callback,
  short of the fairness.

The strengthenings named in the table are proved and are no properties of runs,
as is `TypeOK` of `CallTarget`.

## 5. Not modelled, and the plan

What is left, in order:

1. `KeepRate`: the ring of buckets against the sums, with counts capped at the
   width of their type; `ApiRetry`: the bounded retries under an agent that may
   have received a request that timed out.
2. A second `FlushAndCloseAsync` beside the first.
3. `Tracer`: `TraceContext` composed with `AgentWriter` through `WriteChunk`,
   refining one abstract specification of what becomes of a span.
4. Smaller modules: `BufferGrowth` (the doubling loop with 32-bit
   arithmetic), the sub-process manager, the command cache.
5. The call-site mode of the native profiler, and detaching.

Proofs still wanted: the stack that the header announces, for bodies with the
stack typing of the CLR; and `RequestNotLost` with
traces that fit no buffer.

Out of reach or without state worth modelling: one-to-one integrations and the
IL that duck typing and the integration mapper emit, parsers of signatures,
versions and configuration, transports (I/O), vendored and generated code,
installers, build scripts and samples. Most of the C and C++ in the repository is
the vendored headers of the CLR (`N/lib`); the profiler's own code is a small
part of it.
