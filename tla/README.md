# A TLA+ verification project for AgentC

AgentC is a C++ runtime for the Edict language: a slab allocator with
checkpoints and file-backed slabs (`core/alloc.*`), the Listree data structure
built on it (`listree/`), the Edict compiler, virtual machine and REPL
(`edict/`), a logic engine (`kanren/`), an FFI layer (`cartographer/`), an LLM
agent runtime with persistent sessions (`cpp-agent/`), an event hub
(`markethub/`) and *Root 1*, the coordination of micro-VMs over eventfd and
epoll (`core/root1_resource_broker.*`, `edict/root1_*`,
`edict/edict_worker_*`). This directory models the parts whose correctness
depends on order (of threads, processes, callbacks, rollbacks, restarts, or of
the instructions of a program), checks them with TLC and proves most of their
safety properties, for every size of the system, with TLAPS. All paths below are
relative to `src/`.

1. [Inventory](#1-inventory)
2. [Modules](#2-modules)
3. [From the code to the modules](#3-from-the-code-to-the-modules)
4. [Runs and bounds](#4-runs-and-bounds)
5. [Fairness](#5-fairness)
6. [Proofs](#6-proofs)
7. [Where the code differs from what is said of it](#7-where-the-code-differs-from-what-is-said-of-it)
8. [What is not modelled](#8-what-is-not-modelled)
9. [Plan](#9-plan)

## 1. Inventory

For each part: its state, its operations, what makes it hard, what makes it
correct. `PROJECT.json` lists the same parts with their status, and every
hazard at its line.

### Root 1, the coordination of VMs

**Resource broker** (`core/root1_resource_broker.*`). State: a word per
resource with the owner's id and a contended bit, a queue of waiters per
resource, leases with the tick they expire at, and per participant a bounded
ring of mailbox descriptors, a list of broker events, an eventfd and perhaps a
pidfd. Operations: register, acquire (with or without queueing), release,
register and renew a lease, heartbeat, recover expired leases, recover a
participant or a resource, send, drain, attach a pid, poll. Hard: `tryAcquire`
runs without the mutex, also between the steps of `acquireOrQueue`;
`recoverExpiredLeases` gives it up between collecting
and recovering; `epoll_wait` runs before it is taken, so a batch of events may
be old; rings are full at times. Correct when the word and the queue agree, no
waiter is passed over or forgotten, no wakeup is lost, and nobody loses a
resource through somebody else's lease.

**Publication registry** (same files). State: layer leases and the descriptor
published under each. Operations: lease, renew, register, retire, look up,
recover what expired. Hard: `registerPublication` validates a manifest before it
takes the mutex. Correct when a layer shows one span: nothing, epochs of its
owner that never fall, nothing for ever.

**Coordination slab** (same files). State: a mapped file of participant slots,
each with its ring, and resource slots; a process's table of whom it knows.
Operations: map, register, reconstruct, allocate a slot, send, poll and drain.
Hard: the file outlives the broker, the ids and the eventfds do not. Correct
when a known participant has its own slot and its waiting mail is announced.

**Await scheduler** (`edict/root1_await_scheduler.*`, wired up in
`edict/main.cpp`). State: a table of parked continuations, an index from
participants to handles, the copy a session saves. Operations: park, poll and
resume, time out, cancel, drop, save, load. Hard: a resume callback runs the VM,
which parks again inside the poll; descriptors arrive meanwhile; a restart
replaces the table but not the mailboxes or the callbacks. Correct when a parked
continuation can always be found, ends once, and is resumed when its participant
is readable.

**Intern jobs** (`edict/edict_worker_primitives.cpp`,
`edict/edict_worker_runtime.cpp`). State: a table of jobs with a join slot, a
cancellation token and an abandoned flag each, counters, a broker of its own.
Operations: start with a limit, cancel, drain, collect, drop; a detached thread
per job runs its program in the thread or in a child process. Hard: slot, token
and flag are read and written outside the mutex. Correct when every job is
accounted for, limits hold, what a caller was told of an end stays true,
cancelled jobs end and ends are announced.

**Root 1 words** (`edict/edict_root1_primitives.cpp`). State: a static broker
and a table of resources, one word per handle. Operations: create, register,
acquire, release, lease, heartbeat, recover, send, drain, poll, await. Hard: a
handle's word belongs to the handle, waiters and leases to its key. Correct when
what a word told the program is what the broker holds.

### Memory and persistence

**Slab allocator and CPtr** (`core/alloc.h`). State: slabs with a count and a
reference count per slot, an allocation log, a stack of checkpoints with
watermarks, slots protected from reuse, a backing policy and mapped files.
Operations: allocate, retain, release, assign, checkpoint, commit, roll back,
and the helpers of save and load. Hard: two ways to roll back, chosen by what
happened since; a count that decides when a slab is deleted and is kept in three
different ways; a crash between any two steps. Correct when a live slot is never
lost with something else, a rollback brings back exactly its checkpoint and a
saved root survives.

**Blob allocator and host transactions** (`core/alloc.h`,
`edict/edict_vm_core.cpp`). State: byte slabs with a fill level and their
checkpoints; the transactions a host has opened on a VM, each with copies of its
stacks. Operations: allocate, roll back, commit, map, flush; begin, roll back
and commit a transaction, speculate. Hard: a rollback must free what came since
and nothing else, in every arena at once. Correct when a rollback undoes what
happened since its transaction began, and that alone.

**Session state store and image store** (`cpp-agent/runtime/persistence/`,
`core/alloc.*`). A session is saved as an image, by a copy above the watermarks
under a checkpoint and a rewrite of its directory, or file-backed, by flushing
mapped slabs and rewriting slab 0, the root anchor and the bootstrap. Hard: a crash
between any two files, written or removed; a snapshot of a heap that goes on being used.
Correct when a start finds one save and nothing of another, never one older than the
last completed, and all of it unless the process died removing its files.

**Listree values and cursors** (`listree/`, `core/cursor.*`). State: values with
a dictionary of histories or a list, a read-only flag and pins; cursors with a
path. Operations: assign, remove, remove the head, freeze, copy, move. Hard:
read-only parts are shared instead of copied, also with other threads; removal
prunes upwards. Correct when nothing frozen changes and a copy reads like its
original and shares nothing that can still change.

### Language and libraries

**Edict compiler and VM** (`edict/edict_compiler.cpp`, `edict_vm_core.cpp`,
`edict_repl.cpp`). State: a code stack with one instruction pointer per
activation, a scan mode, data, dictionary, function and state stacks, rewrite
rules, speculations. Operations: every instruction, execute a line, resume,
clear. Hard: conditionals, throws, calls, speculation and yielding share one
stack of code frames and two flags. Correct when a line that completes did what
its text says, and a speculation gives its callers back.

**Imports, FFI, boxing, handles** (`cartographer/`, `edict/edict_vm_ffi.cpp`).
State: a cache of resolved schemas on disk, loaded libraries; boxes of packed
bytes; values C code refers to. Operations: import, call, call back, box,
unbox, free; take, give back and hang up handles. Hard: files change between
parse, fingerprint and lookup; widths and signs; hand-counted references.
Correct when what is resolved is exported, data arrive as they were given, and
references balance.

**Cartographer service** (`cartographer/service.*`). State: a table of requests,
two pipes, a child, a reader thread. Operations: construct, queue, status,
collect, destroy. Hard: a child that dies at any moment, forks that inherit the
other services' pipes. Correct when answers belong to what was asked, statuses
advance, and every import and every destructor ends.

**TinyCC service** (`edict/tcc_runtime.cpp`, `tcc_worker_native.cpp`). State:
modules, a policy on symbols, isolated jobs with their workers and pipes.
Operations: compile, run, start isolated, status, collect, cancel, drop. Hard:
pids that are used again, pipes that fill up or are inherited, timeouts that
are noticed only when asked for. Correct when nobody's process but one's own is
killed or waited for, and `collect` returns.

**Logic engine** (`kanren/`). State: a context's table of slots with generations
and reference counts, its last error; during an evaluation a substitution per
state and lazy streams of states. Operations: store, retain and release a value,
evaluate a query. Hard: handles outlive what they stood for and slots are used
again; streams interleave; variables are known by number and, when two are
compared, by address. Correct when a handle stands for its value and nothing
else, and the answers of a query are its solutions.

**Static images** (`edict/static_*`), **overlays, knowledge graph, tree-sitter
words**: one pass over their input.

### Agent runtime and the rest

**Runtime, stream manager, providers** (`cpp-agent/runtime/`). State: a table of
streams, a detached thread per request. Operations: request, the provider's
events, sync. Hard: each provider ends and fails in a way of its own; the error
of a stream against tokens not yet taken. Correct when what a reader gets is the
reply, whole when it is called complete.

**Agent host** (`cpp-agent/main.cpp`,
`runtime/persistence/agent_root_vm_ops.cpp`). State: the agent's root with its
messages, the session's directory, the turn at work. Operations: start, attach,
a prompt's stages, save, reset, shutdown. Hard: failed requests, crashes and
resets between turns. Correct when a provider is given the conversation since
the last reset.

**MarketHub** (`markethub/`). State: a cache, bounded histories, rules, flags,
subscribers. Operations: publish, sweep for stale quotes, subscribe. Hard:
highlights are derived under the mutex and published after it. Correct when
each highlight is true of the quotes it names.

**Tree-sitter bridge, extensions, demos, integration, tests**: not modelled.

### How they interact

The VM allocates through CPtr and brackets a transaction with checkpoints of all
allocators. `await!` parks a continuation in the scheduler, which waits for
descriptors of the broker; the broker's eventfds are how threads and processes
wake the VM. Intern jobs announce themselves through descriptors in a broker of
their own, and the Root 1 words have a third one. At a turn of the REPL the
scheduler is pumped; at a save its table is attached to the session's root, and
the session store writes the allocators; a new process loads both. The agent
host runs a turn in an embedded VM that asks the runtime for a reply and saves
the root. Every VM owns a cartographer service and a TinyCC service, whose
children inherit the file descriptors of the others.

## 2. Modules

| Module | What it is |
|---|---|
| `Root1Mailbox` | the mailbox descriptors and the bounded ring that carries them |
| `Root1Arbitration` | abstract specification: one holder per resource, a queue that is served in order and never passed over |
| `Root1Broker` | the broker: ownership, leases, mailboxes, eventfds, pidfds, pollers; extends `Root1Mailbox` and implements `Root1Arbitration` (`ArbitrationSpec`) |
| `Root1BrokerProofs` | theorems about `Root1Broker` |
| `Root1AwaitScheduler`, `Root1AwaitSchedulerProofs` | the table of parked continuations, the poll step by step, save and restart; theorems about it |
| `Root1Publications` | layers, their leases and what is published under them |
| `CoordinationSlab` | a mapped slab and one broker after another on it |
| `Root1Primitives` | the Root 1 words of a program over one broker |
| `InternJobs`, `InternJobsProofs` | the job table, its callers and the detached threads; theorems about them |
| `Allocator`, `AllocatorProofs` | slots, slabs, checkpoints and files of one `Allocator<T>`, with the file-backed save and load; theorems about them |
| `SessionStore` | the image save and load of a named session, with crashes between files |
| `VMTransactions` | host transactions of a VM over `BlobAllocator` and its nodes |
| `Listree` | values, dictionaries, lists, cursors, copies and freezing |
| `EdictCompiler`, `EdictRewrite`, `EdictVM` | tokens to instructions; rewrite rules; the machine that runs them (it extends the two) |
| `EdictParts`, `EdictProofs` | `EdictVM`, `SessionStore`, `VMTransactions` and `ForeignCalls` beside each other, for any values of their constants; theorems about the four |
| `EdictMeaning` | the meaning of a line by its text alone (`LinesMeanWhatTheySay`) |
| `MCEdictVM` | the small library and the lines for TLC |
| `ForeignImports` | import, its cache, resolution and dispatch |
| `ForeignCalls` | calls, callbacks and boxes |
| `LtvHandles` | the reference-counted handles of C code |
| `Kanren`, `LogicRuntime` | unification, goals, streams and queries as operators; the C interface with its handles, and what a query means by its text alone |
| `CartographerService`, `CartographerServiceProofs` | deferred imports, the child, the reader thread, destruction; theorems about them |
| `TccService` | native modules in worker processes, isolated jobs |
| `AgentStreams` | a streamed request with its provider, the manager and its reader |
| `AgentHost` | the agent daemon: turns, saves, crashes, resets |
| `MarketHub` | the event hub and its highlights |
| `HostParts` | nine of the modules above in one specification, for any values of their constants: a behaviour is one of one part, the others rest |
| `HostProofs` | theorems about `TccService`, `AgentStreams`, `CoordinationSlab`, `Root1Publications`, `LtvHandles` and `Root1Primitives`, as `HostParts` composes them |
| `AgentProofs` | theorems about `AgentHost`, `MarketHub` and `ForeignImports`, as `HostParts` composes them |
| `MCHost` | the instance of `HostParts` for TLC |
| `MCParts` | `EdictParts` and two more modules in one instance, in the same manner |
| other `MC...` | instances for TLC; the values are in the `.cfg` files |

A module that needs others extends them or is instantiated with a mapping of its
variables; `MCParts` and `HostParts` are not compositions but several small
systems in one specification, since their parts share no state in the code either.

In every module a definition whose comment names a mistake ("The mistake of
...", "... as a plain store") is a variant of the definition after it; no action
uses it. `PROJECT.json` ("mutants") says which property each of them breaks when
it takes the definition's place.

## 3. From the code to the modules

`PROJECT.json` ("map") gives the lines behind every definition. What to know
when reading the two side by side:

**`Root1Broker`.** A method that holds `mutex_` throughout is one action. Five
are not: `TryAcquire` and the first compare-and-swap of `acquireOrQueue` run
without it; under it `acquireOrQueue` is `AskToQueue`, its look at the owner, and
then `AcquireAsked` or `Queue`, and a `tryAcquire` may come in between, one with
the same id (`SharedIds`) included: the CAS that fails and the push are one step
since nobody gives an owned word up without the mutex; `recoverExpiredLeases` is
`CollectExpired` and then one `RecoverExpired` per lease; `pollReadyParticipants`
is `EpollWait`, `PollLock`, one `PollEventFd` or `PollPidFd` per event and
`PollUnlock`; the sweep over the leases of one participant is `SweepLease` per
lease, during which a `tryAcquire` may come in between. The atomic word is two
variables, `owner` and `contended`; no action writes them in separate steps
where the code has one atomic operation. `told` is a history variable: whom a
poll has reported and who has not drained since. Descriptors keep their kind,
resource and grant token; broker events keep the token and stand for a message
with 0.

**`Root1AwaitScheduler`.** The scheduler runs on one thread and other threads
only send, so `pollAndResume` is `Begin` (the broker's poll), a `Visit` per
ready participant (drain, then take its handles), a `Resume` per handle, in
which the callback may park again, and `Return`. `Restart` is a new process:
empty mailboxes, the saved table without callbacks, every saved continuation
put into the index as `loadState` does. What a session saves is `Saved`.

**`InternJobs`.** The identity of a job (`Jobs`) is apart from the number it is
known by (`id`), since `nextJobId_` is drawn outside the mutex. A start is
`Admit` (the limit), `ReadId`, `WriteId`, `Insert`, `Launch`; a cancellation
`CancelCheck`, `CancelSet`; a collection `CollectRead`, `CollectObserve`; a drop
`DropCheck`, `DropErase`, with the mutex held in between. A thread is `Run`
(with its `Checkpoint`s), `LoadAbandoned`, `Finish`, `Publish`. A process worker
never sees the token: `SeesCancel` is for threads only, as in the code.

**`Allocator`.** A slot is numbered slab * SLAB_SIZE + offset; `refs` is
`inUse`, `count` the slab's count, a `size_t` (arithmetic modulo `CountWidth`).
`allocRaw` is `AllocPlain` or, under a checkpoint, `AllocAppend`; `deallocate`
is `Release`; the two ways to roll back are `RollbackStrict` and
`RollbackLogged`, chosen by the checkpoint's append-only flag. `Assign` is
CPtr's copy assignment, which lowers the old slot's references through
`modrefs` and nothing else. A checkpoint carries two history fields, `base`
(the slots live at the checkpoint and not given up since) and `careless` (one
was given up by copy assignment); `rootHeld` and `reattached` are history too.
`saveRootFileBacked` is `SaveBegins` and then, file by file in `SaveOrder`,
`OpenFile` (which truncates) and `WriteFile`: slab 0 when it is on the heap, the
anchor, the bootstrap. It runs on the VM's thread, so nothing else happens in
between but the end of the process, which mapped pages outlive. `Restart` is that
end, at any moment, and `loadRootFileBacked` in a new process; where slab 0 was
torn, its file reads as zeros from some slot on and its count is not rebuilt. A
load that fails, since anchor or bootstrap are torn or the first save did not get
to the bootstrap, is not followed. The files are those of one allocator: that the
six of a session rewrite their slab 0 one after the other, so that references
between objects of two may cross from one save to the next, is left out. What the objects hold is left out, so a release of one object's
members appears as releases of their own, and calls that throw are left out.
When a count runs from below zero back through it in the middle of one logged
rollback, the model gives up the remaining slots of the deleted slab where the
code skips them; both leave the slab deleted.

**`Root1Publications`, `CoordinationSlab`, `Root1Primitives`.** A method under
the mutex is one action; `registerPublication` is `BeginRegister` (the manifest
is read and compared) and `Register`. One process at a time maps a slab, as in
the tests, the only users; one that finds an existing file reconstructs before
it registers. In `Root1Primitives` each word is one step with one call of the
broker behind it, and `claims` is what the program has been told. A program
waits for one resource at a time and for its grant before it asks again, its
requests name keys of their own at most once, and there is one VM: the table of
resources has no lock. A grant that finds the mailbox full is the exception
`lost` stands for. Timeouts that overflow into an endless wait and forged grant
descriptors are left out.

**`SessionStore`.** A file is absent, torn or the record written; a name is one
slot in each allocator, so that what the snapshot copies above the watermark,
the counts and the holes are all there. `ImageFiles` is the set of files of an
image and `Before` the order they are written in, one `WriteFile` each; a crash
or a failed write comes between any two. What is read of a directory (`Loads`,
`RestoredHeap`) are functions of its files. `SaveBegins` takes the snapshot; then the
directory is cleared, a file per `ClearFile`, in any order, and the process may die
after each. `ClearEnds` goes on to write when all are gone, or all but those the
system refuses to remove (`Stuck`), as the code drops that error. A start from what
is left takes the slabs it finds: a name is there when its nodes are in every
allocator (`Found`, `Reached`). That is simpler than the code in one way: a name whose
nodes are partly gone is lost, where a program could follow a reference into a slab
that is not there. `image` is a history: whether the files are what the last save
left, were cut down by a clearing that did not end, or are mixed with older ones.

**`VMTransactions`.** The blob slabs (made, mapped, count, header) are modelled
slot by slot in the manner of `BlobAllocator`; the five node allocators that a
transaction checkpoints with it appear as one set of nodes. `Begin` copies the
stack into the checkpoint, and `Rollback` makes those copies the VM's own before
it asks the arenas. `said` is a history: what the VM's calls, rolled back ones
aside, left on the stack. `InsideOut` says that the host ends the innermost
transaction first, which the language reference demands (section 17). Arenas and
their checkpoints are shared by the VMs of a process: one VM is assumed. A text
longer than a slab (65536 bytes) has no blob and reads as empty;
`TransactionAssumption` excludes it. A watermark has 16 bits for the count of its
slab (`alloc.h:408`), so that of a slab without a free byte is 0 (`Watermark`);
`Brimful` lets a transaction begin then, which breaks it (section 7). That an action of `speculate` throws and
leaves its checkpoint open, and what the registers hold, are left out (the
latter are in `EdictVM`).

**`Listree`.** `node` holds values, `item` the histories of names; each
instruction works with a cursor record of its own, the VM's resident cursor
stays. Operators take a heap and a cursor and return both, in the order the C++
calls them. Iterators (`*name`), `find` and `filter`, copies to a bounded depth,
binary and static values and mounts are left out.

**`EdictCompiler`, `EdictRewrite`, `EdictVM`.** A text is a sequence of lexemes.
The compiler is one pass with one token of lookahead and the tokenizer's two
modes, as in the code; `Machine` runs one instruction with its epilogue (the
automatic rewriting included). Code frames are activations, newest first, with
the pointer each has in `code_ips_`; `spec` holds what `op_SPECULATE` saves.
`Execute` is one line from the host, `Resume` and `Clear` what the REPL does with
a parked machine. Contexts are opened on fresh values.

**`ForeignImports`.** `import.pc` runs through `op_IMPORT`: look for the cache,
read it, check its fingerprints, parse, look up, write it back, materialise;
files change and the process dies between any two. The fallback for a parse that
libclang gives up is left out. **`ForeignCalls`.** A byte has `Radix` values, so
that a C type keeps its size and its sign in numbers TLC can write; a call packs
what the list holds in name order, converts and unpacks. A box is freed once and
not used afterwards; real numbers, `buildClosureValue`'s copy and the contents
of the blocklist are left out. `NumbersArrive` is stated for types `getFFIType`
knows and for functions whose parameters have types in name order as declared.
**`LtvHandles`.** Each of `ltv_create`, `ltv_ref`, `ltv_unref`, `ltv_set_named`
and a call's lending and returning is one action; C code gives up or gives back
all it owns; trees are two levels deep.

**`Kanren`, `LogicRuntime`.** A goal or a stream, a closure in C++, is a record
here that says what the closure holds; a stream not begun yet is the goal and
the state it begins from, which stands for `snooze` and for the streams a choice
makes when it first asks them. An occurrence of a variable carries the identity
of its object (`at`), as `unify` compares addresses and `extend` copies the
substitution. Walks are exact; a unification or an answer nested deeper than
`Frames` is taken for one that never ends (`Endless`), which ends the process by
its stack. `reifyTerm` turns lists round, and so does `ReifyTerm`. `Meant` is the
meaning of a query over a finite set of ground terms, by the relations' own
definitions; queries whose search goes on for ever without an answer, or that
equate a variable with a term around it (there is no occurs check), are not asked.
Generations and slots stay below the bounds of 32 bits. `disj`, `disj_fair` and
`fail`, which no query reaches, are left out.

**`CartographerService`.** The pipes' ends have holders, so that a fork's
inheritance is visible; `queueDeferredImport` reads, writes and falls back in
steps (`queueing`); the reader takes frames until every write end is closed.
`Overlap` says whether two services may be under construction, `IgnoresPipe`
whether the program ignores SIGPIPE (the agent does, the edict program does
not). Pipes are unbounded, frames whole, ids drawn numbers; decoding what the
service itself has encoded never fails. **`TccService`.** A worker is `Spawn`ed
with the request written, runs, writes its envelope and exits; `OpStatus`,
`OpCollect`, `OpCancel` and the answers to `compile` and `run` read and reap it
as the code does. What the program does is chosen by its arguments (`Outcomes`);
pids are used again; libraries only lose symbols.

**`AgentStreams`.** The provider's thread turns an event into calls of the
manager (`job.calls`), each of which takes the locks again; `syncStream` is
`SyncFind`, `SyncDrain` (tokens taken, then the error thrown) and `SyncRemove`.
The server sends nothing after its end mark; a Codex reply is either all deltas
or one item. **`AgentHost`.** A turn is `Stage` (the prompt enters the history),
`Ask` or `Throw` (what the request is built from), `Apply` (the reply), `Save`.
The store is file-backed: a crash leaves the saved root or the one at work; after
a reset memory is in files without a name. An empty prompt is told apart, since
Codex drops it. **`MarketHub`.** `Publish` holds the mutex through stamping,
caching, recording, dispatching and deriving highlights; each highlight is then
published by itself. `Late` says whether a quote may be older than the last one.

## 4. Runs and bounds

| Run | Instance | Shows |
|---|---|---|
| `MCRoot1BrokerQueue` | 3 participants (one id shared by threads), 1 resource, 1 lease tick, `MaxToken` 3: three requests are queued and granted | `TypeOK`, `QueueAgreesWithWord`, `OnlyOwnLeaseIsRecovered` and that the broker implements `Root1Arbitration`, with every way to acquire, release, lease and recover |
| `MCRoot1BrokerPoll` | 2 participants, one with a pid, 1 poller, rings of 2, 2 tokens | `NoLostWakeup` and `GrantsInOrder` while a poller, senders, drains, deaths and re-attachments interleave |
| `MCRoot1BrokerLive` | 2 participants, 1 resource, 1 poller, `FairSpec` | `WaiterEventuallyOwns`, `RingEventuallyDrained` |
| `MCRoot1AwaitTable` | 2 participants, rings of 1, 2 handles, `FairSpec` | `ParkedIsIndexed`, `DrainedIsDelivered`, `EndsOnce`, `ReadinessIsServed` |
| `MCInternJobsTable` | 1 caller, threads and processes, limit 1, 1 retained, 2 jobs, `FairSpec` | `CountersAreTrue` (types, accounting, both limits, no count below what it counts), `AnswerIsStable`, `JobsEnd` (a cancelled thread ends, every end is announced) |
| `MCAllocatorSlots` | 2 slabs of 2 slots (the null slot is one), 2 references, 2 nested checkpoints, 2 logged allocations, counts modulo 6, heap and file, saves file by file (with up to 1 checkpoint open), 1 restart anywhere; after a torn slab 0, 1 checkpoint | `CountCoversLive`, `LiveSlotsKept`, `RollbackExact`, `RootSurvives` |
| `MCCartographerService` | 2 services, 2 requests: of one service or one of each | `AnswersMatch`, `ImportsEnd` (statuses only advance, and all come to an end) |
| `MCParts` | six small instances, one per behaviour: 640 000 states | `LinesAreRead`, `SpeculationKeepsCallers` (VM); `CompletedSaveRestores`, `RestoresOneSave` (session store); `FrozenStays`, `CopyIsFaithful` (Listree); `AnswersAreTrue` (logic engine); `ForeignDataIsKept` (calls of C functions); `RollbacksAreExact` (transactions) |
| `MCHost` | nine small instances, one per behaviour: 1 030 000 states | `OwnProcess`, `CollectReturns` (TinyCC); `LayersShowOneSpan`; `MailFindsItsReader`; `ClaimsAreTrue` (Root 1 words); `HighlightsAreTrue`; `RepliesAreWhole`; `RequestsCarryTheSession`; `ImportsMeanWhatTheySay`; `ReferencesBalance` |
| `MCSessionStoreSentinel`, `MCListreeUp`, `AgentHostSaves` | the smallest instance that has the behaviour | each a violation, section 7 |

Every passing run visits all reachable states of its instance and together they
fire every action. Why the bounds are enough:

- *Broker.* Three participants are an owner and two waiters, the smallest line
  in which order can be wrong; three grants let whoever had the resource queue
  again behind others. With one resource a sweep visits one lease; that a
  recovery of one resource leaves the others alone is proved
  (`QueueAgreement`, `LossesAreOwn`, for any number). In the poll run two tokens
  make two grants whose order can differ, and a ring of two is full with one
  grant and one message. `MaxToken` and `MaxEvents` are guards on requests and
  messages, not on anything they enable.
- *Scheduler.* Two handles on one or on two participants give every case of the
  index; a ring of one is both empty and full at once. `MaxHandle` bounds parks
  of one process.
- *Jobs.* Two jobs under a limit of one give an admission that is refused, and
  with one retained a sweep. One caller: the VM is the only user of its manager;
  two callers are the subject of the hazard at `edict_worker_primitives.cpp:932`.
- *Allocator.* Two slabs are the null slot's and another; slots in one slab on
  both sides of a watermark, a hole below it, a slab that empties and one that
  is created under a checkpoint all occur; two checkpoints nest, with rollback
  and commit in each order. `CountWidth` is far smaller than 2^64: counts that
  climb are stopped at half of it, counts below zero use the other half.
  `MaxLog` bounds allocations under checkpoints, `MaxRefs` references to a slot.
  One restart shows what a crash leaves of a first, a second or a later save; a
  save after the last restart would have nobody to find it. `SaveDepth` and
  `TornDepth` keep the run small: a save does not look at checkpoints, and nothing
  is claimed of a slab 0 that came back torn. That a second restart finds the root
  is in the theorem.
- *VM.* The lines are all sequences of up to three units of a small language
  (literals, binding, removal, evaluation, contexts, conditionals with and
  without an else, a foreign call, speculation) and, after one, a follow-up line:
  leftovers of an error or of parking show in the second. `MaxCode` bounds
  activations at eight.
- *Imports.* Two libraries with one base name share a cache file; two changes of
  files come at any two steps.
- *Session store.* Two of the five allocators, slabs of four slots, a name of the
  program, one of the VM and the scheduler's: a snapshot that fits the slab of the
  watermark, one that spills over, heaps with holes below the watermark, filled
  again, and one with no room for the snapshot occur; two saves, the second over
  the first, whose image has up to nine files. The clearing leaves any subset of
  them when the process dies, and a start then finds a part of the image, with or
  without the scheduler's state. One file may be stuck, the manifest, which may so
  stand beside files of the next save.
- *Listree.* Four values and three items over two names, paths of one and two
  components, four instructions: a nested assignment, a shadowed name, a freeze
  and a change after it.
- *Words.* Two participants and resources, mailboxes of two: one fills up with a
  notice and a grant.
- *Logic.* Two slots, two references, two generations: a slot is freed, used
  again and freed in another order. Nine queries: alternatives, lists split and
  joined, objects, infinitely many answers under a limit, an evaluation without
  an end, a number shared by two variables, an error. Terms of lists of two.
- *Services.* Two services are one that inherits from the other and the other way
  round. Two requests of one service are two entries of its table: an answer finds
  its own, one is swept beside one that was answered, one is entered while the
  other runs; one of each is a reader that ends beside another that goes on.
- *TinyCC.* Two VMs and two processes: an isolated job's pid is used again by a
  call of the other VM; an outcome that answers differs from one that floods only
  in that its envelope fits the pipe.
- *Publications, slab.* Two owners, two callers, two epochs and ticks; three
  participant slots and four ids.
- *Hub.* Four events, three moments, history of three: a quote that leaves the
  window, one that goes stale, and one that comes back.
- *Streams, agent.* Replies of up to three pieces with each provider; three
  prompts and three starts with two providers and an unknown one.
- *Foreign calls, handles.* A byte of one bit makes an int of 16 values with both
  signs; three functions with parameters in and out of order; a structure in a
  structure. Three values, two references each.
- *Transactions.* Two slabs of five bytes, one of them the VM's, texts of two: a slab
  fills up, one is made under a checkpoint and goes with it; transactions two deep.

Deadlock checks are off where the bounded instance, or the program, may have
nothing left to do: all jobs gone, all services destroyed, all lines executed.

## 5. Fairness

- `Root1Broker!FairSpec`: who holds `mutex_` goes on (weak); a poller polls
  again and again (weak) and gets the mutex although others keep taking it
  (strong: a blocked thread is scheduled in the end); owners release (strong,
  as their release needs the mutex): a user who never releases blocks waiters
  by design; whoever a poll reports drains, as `root1.await!` does.
- `Root1AwaitScheduler!FairSpec`: the REPL pumps the scheduler at every turn,
  and a poll comes to its end. Nothing is assumed of senders, parks or restarts,
  so `ReadinessIsServed` allows for a restart in between.
- `InternJobs!FairSpec`: threads run and a drop gives the mutex back. Nobody
  must start, collect, cancel or drop anything. That a cancelled thread ends
  needs its program to reach a checkpoint again and again, which is what a
  step of `Run` or `Checkpoint` stands for.
- `CartographerService!Fairness`: the host's calls go on once begun, child and
  reader run when they can. Nobody must ask, collect or destroy; a child may die
  at any time.
- `TccService!Fairness`: a call goes on once begun, a process that can take a
  step takes it, a job's time passes. `CollectReturns` is for jobs with a timeout
  or with an envelope the pipe holds.
- The other modules have safety properties only.

## 6. Proofs

TLAPS checks eight modules of theorems, for every value of the constants the
named assumptions allow. The assumptions say what the code says of its constants:
that the numbers used for "nobody" are no participants, that a ring, a slab or a
table holds something, that ticks and bounds are naturals; that a set of callers,
values, names or traded entities is finite; that a library is no header; and that the
scalars of a C structure lie within it and apart from each other, in the sizes the
compiler gives them. MCParts,
MCHost and the other instances assert them. A theorem of `HostProofs` or
`AgentProofs` is of the specification of the module it is about, with the
variables and constants of `HostParts`, of which MCHost checks an instance; one of
`EdictProofs`, with those of `EdictParts`, of which MCParts checks one.

| Theorem | States | Inductive invariant |
|---|---|---|
| `Root1BrokerProofs!TypeCorrect` | `TypeOK` | itself |
| `QueueAgreement` | `QueueAgreesWithWord` | itself, given types and `AskingInv` |
| `WakeupsKept` | `NoLostWakeup` | itself, given types |
| `GrantsOrdered` | `GrantsInOrder` | `TokensInOrder` |
| `LossesAreOwn` | `OnlyOwnLeaseIsRecovered` | types |
| `Arbitrates` | `ArbitrationSpec` | `QueueAgreesWithWord` and `AskingInv` |
| `Root1AwaitSchedulerProofs!SchedulerTypeCorrect`, `NoneForgotten` | `ParkedIsIndexed` | `IInv` |
| `DrainsDeliver` | `DrainedIsDelivered` | `IInv` and `IndexedIsParked` |
| `EndsAreKept` | `EndsOnce` | `IInv` |
| `InternJobsProofs!CountsHoldForAll` | `NeverUndercounts`, types | `JobsInv` |
| `OneCallerCounts`, `AnswersStay` | `CountersAreTrue`, `AnswerIsStable` | `JobsInv` and `OneInv` |
| `AllocatorProofs!CountsCover`, `SlotsKept`, `RollbacksExact`, `RootsSurvive` | `CountCoversLive`, `LiveSlotsKept`, `RollbackExact`, `RootSurvives` | `SlabInv`: `AllocInv` and `Underway` |
| `EdictProofs!CompletedSavesRestore`, `StartsRestoreOneSave`, for one process | `CompletedSaveRestores`, `RestoresOneSave` | `SessionInv` |
| `RollbacksStayExact`, for transactions ended in order, none begun on a full slab | `VMTransactions!RollbacksAreExact` | `VMInv` |
| `CallersStayPut` | `EdictVM!SpeculationKeepsCallers` | `NestingInv` |
| `ForeignDataStay` | `ForeignCalls!ForeignDataIsKept` | `BoxInv`; `NumbersArrive` itself |
| `CartographerServiceProofs!AnswersAlwaysMatch`, `StatusesGoForward` | `AnswersMatch`, `StatusesAdvance` | `ServiceInv` |
| `HostProofs!ProcessesAreOwn` | `TccService!OwnProcess` | `TccInv` |
| `RepliesComeWhole` | `AgentStreams!RepliesAreWhole` | `StreamInv` |
| `MailIsRead` | `CoordinationSlab!MailFindsItsReader` | `SlabInv` |
| `LayersShowOneSpanEach` | `Root1Publications!LayersShowOneSpan` | `RegistryInv` |
| `ReferencesAreBalanced` | `LtvHandles!ReferencesBalance` | `HandlesInv` |
| `ClaimsStayTrue` | `Root1Primitives!ClaimsAreTrue` | `WordInv` |
| `AgentProofs!RequestsAreTheSession` | `AgentHost!RequestsCarryTheSession` | `AgentInv` |
| `StaleQuotesAreFlaggedOnce` | `MarketHub!StaleIsFlaggedOnce`, feeds in order | `HubInv` |
| `HighlightsStayTrue`, for quotes in order | `MarketHub!HighlightsAreTrue` | `HubInv` and `HubInTime` |
| `ImportsStayMeaningful` | `ForeignImports!ImportsMeanWhatTheySay` | `ImportInv` |

Every invariant of the last column was checked by TLC on the values of the runs
before it was proved. None of the properties but the ones marked "itself" is
inductive; what they lack is the subject of the paragraphs that follow.

**The broker.** The step of `QueueAgreesWithWord` that needs thought is the
hand-over to the head of the queue, a lemma of its own (`HandOverQueue`), as
release, recovery and sweep all go through it. What `acquireOrQueue` saw of the
owner still holds at its push, unless its id is shared, since it has the mutex
alone and no other thread takes the resource for it (`AskingInv`). `NoLostWakeup` holds since every
push makes the eventfd readable and whoever resets it reports its participant
first. `LossesAreOwn`: no action changes the owner of an owned resource except
its own release, its explicit recovery, or a lease it took itself. `Arbitrates`:
every step of the broker is a step of `Root1Arbitration` or leaves holder and
line alone; without `QueueAgreesWithWord` a free word with waiters would let
`tryAcquire` pass the queue. `TokensInOrder` bounds every token by the next one,
in the rings too, which is what makes the token of a new grant the highest of its
mailbox; `GrantsInOrder` bounds only those of the events.

**The scheduler.** `ParkedIsIndexed` lacks that a poll's batch holds handles in
use (`BatchInUse`) and that handles at and above the next one are not in use, in
the table and in the saved copy alike, or a park would overwrite one and a
restart bring one back. `IndexedIsParked` is the converse for a process that has
loaded no session: what is in the index is parked, so a drain has somebody to
resume.

**The registry.** `TablesAgree`: a layer without a lease, or not yet leased, has
no publication, and a publication is of the participant that leased its layer.
A caller that has read its manifest may hold any descriptor whatever: what it
writes is tested again under the mutex, so nothing need be known of it.

**The words.** `ClaimsAreTrue` does not say what a drain needs: that the grant in a
mailbox is for the one resource the program waits for. `WaitsForOne` says that it
waits for one and that a grant finds it waiting; `LinesAreWaiting` that who stands
in a queue was told so, stands there once and has no grant. A lease that runs out
takes the resource from an owner who has not read of its grant, who then goes on
waiting ("revoked") until it drains; that state is in `WaitsFor`, or a program could
queue a second time with an old grant in its mailbox.

**Intern jobs.** Counts become cardinalities. `Drawing` bounds the next number by
the jobs started and the callers that have drawn one; `Works` says that a launch
and a drop are of a job nobody else launches or drops; `Lives` relates a job's
flags to where its thread is; `Counting` relates the counters to the sets they
count. `JobsInv` is for any number of callers. The equalities of `CountersAreTrue` and the stability of answers are
false for two (section 7); `OneInv` adds for one that its numbers are apart and
that what it was told of a job is still so.

**The allocator.** `Counts`: a count covers the slots live in its slab and stays in
the lower half of its width, so that no addition wraps. `MarkTypes` orders
the checkpoints by watermark and by where their log begins. `Bases`: what was live
at a checkpoint is live, lies at or below its watermark and is not in the log since;
but for copy assignments nothing else is live than that and what is in the log;
while the checkpoint is append-only the log since lies above the watermark.
`Rooted`: a root that is held lives where a later process finds it. `Underway`: a save
is for a slot that lives, and past slab 0 the file of that slab holds what memory
does, so that the anchor, written after it, points at something (TLC finds
`RootSurvives` violated in the other order); the anchor of the save before points into
a slab 0 that may be newer, in which its slot, unless given up, lives still. `OnlyGoes` is the
statement about one release that the others rest on.

**The session store.** The invariant has three parts, for the three things `image` may
say. Whatever it says, a file that is whole carries only what some save may be given
(`AllCarry`), so a start from any mixture has a heap of names. Unless files are mixed,
every whole file carries only what the last save was given, and that save's number
(`OfSave`): this survives the loss of any files, in any order, hence a death at any
point of the clearing, and with `RestoredWithin` a start gets names of that save and no
others. And where no clearing was cut short the image is complete:
`SavingIs`: the files on disk are those of the image that are
not still to be written, with what the save has for them; as `Before` puts bootstrap
and manifest last, a bootstrap that is whole has all the files it speaks of, and a
manifest never stands without it (`DiskIs`; a manifest alone would load without its
mounts). `ImageRestores` is the walk: the nodes of the snapshot have one slot each
above the watermark, every such slot is in the image of its slab (`SnapshotIs`,
`Since`), and the slabs put together again give back the names (`RestoredIs`).
`IsHeap` says of a process that it has the names of its root in every allocator;
it bounds slots but does not say that they differ, which no step needs. The
theorems are for a session of one process: nothing locks a session's directory,
and two processes that save at once can clear and write over each other's files, so
that of a save that has completed not all files are there. TLC finds that with two
processes.

**Transactions.** `VMInv` says three things of a heap. `HeapIs`: bytes of two texts
are apart and below the count of their slab, a slab not made has count 0, the header of
a mapped one is its count, and with slabs in files only slab 0 may be on the heap, so
that a restart finds every count. `SaysIn`: the list of the VM, and that of each
checkpoint, says what the history says. `Below`: what a checkpoint's copy consists of
lies below its own marks and those of every inner checkpoint, which is why no rollback
takes it away; no two checkpoints share a list, which is why no push changes it. What
`MarkCovers` needs, and the code lacks, is that the count of the last slab fits its
mark: hence `~ Brimful`. `InsideOut` is needed since a refused rollback puts the VM on
the list of its checkpoint. That a copy of any length and a reload of any number of
texts keep the rest (`CopyKeeps`, `LoadKeeps`) is induction along the recursive
functions `Copies` and `Loading`, by a least stage at which it would fail.

**Speculation.** The property compares the activations below the outermost speculation
before and after a step, for any nesting and any program. `NestingInv` says that each
nested run started above its parent's base and that no base exceeds the code stack. An
instruction replaces at most the newest activation (`OnTop`, with a lemma for every
instruction that calls), and it runs only while there are more activations than the base;
the loop ends there, which is what makes a nested run leave its caller's frame; and the
return of an inner speculation cuts the code stack at its own base, which is above the
outermost one (`CallersKeep`).

**Foreign data.** A number within the range of a type comes back from its bytes
(`ReadAgain`), and bytes read as a number are those of the number (`WrittenAgain`),
for any size of a byte, with and without a sign: both are induction along the digits,
by what the digits up to one leave (`SumOfDigits`). `BoxInv` says of every field,
nested ones included, that its bytes are those of the number it means, and that the
number is one its type can hold; writing a field keeps the others as they are apart
(`PieceIsStored`), and packing is as many such writes as there are fields
(`PackedIs`). That functions defined by recursion have the values their definitions
say is proved for each (`PowersAre`, `SumsAre`, `PackingIs`), from the existence of
a function that takes one step after the other (`StagesExist`). A structure with a
union in it, whose members overlap, is not covered, nor is a field of type `__uid_t`,
which Boxing takes for eight bytes and C for four.

**Handles.** A value that goes gives up what hangs under it, so the balance needs
that a free slot has nothing under it and that trees are two levels deep, or one
free would set off another the step does not make.

**The Cartographer service.** The invariant is per service, over its table, the bytes
to and from its child, the child, the reader and the caller. `Meant`: every
request and reply on the way is of the entry it names; `Ordered`: along both
pipes and through the child the numbers rise, so that no reply comes twice;
`Stated`: an entry whose request is on the way is not at an end unless its child
has died; `Asking`: what the caller is about to send, or the reader to enter, is
of an entry that waits for it; `Shaped`: types. Every handler is a lemma about
those parameters; the steps say which one they make.

**The host.** `TccInv`: a call that spawns has a number nobody uses, one that reads,
or a job that runs, has a process, and no two have one. `StreamInv` writes what
has been returned and what waits in the stream as consecutive pieces of the
reply (`Pieces`), and says that with the piece the thread still owes they add up to
what the provider has passed on; completeness follows since a thread that has
completed has passed on all that was said. That every event of a provider leaves
the thread with at most one piece and one end to hand over (`Event`) is a lemma for
each of the seven. `SlabInv`: no participant has two slots, and while a process
uses the file the next number is above those of all slots; that the greatest
number of the slots exists is `GreatestNatural`.

**The agent.** `AgentInv` is about the messages of the history, at work and saved
(`Told`): as long as none of them is the text `null` of a failed request, they are
prompts with rising numbers, each perhaps followed by its reply and nothing else,
and all after the last reset; in the middle of a turn the last one is its prompt. What a
provider is sent of such a history is a lemma for each shape of request; for
Codex, which drops an empty first prompt message by message,
`CodexLeavesOutTheBlank` shows what its recursive function amounts to.

**The hub.** A sweep takes its highlights under the mutex and publishes them after it,
when another thread may have published a newer quote. `Noted` is what stays
true of a stale quote all the same: it is the latest of its entity and flagged, or
there is a later one; so no sweep takes it again (`OnceInLog`, `OnceInAll`,
`OnceInHand`). This holds for late quotes too. That a highlight is true of its
quotes does not, which is in the code (section 7), so `HighlightsStayTrue` assumes
`~ Late`, as the run does; `HistoryInTime` then keeps samples in the order
of time and in their buckets, and the oldest one in the window is no older
than the window and a bucket.

**Imports.** What was resolved against a library speaks of the library as it was, and
a file that has changed never becomes what it was again, as its time moves on
(`IsSound`: honest, or the fingerprint is no longer the library's). The same is
said of every text that can be read back, in the cache of any name or in the
hands of the program; a text that a crash cut off does not decode. An import remembers
when it began, and what changed under it changed since (`ImportIs`).

Where an argument needs induction the proofs use that a set of naturals that is not
empty has a least element (`LeastNatural`, from the well-foundedness of `<`).

**Only model-checked.** Liveness (`WaiterEventuallyOwns`,
`RingEventuallyDrained`, `ReadinessIsServed`, `JobsEnd`, the liveness of
`ImportsEnd`, `CollectReturns`) is out of the prover's reach. `Kanren`,
`LogicRuntime` and `Listree` declare recursive operators, which keep a module from
the prover (`AnswersAreTrue`, `CopyIsFaithful`, `FrozenStays`);
what the compiler, the rewriter and the machine of Edict do with a line
(`LinesAreRead`) is stated against a meaning that is recursive in the shape of the
text (`EdictMeaning`), and such operators are kept from the prover too.

## 7. Where the code differs from what is said of it

Each of the first three is a run in which TLC finds the behaviour; the finding in
`PROJECT.json` quotes the sentence.

- `MCSessionStoreSentinel`: a restore takes the null sentinel with `allocRaw()`,
  which need not give (0,0) (`alloc.h:1409`).
- `MCListreeUp`: `Cursor::up` takes away the first component of the path, so
  `remove` prunes, and deletes, on another branch (`cursor.cpp:323`).
- `AgentHostSaves`: a prompt whose request failed puts a reply of `null` into the
  history and the host saves it; every later request throws until the session is
  reset (`main.cpp:224`, `runtime.cpp:62`).

The models also have these behaviours; no property excludes them. Root 1 and
intern jobs:

- `root1_resource_broker.cpp:863`: a lease registered again between the two
  critical sections of `recoverExpiredLeases` is recovered all the same
  (against `LocalContext/Knowledge/Archive/Goals/G110-*/index.md:207`).
- `:1092`: a batch of events older than `attachParticipantPid` reports the death
  of the previous process for the new one (G110 `index.md:295`).
- `root1_await_scheduler.cpp:319`: `loadState` indexes continuations that have
  ended, so later readiness is drained for nobody (G110 `index.md:262`).
- `edict_worker_primitives.cpp:958`: a job that ends between the test of its slot
  and the exchange of its token is reported as cancelled (G091 `index.md:69`).
- `:1034`: a thread that has loaded `abandoned` before `drop` sets it announces
  the end of an abandoned job (G091 `index.md:69`).
- `root1_resource_broker.cpp:757`: a grant that finds the ring full reaches its
  participant as a broker event only, without the descriptor a poller drains.
- `:732`: a release leaves the lease in place; it is recovered later against
  whoever acquired in the meantime only if that is the same participant
  (`OnlyOwnLeaseIsRecovered`).
- `:716`: a participant whose id several threads use may be queued for a resource
  one of them has just taken, between the look at the owner (`:707`) and the push.
- `root1_await_scheduler.cpp:162`: a poll resets the eventfd of a participant
  for whom nobody has parked yet; the park that follows is not told.
- `edict_worker_primitives.cpp:1095`: the job manager's broker is not the
  session's, so `await!` on a job's waitable is never woken by it.
- `:790`, `:932`: two callers may draw one id, and may both pass the limit.
- `root1_resource_broker.cpp:531`: a broker that registers on an existing slab
  without reconstructing gets an old participant's slot, with mail nobody
  announces. Only tests use slabs, and they reconstruct.

Memory and persistence:

- `alloc.h:1045`: the count of a reattached slab starts at 0; a slot allocated and
  given up beside a restored one deletes the slab with what was restored (against
  `LocalContext/Knowledge/Facts/ListreeValueSerializationFormat.md:26`).
- `alloc.h:748`: the file of a deleted mapped slab stays behind, and the next
  allocation at that index throws.
- `alloc.h:1092`: a save truncates the file of slab 0 and writes it anew, in place:
  a crash inside the writing loses what is in slab 0, a root that was saved before
  included (`Spared` in `RootSurvives`; against `session_state_store.cpp:495`). The
  load ignores that the slab was cut short (`:617`).
- `session_image_store.cpp:488`: clearing a session removes its files one by one. When
  the process dies in it, bootstrap, roots and some of the slabs may be left; the load
  lists the slabs it finds (`:608`) and compares their number with nothing, so it
  starts from a part of the save (`RestoresOneSave` says: of that save only; that it is
  all of it does not hold then, as TLC finds). A file that cannot be removed is written around, the
  error dropped: an old manifest beside the roots of a newer save, or an old slab
  among newer ones, is loaded (`image = "mixed"`, which `RestoresOneSave` leaves out; TLC
  finds it violated without).
- `alloc.h:1733`: copy assignment gives up the last reference without
  `deallocate`: no destructor, no count, no protection from reuse under a
  checkpoint, and the rollback may leave the reuser alive (`careless` in
  `RollbackExact`).
- `alloc.h:866`: a strict rollback counts the holes below the watermark; they
  are not found again while the count says the slab is full.
- `edict_vm_core.cpp:522`: a rollback that the arenas refuse has already put the
  checkpoint's copies in place; later pushes change them, and the checkpoint's
  own rollback reclaims their nodes (with `InsideOut = FALSE` TLC finds it). A
  successful rollback clears `checkpoint.valid`, so
  `tests/regression_matrix.cpp:164`, which rolls one checkpoint back in a loop,
  restores once.
- `alloc.h:408`: a watermark keeps the count of a blob slab in 16 bits; a slab of 65536
  bytes that is full has the mark 0, so that a rollback, of a transaction that took no
  bytes even, sets its count to 0 and later texts are written over those of values that
  live (with `Brimful = TRUE` TLC finds `RollbacksAreExact` violated).
- `listree.cpp:232`: a text of more than 65536 bytes becomes empty.
- `cursor.cpp:243`: `next` on a history whose value was removed stays where it is;
  several cursor operations leave pins behind.

Language and libraries:

- `edict_vm_core.cpp:2264`: an evaluation that ends a skipped branch is scanned
  again and again: the line never ends. A speculation's rollback replaces scopes
  by copies while the session keeps the original; lookup and rewrite mode, the
  unsafe permission and a pending await are not rolled back, although the
  language reference says that `speculateValue` works on a copy of the VM.
- A character no rule accepts and a literal that is never closed end the
  compilation without an error; the tokenizer's JSON mode outlives its brackets;
  the block accumulator joins lines with blanks, so that a comment swallows the
  rest.
- `edict_vm_ffi.cpp:157`: the cache is found by base names; a header changed
  between parse and save is cached under its new time. The language reference's
  example of a deferred import passes header and library in the other order
  (`:251`).
- `service.cpp:443`: the child of another service keeps a reply pipe open, and the
  destructor waits for it. `:774`: in the edict program a request queued after the
  child died ends the process by SIGPIPE.
- `tcc_runtime.cpp:614`: an isolated job whose envelope does not fit the pipe never
  ends by itself, and a timeout is noticed only when status is asked for.
- `boxing.cpp:47`: `__uid_t`, `__gid_t` and `__pid_t` are packed as eight bytes;
  `ltv_api.h` says that `ltv_set_named` replaces, the code shadows.

- `kanren.cpp:507`: the variables of `heado`, `membero` and their like are numbered
  from the highest number among the results, so that a query that does not ask for
  its last variable loses answers: with x and y fresh, `heado [a b] y` has none
  for x, and one for x and y together (query `shared`; `AnswersAreTrue` is
  about queries that ask for their last).
- `kanren.cpp:226`: the copy of a substitution takes the addresses away by which
  `unify` knows a variable; an equation met twice, `x = y`, `z = a`, `x = y`, binds
  a variable to itself, and whoever walks it overflows the stack (query `circle`).
  Lists come out of `reify` turned round, and two unbound variables of one tuple
  are both called `_0`.

Agent and hub:

- `runtime.cpp:202`: a request whose provider cannot be resolved leaves a stream in
  the table; `stream_manager.cpp:90`: a failed stream throws its drained tokens
  away and is never removed. A Codex reply that is cut off is reported complete;
  a failure after the end mark turns a whole reply into an error.
- `market_hub.cpp:294`: with late quotes a price move's baseline may lie after it;
  `:266`: a subscriber that calls the hub waits for itself.

## 8. What is not modelled

Inputs and outputs (HTTP, terminal, sockets), generated and vendored code, the
walk over libclang's cursors, tree-sitter, static images and their file formats,
the credential store and the agent's Edict source. Within modelled parts:
payloads and names; the program and the value of a job, and the framing of its
process protocol; the rollback of types that are not `strictEligible` (the VM and
the stores checkpoint none) and calls that fail without an effect, of the
allocator; what section 3 names for each module. Allocation beyond the slots of a
slab (`Overruns`) writes outside the arrays: the model keeps that no slot is taken
and leaves out what the write destroys.

`Root1Broker` treats memory as sequentially consistent; the words it models are
single atomics with acquire and release operations, each used alone. The VMs of a
process share the arenas without a lock: every module that allocates has one VM.

## 9. Plan

1. `LogicRuntime`'s `HandlesResolve`, proved: the table apart from the engine,
   whose recursive operators keep the module from the prover.
2. The credential store: a rotating token refreshed by two threads.
