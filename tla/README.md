# Formal models of the Alap framework

This directory holds TLA+ models of the program logic of the Alap framework and
its language NilLang, the TLC configurations that check them on small
instances, and TLAPS proofs of theorems about most of them for instances of any
size. Line numbers in the modules' comments refer to the Go file the module is
about; `PROJECT.json` maps every definition to the lines it models.

- [The system](#the-system): its parts, their state, what is hard about them
- [The modules](#the-modules): which module models which part, and how
- [The runs](#the-runs): what each checks, its bounds, the fairness assumed
- [The proofs](#the-proofs): theorems, assumptions, inductive invariants
- [What the models show about the code](#what-the-models-show-about-the-code)
- [What is not modelled](#what-is-not-modelled)

To check: `tlc -config <run>.cfg <module>`, where the module is the MC module of
the table of runs (`EditorDocumented`, too, runs `MCEditor`), and `tlapm` on
`ListProofs.tla`, `ActorProofs.tla`, `SchedulerProofs.tla`, `UIProofs.tla`,
`NilBusProofs.tla`, `WebProofs.tla`, `ToolsProofs.tla` and `VMProofs.tla`.

## The system

Alap compiles NilLang sources to a bytecode (NABC) that a stack machine in Go
executes; around it there are a runtime for concurrent programs (actors, tasks),
a reactive UI, adapters for several platforms, and a small web stack with its
tools. In the table "+" marks what is modelled, "~" what is modelled in part.

| | Component | State | Operations | Correct when |
|-|-----------|-------|------------|--------------|
|+| Actor (`runtime/actor`) | mailbox channel, handlers, running flag under a RWMutex, context | Start, On, Send, Ask, Stop; event loop | one loop, messages processed once and in order, calls return |
|+| Scheduler (`runtime/scheduler`) | task queue channel, ids, activeTask counter, context | Spawn, Await, AwaitTimeout, Stop; workers | each task run once, an await reports its error, the counter exact, everything queued completes |
|~| NilBus client (`platform/onuron/nilbus`, `adapter.go`) | connection, id counter, table of pending calls | Init, Shutdown, SendNotification, Connect, Call, Close; read loop | an answer reaches its own call, no entry leaks, every call returns |
|+| Lexer, parser (`compiler/lexer`, `parser`, `ast`) | position | one function per production, error recovery | every loop consumes a token; the tree is what is written |
|+| Type checker (`compiler/types`) | scopes, classes | declarations, then statements and expressions | no false alarm about a name; it ends |
|~| Language server, formatter (`compiler/lsp`, `formatter`) | open documents | open, change; definition, rename, formatting | diagnostics are of the document's last text; an answer changes the layout or one name, no more |
|~| Code generator (`compiler/codegen`) | module, loop stack, scopes | genStmt, genExpr | the code means what the syntax tree means |
|~| Virtual machine (`runtime/vm`) | stack, frames, globals, heap | execute, invoke, SPAWN_TASK | a call leaves its caller's operands alone, runs end |
|~| Signals (`ui/state/state.go`) | value, list of listeners | Set, Get, Subscribe, unsubscribe; the component bound to one | each listener hears each value once while subscribed and none later; the screen shows the newest |
|+| Reconciler (`ui/state/reconciler.go`) | current tree | SetTree, DiffAndPatch | patched, the screen is the new tree when diffNodes reports all that differs |
|+| UI tree, layout, input (`ui/engine`, `ui/layout`) | nodes, builder stack, handlers | BeginNode, EndNode, AddProp, AddEvent, DispatchTouch; Compute | the builder nests, children fit, a touch reaches the topmost node |
|+| ABI, app host (`abi`, `platform/onuron/adapter.go`) | table of contexts by handle; active VM | Create, Execute, DispatchTouch, Destroy; RunApp | a handle shows whole trees; handlers run after their program |
|+| Router, middleware (`web/router`, `middleware`) | tree of routes, rate limiter's hits | AddRoute, Use, Match, Dispatch, Allow | the right route with its parameters and middlewares; no more hits than allowed per window |
|~| Web server (`web/server`) | - | ServeHTTP | the answer is what the chain makes |
|+| WebSocket manager (`web/websocket`) | clients by id | Register, Unregister, Broadcast | a message once to every connected client, no send on a closed channel |
|~| Package manager (`pkg/manager`) | manifest, lockfile | Install, Add, Remove | the lockfile agrees with the manifest; an edit changes one package |
| | SSE, SSR, authentication, migrations, versions, HIR, async helpers, GC statistics, drawing, templates, tools | - | I/O, formatting, pure calls | - |

**Interactions.** The language server and the compiler share the lexer, the
parser and the checker. The generator hands a module to the machine by value.
The machine's UI instructions call the builder of a UI tree; a host shows that
tree, lays it out and passes touches to it, whose handlers run on the machine
again. Signals drive the reconciler through a callback called *without* the
signal's lock, while the render target is called *with* the reconciler's, and a
touched handler runs *with* the tree's read lock. The adapter owns one NilBus
client; goroutines that send notifications share it with its read loop and with
Shutdown. A web request is matched under the router's lock and served outside
it, by middlewares of which one is the rate limiter. Processes of the package
manager meet only in the files of a project. Actors and schedulers share nothing
with one another; a task may call the scheduler that runs it.

**Hard behaviours.** `PROJECT.json` lists each hazard at its line. The kinds
that matter most: a lock held while a channel blocks (Actor.Send) or while a
callback runs (DispatchTouch); a read lock taken behind a waiting writer (Go's
RWMutex refuses it); a select with several branches ready, which picks any of
them; a flag and a context that say "stopped" at different moments; tasks that
wait on tasks of the same pool; a timeout that races its answer; a connection
replaced under a goroutine that reads it; a list copied under a lock and walked
without it; a context used after its handle was destroyed; a process killed
between two files it writes; a clock at the edge of a window; parser loops that
must consume a token on every wrong text; jumps patched after the code around
them; an operand stack that a statement in the middle of an expression must
leave as it found it.

## The modules

| Module | Models | Checked by | Proved in |
|--------|--------|------------|-----------|
| `RWMutex` | Go's `sync.RWMutex`, as actor and UI tree use it (external) | with Actor, Host | `ActorProofs` |
| `Actor` | `runtime/actor/actor.go` | `MCActor` | `ActorProofs` |
| `ActorContract` | what an actor's callers rely on (abstract) | Actor, by refinement | `ActorProofs` |
| `Scheduler` | `runtime/scheduler/scheduler.go` | `MCScheduler` | `SchedulerProofs` |
| `NilBus` | `platform/onuron/nilbus/client.go`, `adapter.go` | `MCNilBus` | `NilBusProofs` |
| `Lexer` | `compiler/lexer/lexer.go` | `MCEditor` | |
| `Parser` | `compiler/parser/parser.go`, the nodes of `compiler/ast/ast.go` | `MCEditor` | |
| `Types` | `compiler/types/types.go` | `MCEditor` | |
| `LanguageServer` | what `compiler/lsp/server.go` finds and answers, `compiler/formatter/formatter.go` | `MCEditor` | |
| `Documents` | the messages of `compiler/lsp/server.go` and a client | `MCEditor` | `ToolsProofs` |
| `Syntax` | how a syntax tree is written (abstract) | | |
| `EditorCorrect` | the properties that relate the six above | `MCEditor` | |
| `Values` | the values of `runtime/vm/vm.go` and their operators | with VM | |
| `Codegen` | `compiler/codegen/codegen.go` | with VM | |
| `VM` | `runtime/vm/vm.go` | `MCVM` | `VMProofs` |
| `Discipline` | what functions do to the stack they share; extends VM | `MCVM` | `VMProofs` |
| `Meaning` | what a syntax tree means (abstract) | | |
| `VMCorrect` | the properties that relate the five above | `MCVM` | |
| `Signal` | `ui/state/state.go`, `BindSignalToComponent` | `MCUI` | `UIProofs` |
| `Reconciler` | `ui/state/reconciler.go` | `MCUI` | `UIProofs` |
| `Layout` | `ui/layout/layout.go` | with Frame | `UIProofs` |
| `UITree` | `ui/engine/tree.go`, the layout tree of `ui/layout` | with Frame | `UIProofs` |
| `Frame` | a tree built call by call, laid out and touched | `MCUI` | `UIProofs` |
| `Host` | `abi/bridge.go`, the app of `platform/onuron/adapter.go`, the lock of `ui/engine/tree.go` | `MCUI` | `UIProofs` |
| `Router` | `web/router/router.go` | with WebServer | `WebProofs` |
| `RateLimiter` | the limiter of `web/middleware/middleware.go` | `MCWeb` | `WebProofs` |
| `Serving` | `web/server/server.go`, the middlewares; extends RateLimiter and Router | with WebServer | `WebProofs` |
| `WebServer` | Serving, and which route a path is for (abstract) | `MCWeb` | `WebProofs` |
| `WebSocket` | `web/websocket/websocket.go` | `MCWeb` | `WebProofs` |
| `Packages` | `pkg/manager/manager.go`, "nil add" of `cmd/nil/main.go` | `MCPackages` | `ToolsProofs` |

In the modules a definition whose comment begins with "Slip" is not part of the
model: it is the definition below it with a mistake one could make in that
code, and serves to show that a property notices the mistake. `MCUI` and `MCWeb`
hold several models that share no variable: the first state says which of them
runs (`part`), the others stay where they begin.

### Concurrent modules: Actor, Scheduler, NilBus, Signal, Host

A process is a goroutine, and its program counter (`pc`, `lpc`, or for Signal
what is left in `todo`) says where in the method it is. A step ends where
another goroutine can get in between: at a lock operation, a channel operation,
a select, an atomic operation, a `go` statement, and between a flag read and
what is done with it. A section under a lock that blocks on nothing else is one
step. What handlers, tasks and payloads compute is left out but for what the
code looks at: whether a handler exists, whether the work failed, whose answer a
payload is. Histories (`sent`, `log`, `posted`, `seen`, `due`, `shown`,
`parted`) record what happened for the properties and guard nothing.

- **Actor.** The lock `mu` is a record of readers, a waiting queue of writers
  and a writer, as Go implements it: once a writer has announced itself new
  readers wait. `StartLock`/`StartBody`/`StartLoop` are Start up to the lock,
  under it, and the `go` statement; On, Stop, Send and Ask are split the same
  way. `SendPush` is the blocking channel send that keeps the read lock;
  `AskPush` is the one that does not. The select of the loop is `LoopExit` and
  `LoopTake`, the select of Ask `AskStopped` and `AskAnswered`; when two
  branches are ready either may be taken. A Start after a Stop finds the context
  still cancelled, as in the code. *Bounds*: `MaxOps` calls for each client,
  each from the set `CallsOf` allows it, `Loops` identities for goroutines.
- **ActorContract** sees only the sequence accepted, how many have left the
  mailbox, which are finished, whether the actor is closed, and what calls
  returned. Messages leave in the order of acceptance and finish at most once;
  until the actor is closed they finish in that order; an answer comes only from
  a finished message; a refused call left no message. `Actor` maps its state to
  it with `INSTANCE ... WITH`: `taken` is what was sent less what is in the
  mailbox, `finished` the positions of the log's messages in `sent`.
- **Scheduler.** A worker's turn is `WorkerTake`, `CountUp` (atomic add), the
  work, `WorkReturns`, `CountDown`, `Close`. The work of a leaf returns nil or an
  error; the work of a parent spawns a leaf and awaits it on its worker, so that
  the methods are also called from inside tasks. `AwaitExpires` may come at any
  time, the completion notwithstanding. *Bounds*: `MaxTasks`, `MaxParents`.
- **NilBus.** A `Call` is split at each of its locks (number, register, read
  `c.conn`, write, select, unregister); SendNotification calls it again under the
  legacy name whenever it fails. The read loop reads `c.conn` anew before each of
  the two reads of a frame. The bus answers a request once, in any order, at any
  time or never, and may hang up; a closed connection fails reads and writes. A
  failed dial sets `isMock`, and calls are answered in the process. Ids wrap at
  `IdSpace`, for the 2^32 of the frame. *Bounds*: one notification per caller,
  `MaxConns` connections, `Shutdowns`.
- **Signal.** `SetStore` is Set's section under the lock, then one step for each
  listener in the copy; the bound component takes two, `Rebuild` (which reads the
  signal as it is then) and `Patch`. A value is the number of the Set that stored
  it, a tree the value it was built from. `LastFirst` says whether the
  application undoes subscriptions in reverse order, which the index kept by the
  unsubscribe function needs. *Bounds*: `MaxSets`, each listener once.
- **Host.** `ExecuteBytecode` is split where the context is written without a
  lock: a new VM is put in it (`New`), runs (`Start`, then two steps for each
  call on the tree, which takes the tree's lock for writing), and its tree is
  shown (`Publish`); a throw ends it early. `RunApp` publishes its VM first. A
  touch looks its tree up, takes the lock for reading (`TouchTree`), and runs the
  handler it hits with it; a handler that makes nodes waits for the lock its own
  touch holds (`Builds`). Destroying a handle leaves the context with whoever
  holds it. *Assumed of the host*: it runs one program at a time in a context.
  *Bounds*: `MaxHandles`, `MaxVMs`.

### Reconciler, UITree, Layout, Frame

A tree of widgets is a function from positions, the sequences of child indices
that lead to a node from the root, to the node there: its id, its props and the
number of its children. `DiffNodes` is diffNodes: children compared by position,
mutations in the code's order. Written as a function of the positions, each from
those of its children, it needs no recursive operator. The render target
(external: the platform's) keeps the parent and props of each node on the screen
and does what a mutation says. `Trees` are the trees an application may build;
every one may follow every other.

`UITree` is the table of nodes and the builder's stack. `Layout` computes the box
of every node, insets, growth, justification and alignment as layout.go does, in
parts of which `Pixel` make a pixel, so that what an instance divides is whole.
`LayoutNode` is the room each node is laid out in: the window for the root, for a
child of a row or column its box (`Flexed`), and otherwise what the margins of the
node around it leave (`RoomIn`). `ComputeLayout` then gives every node the bounds
the code gives it: a row or column has none but from the row or column it is in.
What is computed along the tree (`LayoutNode`, `Hit`, `TraverseNode`) is a recursive
function of the nodes, each of which was made before its children.
`Frame` makes one call of the builder per step and lays the tree out at the end,
for each size of the screen; its property touches the corners and the middle of
every node.

### Compiler and machine

`Lexer` reads a text character by character into tokens, `Parser` has one
operator for each parse function, in which the parser is a record (tokens left,
errors, whether it got stuck) that every one returns, and `Types` has both
passes of the checker over the tree. `Documents` is nills with its client, a step
for each message: a document is opened or typed in, the server reads a request,
checks the text, publishes, answers; the client applies a formatting or a rename.
What the server finds in a text and answers about it are constants of
`Documents` (`Finds`, `DefinitionOf`, `Formatted`, ...); `LanguageServer` defines
them, and the configurations of `MCEditor` put the two together. So the exchange of
messages can be proved about, which the recursive definitions of `LanguageServer`
cannot. `Syntax` writes a tree back as words, from what the language's
grammar is; `EditorCorrect` compares.

`Codegen` turns a syntax tree into the functions of a module, instruction by
instruction, as `genStmt` and `genExpr` do: the generator is a record threaded
through them (the functions done, and of the current one its code, its slots,
the jumps that wait for a target, and those that leave each loop), and `Patch`
fills a target in. `VM` runs the result one instruction a step; a thread is one
goroutine's frames, and all threads share the stack, the globals and the heap,
as in the code. A frame keeps the stack beneath its call, whose length is the
`stackBefore` of invoke. The modules it may be given are a constant; `MCVM` gives
it those that `Codegen` makes of its programs, the proofs any. `Discipline` says when
the instructions of a function keep their stack in order by themselves: at each
there is a number of values on it, whichever way led there (`KeepsTo`), as the
verifier of a bytecode computes them. `Meaning` evaluates the tree directly, with scopes and
without a stack or jumps; it is written from what the language's constructs
mean, not from the generator, and models no code. `VMCorrect` compares: what is
printed must be what the tree means.

`Values` keeps kinds, numbers, strings and places in the heap. An array is a
window of a place as a Go slice is, so that two arrays may share elements. Left
out: fractions, bytes, native functions, channels (the machine never makes one),
64-bit overflow, the methods of strings.

### Web and packages

`Router` keeps routes in a tree of segments, in which a node is known by the
segments that lead to it; `Search` tries the static child, then parameters,
then the wildcard, and takes back what it bound where nothing below matches. It
is written from the last part of the path back, what is found further down
before what is found here, so that it needs no recursive operator. `Serving` adds routes and middlewares while requests are
matched (one step, under the lock) and served (another, from the match made
before); the chain of middlewares, a limiter among them or not, is one step
(`Granted`, `Refused`, `Unlimited`), for it shares nothing but the limiter.
In the code each use of RateLimit has a limiter of its own; the model puts one
behind all. Of the value of a header the model keeps who wrote it: a middleware
(`Writes`) or the client, whose headers `ServeHTTP` puts into the context first
(`Headers`). What comes back passes its filter (`Forwarded`) in the order of a Go map
(`Sent`): of the two spellings of a request's id either comes last. A 404 has the client's
headers only. Headers a handler sets are left out. `WebServer` says without a tree which route a path is for. `RateLimiter` is also checked and proved by itself, with a clock
that may or may not move between two requests. `WebSocket` splits a Broadcast
client by client while it holds the read lock; two clients may have one id.

`Packages` splits a command at each file it reads or writes; a process may be
killed between two of them or in the middle of a write, which leaves the file
empty (`os.WriteFile` truncates first). Which of the old and new file names is
used is decided anew at each access, as in the code.

## The runs

Each run asks one question of one module; `PROJECT.json` names the properties,
and for every property of a passing run a slip (a mutated definition) that
breaks it. Deadlock is not checked where a program may simply have made all its
calls; that nobody waits for ever is stated by the liveness properties instead.

| Run | Instance | Question |
|-----|----------|----------|
| `ActorServes` (`MCActor`) | 2 clients of up to 3 calls, one of which may start, register, stop and talk, the other start and talk; 2 loops, mailbox of 2 | One loop until a Stop, nothing lost, duplicated or overtaken, the contract kept through Stop and restart; calls return, messages are processed, loops exit, but for callers a Stop strands |
| `ActorSendForgets` (`MCActor`) | one sender of 3, an owner that registers a handler late, mailbox of 1 | *Violated*: a Send returns |
| `SchedulerServes` (`MCScheduler`) | 1 client who may stop, 2 workers, queue of 1, 5 tasks, up to 2 of them parents | Each task once, awaits report what the work returned and nothing later, the counter; completion and return but for a standstill of the pool; termination |
| `NilBusSafety` (`MCNilBus`) | 2 callers (symmetric), 1 connection, 1 Shutdown, 4 ids | The pending table is exact, answers reach their call, success means posted |
| `NilBusRestart` (`MCNilBus`) | 1 caller, 2 connections, 2 Shutdowns, 2 ids | Across reconnects every call returns, and no read loop is held up |
| `NilBusReconnect` (`MCNilBus`) | 2 callers, 2 connections, 1 Shutdown | *Violated*: answers reach their own call |
| `EditorServes` (`MCEditor`) | 13 declarations, 14 texts of statements, the 392 texts of two binary operators grouped either way, each of the first two kinds also with any one word left out, doubled or replaced by one of six; one change, one question | The parser ends on every text, the tree is the text, alarms about names and types are right, answers keep the text, diagnostics are current |
| `EditorDocumented` (`MCEditor`) | a union type, as the documentation shows it | *Violated*: the server keeps running |
| `UISafety` (`MCUI`) | Host: 3 goroutines, 1 handle, 2 VMs. Signal: 2 setters, 2 listeners and a bound component, 2 Sets, undone in reverse order. Reconciler: 80 trees (none, a page, a title over a row or a list of 0 to 2 cells, the last with something below it or not; texts and a prop that change, come and go). Frame: rows and columns in 21 styles round 8 insides, in components, 2 screens | Only whole trees shown, calls return; listeners and the component served; a patch leaves the new tree when, and only when, diffNodes reports what differs; a touch finds what was drawn on top, children fit |
| `VMSafety` (`MCVM`) | 355 programs | What is printed is what the tree means; calls keep their caller's operands and return their value; runs end |
| `WebSafety` (`MCWeb`) | Server: 2 requests, 2 programs of routes, 7 paths, 3 methods, headers of the client on 3 paths. Limiter: 5 hits, 5 ticks, window of 2, limit 1. Sockets: 3 clients, two of one id, 2 broadcasts, queues of 1 | Routes and replies right, the limit exact, each message once and none on a closed channel, broadcasts return |
| `PackagesSafety` (`MCPackages`) | 2 processes (symmetric), 3 commands, 2 names of which one ends in the other, two manifests under either or both names | A command that runs by itself leaves the lockfile the manifest's; an edit changes the package it names and no other |

**Why the bounds are enough.** The actor's hazards need two goroutines that
race (two clients), a restart beside an old loop (two loops), a full mailbox with
a sender behind it (more messages than its capacity), and a message
behind another (three calls). The scheduler's need a busy and a free worker, a
full queue, a parent whose child waits in it, a Stop, and as many parents as
workers with a client behind them: one child is in the queue, the other cannot be
spawned, and the client's Spawn has no room either. NilBus needs a
late answer beside a later call (two attempts) and an id counter that wraps:
with four calls and four ids the last one gets 0, with two calls and two ids the
second does. As with 2^32 ids, no id comes round again while an answer to its
first call may be on its way; that a table of 2^32 ids might fill is left out.
A host needs a program that runs, another in the same place or through the
adapter beside it, and touches to both (three goroutines, two VMs); a second
handle would share nothing with the first but the adapter, which is there.
Signals need a Set that overlaps another (two setters, two Sets) and a listener
between two others (three). The reconciler's trees change in every prop and in
the number of the last children, at once. Layout and touch need a leaf, a
container and one inside another with every justification and alignment, room
left over and room missing. The limiter needs a hit exactly one window old, and
a second window after it. The sockets need a client that leaves while another
with its id stays, a full queue, and two broadcasts at once. Packages need two
commands that overlap and a third that comes after. The parser's loops are
reached by words that are wrong in every place of every production; two wrong
words at once are left out. The programs put every kind of loop in every other
and leave each in every way, with the caller in the middle of a sum; `Sums`
puts calls, assignments, choices and arrays in every operand of an expression of
three.

The trees of the reconciler come in every pair: with a node in the place of
another, a prop dropped, cells with something below them that come and go, and no
tree at all; each patch is judged by what it should leave.

**Families that avoid known divergences.** Where nodes move within a row, so that
an id is in two places of the trees of a patch, nothing is said of it. `LastFirst = TRUE` undoes subscriptions in
reverse order; in any other order `ListenersServed` fails, see below. The
programs of `VMSafety` avoid the constructs listed below whose code does not mean
what their tree does (a catch that should catch, short circuits, functions that
print in their caller's expression or use a top-level `let`, assignments to an
array's element, tasks that overlap). The texts of `EditorServes` avoid the
constructs the parser does not read as the grammar says. `ChildrenFit` speaks of
boxes that layout.go gives: not of a margin larger than its leaf, nor of a row or
column inside a plain container; and the programs of `UISafety` set no number below
zero (`NoneNegative`, the hypothesis of its theorem too), which nothing in layout.go
refuses: a negative margin draws a child outside its box. `LockCurrent` speaks of a
command that no other overlapped; `EditsExact` neither of the version a listed
package has after it is added once more, nor of the removal of a name that another
listed name ends in. The properties say what holds in the rest, and outside it
they fail.

**Fairness.** In the concurrent modules each goroutine is weakly fair: Go's
scheduler is preemptive and runs every goroutine that can run. `LoopExit` of the
actor and `WorkerExit` of the scheduler are strongly fair, for Go's select picks
uniformly at random among ready branches, and a branch that is ready again and
again is taken with probability one; weak fairness would let a busy mailbox
hide the cancellation for ever. Timers fire, so `AwaitExpires` and `CallTimeout`
are among the fair steps of their callers. In Host a goroutine's `Step`, what it
does once it has called, is weakly fair; in WebSocket a Broadcast's own steps
are, and the connections need not read. Nobody is obliged to make a call
(StartLock, Notify, SetStore, RunApp, Register and so on have no fairness), and
the bus owes nothing, neither an answer nor a hang-up. The machine runs on:
`WF(Next)`. Go's RWMutex has no fairness assumption of its own: the waiting queue
is in `RWMutex`. Signal, Packages and the language server are checked for safety
only.

## The proofs

TLAPS checks the theorems for every value of the constants that satisfies the
assumptions of the module: any finite or infinite set of clients, any number of
loops, any capacity above zero, any assignment of calls (`ActorAssumption`,
`NoMessageAssumption`: no message is the value that stands for none); any finite
set of workers, any clients, queue, number of tasks and parents, any stoppers
(`SchedulerAssumption`); any goroutines, programs and numbers of contexts and
VMs (`HostAssumption`); any limit, window and keys (`LimiterAssumption`); any
routes and requests, within the patterns the router is for (`RoutesAssumption`); any
clients, ids, broadcasts and capacity; any callers, connections, Shutdowns and
ids (`NilBusAssumption`); any setters, listeners and number of Sets
(`SignalAssumption`); any calls that build a tree, any sizes of the screen that
are natural numbers (`FrameAssumption`) and any number of parts in a pixel
(`PixelAssumption`); any documents, texts and edits, and whatever the server finds
in them and answers (`DocumentsAssumption`: nobody asks about a document that is
not open); any modules of the machine (`ModulesAssumption`: they are functions of
its instructions), any trees of widgets (`TreesAssumption`: they are trees); any
processes, packages, versions and commands, and any manifests in which no section
has a name that is a package's or ends in it (`PackagesAssumption`: Remove would
take the line it begins with; names are sequences). TLC evaluates
the assumptions on the runs, `NoneNegative` too. What a theorem needs beyond them stands in its
statement.

**`ListProofs`**: what proofs share. `SetInduction`, induction over the numbers,
carried out with the least counterexample (from the library's `WFMin`), because the
induction theorems of the library cannot be instantiated; `ForwardRecursion`,
`BackwardRecursion` and `BackwardInduction`, that a function defined at each number
from its value before, or its values at greater ones, exists, and how to reason
about it; `Flattened`, where the elements of a
flattened sequence come from, and `LastOfFlattened`, which is the last of a kind in it; the lemmas on `Starts`,
sequences that begin with one another: paths in the router's tree, positions in a
tree of widgets, stacks beneath the machine's calls.

**`ActorProofs`**

| Theorem | Says |
|---------|------|
| `TypeCorrect` | `Spec => []TypeOK` |
| `SendersPinned` | a Send that saw the actor running finds it running when it puts its message in |
| `OneLoop` | until a Stop at most one goroutine is, or is about to spawn, the loop |
| `Served` | until a Stop a running actor has one |
| `OneLoopServes` | both: the property `ServedByOne` of the run |
| `Ordered` | until a Stop, accepted = processed, then in hand, then waiting, in order |
| `KeepsItsContract` | the actor implements `ActorContract`, through every Stop and restart |
| `ReplyNeverBlocks` | the loop never waits to put an answer in its channel |

The inductive invariant is a conjunction of named parts.
`TypeInv` adds to the types that whoever is inside a call has a number for it and
whoever works on a message has one in hand (`HandInv`); without it
`cur[c].type` in OnBody means nothing. `PinInv` adds to SendersPinRunning the
reason: at `sendPush` the sender is among the readers of the lock, so a writer
cannot set `running`. `LoopInv` adds the converse of RunningIsServed (not running
and not cancelled, nobody serves), without which Start could spawn a second
loop, and that a client inside Stop has cancelled the context. `CurInv` ties the
loop's label to the message in hand. Order is then shown one action at a time:
accept appends at the right end, take moves the head of the mailbox into the
hand, finish moves the hand to the log, with OneLoop to know whose hand it is.

The refinement needs to hold after a Stop as well, when two loops may be at work
and messages may be left in the mailbox. `MessageInv` says where every message is:
each is sent by the call whose number it carries (`Letters`, `SentBy`), and once
(`SentOnce`); what is waiting is the end of what was sent (`Placed`), what
is in a hand or in the log came before it, in no two places (`HandsApart`); and
what an Ask may read has been logged (`AnswersLogged`). Then each action maps to
a step of the contract or to a stutter (`ContractStep`):

| Actor | ActorContract |
|-------|---------------|
| `StartBody`, `StartLoop`, `OnBody`, `StopBody` when they end a call | `Control` |
| a call refused | `Refused` |
| `SendPush`, `AskPush` | `Accept` |
| `LoopTake` | `Take` |
| `ProcessReply` | `Finish` |
| `AskAnswered` / `AskStopped` | `Answer` / `Abandon` |
| `StopCancel` | `Close` |
| every other | nothing changes |

**`SchedulerProofs`**

| Theorem | Says |
|---------|------|
| `TypeCorrect` | types, and `activeTask` is the number of workers inside a task's work |
| `RunsOnce` | no task is queued, run or closed twice |
| `CompletedTasksReturned` | a completed task has returned |
| `AwaitsReport` | what an await reported is the error of its task |
| `ResultsAreReported` | and no step ever writes that error again (an action property) |
| `StandstillIsForGood` | from a state in which every worker awaits what only a worker can do (`Standstill`), every step leads to such a state again |

`TypeInv` here carries the counter as well, since `activeTask \in Nat` survives
the decrement only because the worker that decrements is counted; the counting
itself is by the cardinality lemmas `CountedUp` and `CountedDown`. `PlaceInv`
says that every task is in one place: on its way into the queue, in the queue,
with one worker, or completed, and that no number above `nextID` has been given
away; RunOnce alone is not inductive, as a task about to be queued must not be
anywhere yet. The last two theorems follow from it: the error of a task is
written by the worker that holds it, which is not completed. `StandstillIsForGood`
uses both: what a standing worker awaits is in the queue, so not completed, and only a
worker takes it from there or makes room.

**`UIProofs`**: `ListenersAreServed` and `ComponentIsCurrent`, the properties
`ListenersServed` and `ComponentFollows`, for any setters and listeners, when
subscriptions are undone in reverse order. That hypothesis is needed: without it
the first is false, as `LastFirst = FALSE` shows on two listeners. `SignalInv`
relates what is going on to the histories. `Placed`: a listener is at the place its
unsubscribe function remembers, which only the reverse order keeps true.
`Calling`: setters that are calling listeners have different values, and call
nobody twice. `Delivery`: whoever is due a value has heard it or is still in
the copy of the list that its setter walks, never both, and nobody else hears it.
`Parting`: what was stored after a listener left is not due to it. For the bound
component `Building` says that a rebuilt tree is no older than the value its
setter stored, `Showing` that what the component was called with has been
on the screen, or newer, and `Following` that neither the tree nor a rebuild that waits to
be patched is older than a value the component was called with, by whatever setter,
unless that value was stored beside another rebuild (`beside`, a history variable); and
once a Set has returned the component was called (`ReturnedHeard`).

`TouchesFindTopmost` is the property `TouchTopmost`, for any calls that build a tree
(`FrameAssumption`: they are calls), any sizes it is laid out at and every point.
The invariant `Shaped` says that the children of a node were begun after it, which
is why drawing and asking come to an end. Then by induction from the last node to
the first (`HitIsLastDrawn`): what a touch finds at or below a node is the last,
in what is drawn at or below it, of the nodes that may be found. Drawing goes
through the children forwards and asking backwards, so the last child that has one
decides on both sides, and the node itself comes last of all where it is drawn first.

`ChildrenAlwaysFit` is the property `ChildrenFit`, for any calls that set no number
below zero (`NoneNegative`), any sizes of the window and any `Pixel`: where there is
room for the children of a row or column, they lie in its padding, in order and
the spacing apart, and fill it when every share is whole. The argument has two
halves. For one row or column: what its children take along it (`Extents`) is, as
the loop adds it up, no more than what is fixed and what is left, since the shares
add up to no more than the rest (`SharesSum`, by induction on the partial sums of the
extents, the fixed sizes and the growths at once); each justification puts half,
all or none of the rest before the first child or the same part between any two
(`JustifiedIs`); so the last child ends inside (`BoxesFit`). For the tree: a node is
a child in one place only, and the root in none (`OnePlace`), so every node has at
most one room (`OneRoom`), everything drawn has one (`DrawnHaveRooms`), and whatever
a node's bounds were, the same widgets have the same rooms (`SameLayout`). The
inductive invariant `FitInv` adds to `Shaped` that numbers are natural, nodes
are in one place, and, after a layout, that the bounds of every node that was given
any are those of its room (`LaidOut`); laying the tree out again at another size keeps
it because rooms depend on widgets alone. It was checked with TLC on the trees of
`UISafety` before it was proved. A margin is shown to keep a child inside its box
(`InBox`) as long as something is left of the child.

For the host:

| Theorem | Says |
|---------|------|
| `TreesShownWhole` | a context shows no tree but of a program that ran to its end, and the newest such unless one is about to be shown |
| `HandlersRunAfter` | a handler touched through a handle runs when its program has ended |

A tree is whole because its VM has ended and a VM that has ended never changes
again; for that to be inductive one must know whose VM each goroutine is at.
`HostInv` has: types; `OneAtWork`, the assumption on the host, kept by the guards;
`NewestHeld`, the VM of a context is the last made in it, without which `Start`
might run an older one; `AllPlaced`, what each goroutine works on is as far as
its program counter says; `ActiveMade`, that the adapter's VM is the adapter's;
and `ShownEnded` and `EndedShown`, TreesWhole in two halves. The steps that change
no table of the host (`LocalActions`) and those of a running program
(`ProgramSteps`) are shown once for all of them.

`PatchesAreRight` is the property `PatchesRight`, for any trees of any depth and
width: a patch of what shows the current tree, in which no node moves
(`StayInPlace`: no id is in two places), leaves what shows the new tree if, and only
if, the difference is `Reported`: no node took the place of another, no prop was
dropped, and no node was added that has children. A node may be removed with
everything below it. While ids stay, every mutation also changes what is shown.
That trees change only in such a way is nowhere required by the code, so it is no
hypothesis but one side of the equivalence. The proof follows the mutations in
their order. `Mixed(d, ...)` is what is shown when the nodes at the positions in `d`
are as the patch leaves them (`Kept`, or gone, or added) and the others as in the
old tree; `Leads` says that mutations lead from one such picture to another; and
`Takes` that those of a node lead from `d` to `d` with all positions at and below the
node. `GoneIs` says what a removal takes, by the number of nodes shown, and
`GoneBelow` that it is what is below the node in the old tree. Children add their
positions one after the other, which never overlap (`OnTheWay`, `AboveIn`), and the
recursion is from the deepest positions up (`Deepest`, `DiffTakes`). `AllDone` then
compares the last picture with the new tree.

**`WebProofs`**: `LimiterIsExact`, no window has more grants of a key than
the limit and nobody is refused who did not have as many. The hits remembered
are forgotten as time goes on, so the invariant relates them to the history:
`Ordered` (the grants are in the order of the clock) and `Remembered` (each hit
is a grant, and every grant of the last window is a hit). A grant then follows
fewer than `Limit` others in its window, by `CountedSince`; a refusal follows as
many, by `ValidInWindow`, an injection of hits into grants.

`RepliesAreRight`: the property `RepliesRight`, and the limiter exact behind the
server too, whatever routes are added (`ServingAssumption`: every
request comes from somewhere that is counted and names its headers as net/http
does; of the headers the middlewares write, the ones that do not begin with `X-` or
`Access-Control-` are the three named there). A reply is right when it is made
(`HandleRight`, `RefusalRight`, `MissedRight`, of which each has its headers from
`SentRight`), and stays so while others are served, since who was
granted or refused something stays so (`Counting`).

`RoutesAreRight`: the property `RoutesRight`, for any program of calls that add
routes and middlewares and any requests, as long as a wildcard ends its pattern and
no name stands for two parts of it (`WellFormed` in `RoutesAssumption`). Without that
it is false: the code takes other patterns, but finds no handler behind a
wildcard, and a name that comes twice has one value. The property knows no tree;
it compares patterns by the first segment in which they differ and by when
their beginnings were added. The invariant `TreeRight` says what the tree has
kept of that: its nodes are the beginnings of the patterns added so far, each
with the children it has patterns for in the order they were first added, and with
the latest handler of each method, in the middlewares used until then. A search then finds the
first pattern for the path in the order in which the tree is walked, binds
its parameters and leaves none of a branch it gave up (`SearchRight`, from
the end of the path back), and that pattern is before all others for the path
(`EarlierIsBefore`, `BeforeOneWay`), hence the best. What a request was given (`GivenRight`)
is said of the calls made before it was matched, so that what is added later
changes nothing. Both recursions of the search are those of `ListProofs`: along
the children of a node forwards, along the parts of a path back.

For the sockets `NoSendOnClosed` and `SocketsServed`, with ids any
function of the clients. Whom a Broadcast has still to serve is connected
(`LeftLive`), because nobody leaves while it holds the read lock and the table
names nobody who has left (`Tabled`). That everybody gets each message once, or
had no room for it, is `Served`: of those a Broadcast is due to, each is still
to be served, or has the message once, or was found full. It is due to the
connected clients that never shared their id; that such a client is in the table is
`OwnId`, and for that to last a client that has a rival must be known to have
one for ever (`Rivals`).

**`NilBusProofs`**

| Theorem | Needs | Says |
|---------|-------|------|
| `PendingExact` | `IdsLast` | the pending table holds exactly the Calls in progress, under their own ids |
| `SuccessMeansPosted` | nothing | a SendNotification that succeeded has posted its notification |
| `OwnAnswers` | `IdsLast`, `OneConn` | a Call returns the answer to its own request, or an error |

`IdsLast` says that there are finitely many Calls and more ids, `OneConn` that
there is one connection; with two the third theorem is false, as the run
`NilBusReconnect` shows. (The run `NilBusSafety` has as many ids as Calls, so there the
counter wraps, just before two Calls would share an id.) That the ids do not come round is itself to be shown:
`Enough` says that the Calls which may still draw a number, the retries not begun
among them, do not take `seqID` past the number of Calls. `NumbersOwn` follows, and
`PendingInProgress` is inductive with it. SuccessMeansPosted needs none of
this: `AnswersPosted` says that every payload on a stream, in the hand of a loop,
in a channel or in an outcome belongs to a Call that was posted (or is garbage,
which is no success). OwnAnswers needs to know whose a number is after its
Call has left: `Tied(i, c)` says that number `i` has been drawn and nobody but `c`
can be found under it, and a step never unties (`TiedKept`). `Framed` says that each
header on the stream is followed by the payload it is tied to, and `InStep` and
`InHand` that the loop is where the stream is: it reads headers where headers
are, and what it delivers belongs to the Call it delivers to. A second loop on
the same stream breaks `InStep`.

**`ToolsProofs`**

| Theorem | Says |
|---------|------|
| `LockFollowsManifest` | a command that ran by itself leaves the lockfile of the manifest, if no lockfile is taken for none |
| `EveryEditExact` | in whatever manifest there is, adding a package that is not listed lists it with its version, removing one that no other listed name ends in takes it, and neither changes another |
| `ServerIsCurrent` | the server is behind the editor by no more than what it has not read |

A command that began with nobody else under way stays by itself or stops counting as
such (`OneAlone`), so the manifest it has read is the one on disk
(`HandCurrent`), and nothing is under way once it has ended (`Quiet`).
`LockStays`: writing the lockfile does not change which of its two names is the
one found.

That edits are exact is a fact about lists of lines of any length. An edited
manifest is *woven* from the old one (`Woven`): each line that is left is an old
one, in its order, or is the new entry after a header, and no line that begins
or ends a section is missing. Whether a line is in a section of dependencies is
then the same before and after (`WovenSection`), so the old entries list what they
listed (`WovenSays`). That flattening the pieces of Add and Remove weaves is by induction
on their number (`Flattened`). Remove spares the lines of sections only in a
`Regular` manifest, in which none ends in a package's name; `ManifestsRegular`, every
manifest on disk or in a process's hand is regular, is the invariant.

For the language server `Followed` says of every open document that either no edit of
it is unread and the server's text is the screen's, or the last unread edit is the
screen's text. An answer is about the text it comes back to because a client that has
asked waits (`OneQuestion`, `QuestionFits`, `AnswerFits`).

**`VMProofs`**

| Theorem | Needs | Says |
|---------|-------|------|
| `OperandsStay` | one goroutine, called functions disciplined | no call takes a value its callers had pushed (`OperandsKept`) |
| `ValuesReturned` | and no step drops an error | a function returns with the stack it was called on and its value above (`ReturnsValue`) |

They hold for whatever modules the machine is given, generated or not, in which
functions call one another, throw, loop and return from anywhere, as long as what
they call is `Disciplined`. Each hypothesis is needed, and stands for a fault of
the code listed below. A function that prints in the middle of its caller's
expression is not disciplined (PRINT pushes nothing and its statement pops), nor is
one with a `new` of two arguments. Goroutines that share the stack take each
other's values. An error that `f.call(...)` drops (`ErrorDropped`) leaves above the
caller's operands what the calls it ended had pushed: nobody's operand is lost, and
`OperandsStay` holds, but a value returned later may have others beneath it. That
generated code is disciplined is `FamilyDisciplined` in `MCVM`, an assumption
that TLC evaluates: it holds of every function called in the programs of the run,
but for those that spawn tasks, so the theorems speak of all of these programs.

`MachineInv` is the inductive invariant, once for both theorems (`strict` for the
second). The stacks kept for the frames begin the stack and grow from frame to
frame; the frame at work has as many values above its own as its function's heights
say at its instruction (`Placed`), or more if an error was dropped; and a frame
that waits is placed where it has one value more, the one the call will bring.
What an instruction does to the stack is its `Pops` and `Pushes` (`Works`, `Worked`);
a call, a return and an error are shown apart (`Entered`, `Left`, `Failed`).

**Only model-checked**: everything under fairness (tlapm has no liveness beyond
what LS4 shows), and what is computed by recursion over data, for modules that
declare a recursive operator are beyond tlapm: the lexer, parser and checker and
what the server finds (`ParserEnds`, `TreeIsText`, `AlarmsRight`, `AnswersRight`)
and the generator (`PrintsMeaning`). `ChildrenFit` is proved of whole numbers, in
which a share may be rounded down; the code divides floating-point numbers.

## What the models show about the code

Shown by a run (the findings of `PROJECT.json`):

- `actor.go:100` A Send waiting on a full mailbox keeps the read lock; an On then
  waits for the write lock, and the loop's own read lock waits behind the On.
  None of the three moves again, although Send is "fire-and-forget".
- `client.go:207` After Shutdown and Init the old read loop may go on with the
  new connection beside its own loop; one reads a header and the other its
  payload, and a Call returns bytes that are not its answer.
- `types.go:292` A union type makes its first alternative an alternative of
  itself; the checker recurses until the stack overflows, and the language
  server and the compiler with it.

Seen while modelling, without a run of its own. In the runtime:

- After Stop and Start the old loop may still be in a handler while the new one
  takes the next message, so two handlers run side by side; Stop waits behind a
  Send stranded with the read lock (`LoopsExit` and `CallsReturn` say exactly
  when); the scheduler strands a task whose child is left in the queue by a Stop
  (`WorkersTerminate` names the case).
- As many parents as workers, each awaiting a child in the queue or spawning one
  onto a full queue, and the pool stands still for good, though `scheduler.go:1`
  calls it cooperative. `SchedulerServes` reaches the state; `TasksComplete` and
  `CallsReturn` excuse it by name (`Standstill`) and nothing else but a Stop, so
  that only AwaitTimeout returns in it, and `StandstillIsForGood` proves that the
  pool never leaves it.
- A notification may be posted twice: its first Call times out, and is served.

In the UI:

- `state.go:57` Unsubscribing by index removes the wrong listener, or none, once
  an older listener has left (`LastFirst = FALSE` shows it).
- The tree on the screen stays behind the signal when two Sets overlap and the
  older rebuild is patched last (`BehindOnlyBeside` is the exact statement: the value was stored
  while another setter had rebuilt and not yet patched).
- diffNodes adds a node without its children, updates a node that took another's
  place under an id the screen does not have, and never reports a dropped prop:
  `PatchesRight` says that these, and no others, leave the screen stale where no
  node moves. A child that moves up when one before it is removed is
  reported under its id while the screen has it further down, and then removed.
- A Row or Column inside a plain container, the root of every component
  included, is never given bounds, though `layout.go:71` says it is for "any
  node"; "space-evenly" is laid out as flex-start; a margin larger than a leaf
  puts it outside its parent. A node begun after the root has ended is in the
  table but not in the tree.
- The ABI never lays a tree out, so every box is at the origin and empty.
- RunApp publishes its VM before it runs, so touches meet half-built trees; two
  touches share the read lock and run two handlers on one VM's stack; a touched
  handler that builds nodes waits for its own touch, and every later touch and
  call on that tree waits for it (`CallsReturn` says so exactly).

In the compiler and the machine:

- A throw inside `try` is never caught; `a[i] = v` stores nothing; a function
  does not see a top-level `let`; a `let` in a block shadows after it too; `&&`,
  `||` and `??` evaluate both sides, and `0 ?? 5` is 5; `push` does not change the
  array of the variable, and a slice shares its elements; nested anonymous
  functions get one name; `new` with other than one argument leaves the stack
  unbalanced; a `break` in a function inside a loop patches the wrong code;
  `spawn f()` runs `f` first and then spawns a call of its result; tasks share
  the operand stack without a lock; values of different kinds are compared as
  numbers, so `"a" == 0`.
- `vm.go:863` PRINT pushes nothing and its statement pops, so a function that
  prints in the middle of its caller's expression takes the caller's operand.
- The parser: `for (;;)`, `i++`, an arrow with a return type and a top-level
  `async function` are errors; characters, `**`, `&`, `|`, `^`, `<<`, `>>` and
  `typeof` are tokens that no production reads; `>>` ends no nested type
  argument; `f(a < b, c)` is taken for a type argument; `a<-1` is a send; of a
  function type the last parameter is kept; `T[]?` is not nullable and `T[][]`
  has one dimension.
- The checker: `let x: i32 = 5` and sums of untyped parameters raise alarms;
  names of nested functions, imports and natives are reported undefined;
  `type X = i32` renames i32 everywhere.
- The formatter puts a blank after a ":" inside a string; rename and references
  take the word inside longer words; a definition may be found inside "let".

On the web and in packages:

- A route of method "*" runs without its middlewares, which `router.go:234` looks
  up under the method of the request; the search ignores the method, so
  POST /users/me hides GET /users/:id; Referrer-Policy, which SecurityHeaders sets, is not among
  the headers that are forwarded; a 404 has none of a middleware's headers, but those of the
  client that pass the filter. RequestID looks for "X-Request-ID", which net/http spells
  "X-Request-Id": a client's id is not taken over, but may be sent back instead of
  the new one.
- Under one id, the client that leaves takes the newer one out of the table; a
  second Unregister of one client panics; two Broadcasts may reach two clients in
  different orders.
- Adding a package that is listed keeps its old version, for the later line
  wins; Remove drops every package whose name ends in the one given, and cannot
  remove a name in quotes; it takes the line of a section whose name ends so too,
  and the lines of that section then belong to the one before; `nil add` writes only the manifest; Audit says
  (`manager.go:200`) that it checks the lockfile "for tampering" and never reads
  it. A process killed between its two writes leaves an old lockfile, which
  the next command that installs by itself puts right.

## What is not modelled

Components, each with its reason in `PROJECT.json`: cryptography, drawing and
widgets, project templates, sensor values and the wrappers of Go's library are
I/O or pure library calls; the command line tools call the rest in sequence;
garbage collection statistics are counters nothing reads; migrations and the ORM
change a list in one critical section, with no database behind it; semantic
versions, HIR and the constant folder, and the async helpers are reached by no
program, at most by their own tests. Of these only the async helpers start
goroutines, each of which writes once to a channel with room for it.

Inside modelled parts: of NilBus the byte level of the stream (a loop that has
lost the frame boundary skips twelve bytes at a time, `client.go:213`; the bus of
the model sends whole frames), Publish and Subscribe; of the state package the
keyed Store; of the generator the UI statements, whose calls Frame and Host take
as they come, and the NABC format; of the machine native functions, string
methods, fractions and the UI instructions; of tasks the interleaving *within*
one instruction (the model's tasks interleave between instructions); of the
language server the requests with fixed answers, the outline, framing and JSON;
of the web server bodies, queries, SSE and SSR. Two hazards have no property
because the code has the fault: tasks on a shared stack, and a throw inside try.
