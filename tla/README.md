# A verification of tam

tam runs coding agents (Claude Code, Codex, any command) in pseudo-terminals that
a background daemon owns, and keeps a ledger of the tasks they work on. This
directory holds TLA+ models of it, the TLC configurations that check them, and
proofs about them that TLAPS checks. Every definition is translated from the
Rust code under `src/crates/`; `PROJECT.json` gives the lines.

## The system

| component | state it keeps | operations | code |
|---|---|---|---|
| agent table, request handlers | `DaemonState` behind one tokio mutex: agents by name, next automatic id, shutdown flag, idle deadline | Spawn, List, Kill, SetNotify, HookEvent, Shutdown, Scrollback, Resize, Hello | `tam-daemon/src/daemon.rs` 422-674 |
| monitor task | a tick counter, the refresh jobs it holds outside the lock | once a second: exit sweep, state changes, idle countdown; every tenth tick a context refresh in three phases | `daemon.rs` 127-231 |
| accept loop, connections | one task per connection, a client counter, an event receiver each | accept, count, request/response, push events, attach, leave; the poll of the shutdown flag | `daemon.rs` 55-123, 233-339 |
| agents and kill tasks | child process, stored and reported state, context, notify flag | launch, SIGTERM, wait, SIGKILL, wait, abandon | `agent.rs` |
| PTY stream | scrollback ring, broadcast channel of 64 chunks, viewers counter | reader thread, attach session, resize | `agent.rs` 290-341, `scrollback.rs`, `daemon.rs` 283-403 |
| providers | settings and trust files of Claude, usage files | map hook events, detect state, install hooks, trust a directory, read usage | `tam-daemon/src/provider.rs` |
| notify hook | none | start a command for a state change | `notify.rs` |
| client connection | socket, buffered events | connect with autostart, handshake, request/response, read message, relay | `tam-cli/src/client.rs` |
| task ledger | an append-only file of events, read whole | append, derive the active tasks | `ledger.rs` |
| command flows | none | new, run, stop, attach, drop, ps, notify, shutdown, hook-notify | `main.rs` |
| terminal interface | task list, selection, filter, mode | keys, events, reloads | `tui/app.rs`, `tui/mod.rs` |
| web bridge | none | spawn and record, kill, notify, attach over a web socket, watch events | `serve.rs` |
| worktrees | directories and git branches | create, initialise, delete, discover, name | `tam-worktree/src/` |

How they interact. Clients (the command line, the terminal interface, the web
bridge, and the agents' own hooks) talk to the daemon over one Unix socket: JSON
lines, a response to each request, and events pushed in between. The handlers and
the monitor share the table through the mutex and leave it only at an await: the
monitor for its file IO, a connection between its reply and its look at the
shutdown flag, a kill by moving the agent into a blocking task. The reader thread
of an agent shares the scrollback and the broadcast channel with the attach
sessions. The ledger is shared by processes that never lock it.

What is hard here: requests, ticks, exits and kills in every order; what the
monitor read before its file IO and writes after it; names that are reused while
the old process still dies; the shutdown that races new connections and new
agents; the automatic shutdown that must not race work; events that must add up
to the state of the table; two readers of one PTY; several daemons and several
commands that read, decide and then write files without a lock. `PROJECT.json`
lists each of these under "hazards", at its line.

What makes each component correct:

- table and processes: a process that runs has one owner that will kill it or
  notice its exit; names are unique; automatic names never take a used one;
- monitor: an exited agent leaves the table, an idle daemon stops, a busy one
  does not, and every change of what it reports is announced once, in order;
- shutdown: it ends the daemon and kills the agents;
- PTY stream: an attached client sees the output from some point on, whole and
  in order, unless it lags; viewers counts the sessions;
- clients: what they show follows from the snapshots and events they received;
- ledger and flows: a task name is active at most once, its directory belongs to
  it, and an agent that runs belongs to a task;
- worktrees and files: a half-failed operation leaves something that can be
  retried; a file that two writers replace is never half of each.

## The modules

They fall into five groups that share no variables:

- the daemon: `AgentRegistry` and `AgentFeed`, which `Daemon` implements;
  `DaemonHistory`, which observes it;
- an agent's terminal: `Scrollback`, `PtyStream`;
- a client: `ClientStream`, what it knows, of the daemon of `AgentTable`, which it
  shares with `AgentFeed`; `TuiApp`, what it shows; `Relay`, what
  an attached one passes on; `Lifecycle`, how it finds or starts a daemon;
- tasks: `Ledger`, which `TaskFlows` and `LedgerReplay` use; `TaskBranches`, which
  follows the git branches beside `TaskFlows`;
- files and names: `HooksFile`, `TrustFile`, `PrettyNames`.

Where one group needs another it takes the least of it: `TaskFlows` has agents that
are launched, killed and exit, `ClientStream` has the states agents were last
reported in, and what they leave out of the daemon is in `Daemon`.

### The daemon

**`Daemon`** is the table with everything that acts on it. A step is one critical
section of the mutex, so `HandleSpawn`, `HandleList`, `HandleKill`,
`HandleSetNotify`, `HandleHookEvent`, `HandleShutdown`, `HandleAttach` and
`HandleQuery` are the request handlers, whole; `MonitorTick`, `WriteContext` and
`MonitorStop` are the critical sections of the monitor, with `mon = "io"` for the
time between phases 1 and 3 of the context refresh, when the lock is not held.
`Accept`, `Begin`, `Leave` and `Recheck` are the life of a connection: between
`Accept` and `Begin` the task exists and is not counted yet, and between `Reply`
and `Recheck` it has answered and not yet looked at the flag. `PollSleep` and
`PollStop` are `shutdown_signal` and the end of `run`: `Accept` puts `poll` back to
"sleep", because leaving the `select!` drops the future and its timer. `Exit`,
`Signalled`, `Reap` and `GiveUp` are the processes and the kill tasks.

`agents` is a function from the names in use to agents; an agent is its process,
provider, stored state, reported state, context usage and notify flag. Processes
are numbered by launch, which tells an agent from the next one of its name. A
spawn that fails after its process was launched (no reader thread) leaves the
process in `abandoned`. `idle` is the number of seconds left to the deadline; the
clock (`Elapse`) is independent of the monitor's ticks, so a tick may be late.
What is abstracted: arguments, directories, prompts, sizes, exit codes and the
text of replies. The state of an agent whose provider looks at output is any of
the two that its heuristic can return, at every look.

**`AgentRegistry`** is what the daemon promises of names and processes, and nothing
else: a name holds one process, a process is given up only dead or handed over to
be killed, until the registry closes. `Daemon` instantiates it (`Registry`) with
`phase` read off the flag and the accept loop, `holds` off the table, `dying` off
the kill tasks and `adrift` off what was abandoned or dropped; requests that fail,
ticks that remove nobody, connections and events are stuttering steps.

**`AgentTable`** and **`AgentFeed`** are what the daemon promises those who listen to
its events. `AgentTable` has the ways the reported states change (`Launch`, `Vacate`,
`Tick`) and what is told of each (`Spawned`, `Exited`, `TickTells`); `AgentFeed` makes
a specification of them: a step tells all it does to the reported states and nothing
else, except that a removal may be silent, as those of a List and of a shutdown are.
`Daemon` instantiates it (`Feed`) with the reported states read off its table
(`Reported`) and the events of the step without those of context usage (`Told`).
`ClientStream` takes its daemon from `AgentTable`, so that what the client relies on
is what `Daemon` implements.

**`DaemonHistory`** observes the daemon through three history variables, which no
action of `Daemon` reads: `announced`, what a subscriber knows that has read
every event, `quiet`, for how long the ticks have seen neither agent nor client,
and `before`, how many processes had been launched when the daemon decided to
shut down.

### An agent's terminal

**`Scrollback`** is the ring buffer as a function: `RingWrite(ring, data)` is the
buffer after a write, and `Kept(all)`, the end of all that was written, is what it
is compared with.

**`PtyStream`** is what `Daemon` leaves out of an agent: its output. The process
writes the bytes 1, 2, 3, ... (a byte is its own position, so a loss or a repeat
is visible); `ReaderStore`, `ReaderSend` and `ReaderEnds` are the reader thread,
which never takes the daemon's mutex; `Subscribe` and `CopyScrollback` are the two
halves of the critical section of an Attach, kept apart because the reader may act
in between, while `Locked` keeps every other handler out; `SendAttached`,
`SendScrollback` and `ForwardInput` are the start of `handle_attach_session` with
its two early returns; `Deliver`, `SkipAhead`, `ChannelCloses` and `RelayStops`
are the select of its two tasks. The broadcast channel is tokio's, modelled from
its use: all chunks ever `sent`, of which a receiver can take the last
`ChannelCapacity`; a slower one is told Lagged and goes on with the oldest kept.
Of the agent's life `Daemon` describes, `Sweep`, `Kill` and `KillTaskEnds` remain:
they decide when the Agent's own sender of the channel goes. The process leads the
terminal's session, so after its exit nobody can write; a child of its own can
hold the terminal open for longer, and then the sessions stay. What a client types
is modelled only as the write that fails on a closed terminal. The end of `run`,
which cancels every session, belongs to `Daemon`.

### A client

**`ClientStream`** is a long-lived client, the terminal interface, and its
connection to the daemon. The daemon is that of `AgentTable`: `agents` has the state
each was last reported in, other clients launch, kill and list (`OtherSpawn`,
`OtherKill`, `OtherList`), and the monitor ticks (`Monitor`). The state an agent is in
between two reports is any: a list answers with the states it finds (`ServeList`).
`channel` is the broadcast receiver of the connection task, which forgets
the oldest event when it is full (`Enqueue`); `Forward` and `Serve` are the select of
that task; `Send`, `SetAside` and `Receive` are `Client::send`, `ReadMessage` is
`read_message` in the loop of `tui/mod.rs`, with the events that were set aside
handed out last first, as the code does. `todo` is the requests the action at hand
has still to make, the reload at its end included. `doubtful` remembers the names
the client cannot know the truth about, for one of four reasons, each a place where
the code loses something: an event the channel dropped, two events of one name that
were set aside, a list that finds an agent in another state than the one reported (or
finds some of its events still under way when it removes it), an agent removed in
silence by the list of another client or by a shutdown. A launch or an exit that is
told ends the doubt, and so does a list of the client's own when nothing of the name is
under way. Abstracted: context usage, peek and status texts, a connection that is lost
(the interface ends with an error).

**`TuiApp`** is what the interface shows: rows sorted by urgency, the selection as an
index into those the filter leaves, the dialogs, and every key in every mode. Any
event and any list can arrive when the loop is at its select, so that what
`ClientStream` delivers is among it. An action that talks to the daemon is one
`action`, over when its reload (`SetTasks`) is.

**`Relay`** is `raw_relay`: the bytes an agent writes are any sequence of those
`KbdProtoFilter` tells apart, `AgentOutput` reads any number of them at a time, and
`Filter` is one turn of the filter's loop over what was read. What the terminal should
get (`Plain`) is said by places in the output, without the filter's states.

**`Lifecycle`** has several daemons and one socket path, which is all that says
whether there is a daemon. `RemoveStale`, `Bind`, `LoopEnds` and `CleanUp` are the
start and the end of `Daemon::run`; `Connect`, `StartDaemon` and `Poll` are
`Client::connect`; `Crash` is the death of a daemon at any point. `overlaps` are
the daemons whose starts overlapped, of which the code promises nothing.

### Tasks

**`Ledger`** says what one event does to the tasks, and **`LedgerReplay`** runs the
loop of `active_tasks` beside it: its map and its set of dropped names against the
tasks event by event.

**`TaskFlows`** composes the ledger, the worktrees and the agents. A process
loads the ledger when its command begins, and goes from step to step with what it
read then (`cmd`); each step is one operation on one store and any of them can fail
or be the last the process lives to take (`Abandon`). The terminal interface works
from the list it has loaded (`seen`) and reloads after each command; bridge requests
launch first and record afterwards. The history variables say what the code does
not promise: `left`, worktrees a failed or dead command left behind; `stray`, agents
whose task was not recorded or whose drop did not reach the daemon; `raced`, names two
commands worked on at the same time, or one on a list that was stale. There is no lock,
so little is promised of the names in `raced`. `owed` is a counter for each name: a launch
adds one, a run that is appended takes one off, and so does a failure or a death between
the two, which is the one excuse there is. It stands for the log the session pickers
read (`task_runs`), which holds every run of a name, those of dropped tasks included,
and which no event resets as creating a task resets `runs`: the difference is kept
rather than the log, which would grow without bound. An `Append` is whole: a process
that dies amid a line is not modelled.
Abstracted: fetching and choosing the branch (a step that can fail), the files and
commands of the initialisation (two more), times, sessions and providers.

**`TaskBranches`** adds the local branches: `AddBranch` and `DeleteBranch` are the
steps of `TaskFlows` with what they do to them, everything else leaves them alone.

### Files and names

**`HooksFile`** is `settings.json`: read, changed and written in place by any number
of calls of `ensure_claude_hooks_at`, with a user who edits it. **`TrustFile`** is
`.claude.json`: read, changed, written to a temporary file and renamed, with Claude
replacing it at any time. Files are inodes in it, because two writers share the
name of the temporary file and one can rename what the other is still writing.

**`PrettyNames`** is the names of directories as records of the parts they are made
of: the rounds of `shortest_unique_suffixes` (`Deepen`), the display names, the sort
keys that put a worktree under its repository, and `resolve`. A path is the components
of its parent, the name of what it is, and whether the directory carries the prefix of
the repository it is a worktree of.

### For TLC and TLAPS

**`MCDaemon`**, **`MCDaemonLive`**, **`MCPtyStream`**, **`MCTasks`**,
**`MCTaskBranches`** and **`MCClientStream`** give the constants values for TLC.
**`MCParts`** explores seven of the small modules in one run, one at a time: `part`
says which, and the variables of the others have no value, or their first one.

The proofs are in modules of their own, named for what they are about:
`DaemonProofs` (with the refinement of `AgentRegistry`), `DaemonHistoryProofs`,
`PtyStreamProofs`, `TaskFlowsProofs` and `ClientStreamProofs` for the module of that
name; `ClientProofs` for `Lifecycle` and `Relay`, `ListProofs` for `TuiApp` and
`PrettyNames`, `FilesProofs` for `LedgerReplay`, `HooksFile` and `TrustFile`.

## The runs

**daemon** checks the safety properties on two clients, two names and two
processes. Two names are needed for a chosen name and an automatic one to meet
(`AutoId(1)` is one of them); two processes on the same two names give reuse of a
name while its first process is alive, dying, dead or abandoned; two clients give
every pair of handlers around a connection that is between two of its steps. A
third client or process adds no pair. `IdleTimeout = 1` and `ContextEvery = 1`
keep every state of the countdown and of the refresh reachable in one tick. The
two connections are interchangeable, so the run uses symmetry.

| property | what it says |
|---|---|
| `OneOwner` | a running process is owned by one agent, by one kill task, or is known to be given up |
| `StreamCoversAgents` | the events so far determine process, reported state and context usage of each agent |
| `StreamGhostsAreDead` | until a shutdown, an agent the stream shows and the table has lost is dead |
| `OnlyLateAgentsDropped` | only an agent launched after the decision to shut down can be left unkilled |
| `EventsChain` | each event follows from those before it |
| `IdleShutdownWaits` | the automatic shutdown comes after a whole quiet period, with nobody there |
| `ImplementsRegistry` | every step is one of `AgentRegistry` or changes nothing of it |
| `ImplementsFeed` | every step is one of `AgentFeed`: it tells what it does to the states reported, or removes in silence |

**daemon_live** checks liveness with one name, two processes, two clients and
`IdleTimeout = 2` (a countdown that started over at every tick would still reach
the end of a single second), with a provider that looks at output and `ContextEvery = 2` so that both branches of
the counter occur. `ExitsAreReaped`: an exited agent leaves the table.
`ShutdownStops`: once the flag is set `run` returns, provided clients stop
connecting at some time. The proviso is needed: without it TLC finds the run in
which each connection restarts the sleep of `shutdown_signal`. `IdleStops`: a
daemon left alone stops. The fairness is weak, on the steps the tokio runtime
schedules (monitor, `Begin`, `Recheck`, the poll), on timers, on the kill tasks
and on a signalled process exiting. Nothing is assumed of clients or of a process
left alone. A process that is never killed by SIGKILL is still covered by
`GiveUp`, which needs no fairness.

**daemon_exit_event** and **daemon_late_agent** are two places where the code
does not do what is written about it; each is a finding in `PROJECT.json`. A List
that meets an exited agent removes it without the AgentExited event. A Spawn
handled between the shutdown flag and the return of `run` is answered Spawned and
its agent is dropped, not killed; the hangup of its terminal is all it gets.

**pty_stream** checks the stream on two connections, four bytes of output read one
or two at a time, a ring of two bytes and a channel of two chunks: small enough
for the ring to overflow and to be replaced by a read as long as itself, for a
receiver to lag, and for a client to attach before, between and after the steps of
the reader. The two connections are interchangeable.

| property | what it says |
|---|---|
| `RingIsTail` | the ring holds the end of what the reader has read |
| `JoinedWithoutGap` | a client sees the output in order; it may step back only at the join of scrollback and live output, and misses bytes only if told Lagged |
| `ClosedAtTheEnd` | a session that ends because the channel closes has shown the last byte |
| `ViewersCoverSessions` | the viewers counter never falls short of the sessions |

**pty_stream_live**: `OutputIsDrained`, no client holds up the agent, with
fairness for the reader thread only; `SessionsEnd`, the sessions of a dead agent
whose terminal is closed end, for the clients that read what they are sent
(`ClientReads` is the premise, per client). One byte per read and a channel of one
chunk make every receiver lag as soon as it is one step behind.

**pty_viewers** is a finding: the two early returns of `handle_attach_session`
leave the viewers counter incremented.

**tasks** checks `TaskFlows` on one name with a command line, a terminal interface
and a bridge request, and two directories: that of the worktree and another. Every
pair of kinds of process meets in every pair of steps, and the third can undo what
they did. Names meet only in a directory two tasks share, which is a question of its
own: **tasks_one_dir**.

| property | what it says |
|---|---|
| `WorktreesAccounted` | a worktree belongs to an active task, to a `new` under way, or a command that did not finish left it |
| `AgentsAccounted` | an agent has an active task, or its request or the drop of its task went wrong |
| `InTaskDir` | an agent launched for a task runs where the task is |
| `RunsRecorded` | the log holds one run for each launch, neither less nor more, but for those a command is about to record or failed to: of every name, raced ones included |
| `TaskIsStable` | a task keeps its directory and its ownership until it is dropped |
| `DeletesOnlyItsOwn` | no command deletes a worktree but that of a task that owns it |

**tasks_one_dir** is a finding: two tasks are bound to one directory, because only
`tam new` looks for one. **drop_branch** is another: `tam drop -b` asks git about the
branch in the directory it has just removed, takes the failure for "no branch", and
the branch stays.

**client_stream** checks a client with one name, a channel of two events, a socket of
two messages, and sources of events that pause while three are under way: the
channel overflows, the socket fills, events are set aside, and the list overtakes
the tick. One name suffices for the view of a name; that two names do not disturb
each other is proved. `AnswersMatch`: each answer is read by the action that
asked. `ViewSettles`: when nothing is under way each row shows what the daemon last
reported of its agent, or that there is none, but for the names in `doubtful`. `ActionsEnd`: an action gets all its
answers, with fairness for the client and the connection task (the select of tokio
picks at random, so that a request is served however many events there are: strong
fairness of `Serve`); nothing is assumed of the world. Some step of the world is
always possible, so that `ActionsEnd`, not the deadlock check, says that the two do not
wait for each other.

**parts** checks seven modules, which share no constants or variables and are explored
one after the other. Their types are not checked here but proved.

| property | module | instance | what it says |
|---|---|---|---|
| `IndexInRange`, `DialogHasRow`, `SelectionKept` | `TuiApp` | two tasks, two states, two filters | an index is that of a row; no list is loaded under a dialog; the selected task stays selected when the list is replaced, without a filter |
| `ServingIsReachable`, `StartsUnlessRaced` | `Lifecycle` | two clients, three daemons, two attempts | the daemon that serves is the one clients reach; what a crash leaves keeps none from starting |
| `HooksIntact` | `HooksFile` | two writers, two events, one edit | one hook of tam's per event, and the user's untouched |
| `TrustKept` | `TrustFile` | two writers, a directory in another | no trust and nothing of Claude's is lost by writers that do not overlap |
| `RelayIsExact` | `Relay` | every output of up to five bytes of six kinds | the terminal gets the output without the keyboard sequences, however it is cut |
| `NamesLeadBack` | `PrettyNames` | up to three directories | a display name leads back to its directory; a worktree is listed with its repository |
| `ReplayAgrees` | `LedgerReplay` | two names, two directories, two runs | the loop yields what the events say |

Three premises are places where the code falls short. `SelectionKept` is about a list
without a filter: `set_tasks` keeps an index into all the rows, while the selection
is an index into those the filter leaves, so that under a filter the selection moves
(`tui/app.rs:113` says "preserving selection"). `TrustKept` is about writers that do
not overlap: two that do share one temporary file, and the first rename can put
the half-written file of the second in place (`provider.rs:332` says it cannot).
`NamesLeadBack` leaves out two entries in one directory that show the same name, a
repository `feat` and a worktree `app--feat` beside it: the suffixes are those of the
parent's path, which is one path, so that the name of one may not be told from the
other's, where `pretty.rs:145` speaks of the shortest suffix "that makes each unique".

What the premises leave out is not caught. `raced`, `overlaps`, `hooksRaced` and
`trustRaced` are the processes that meet without a lock, where the code promises
nothing; `doubtful` is what the client cannot know, until it lists again; `left` and
`stray` are what failures leave. The properties say that nothing else goes wrong, not
that these do not, and the notes of the "hazards" in `PROJECT.json` say which of them
are left out in this way.

Deadlock checking is off in the runs of the daemon and the stream, which may stop
and whose behaviours TLC's bounds end, and in **parts**, whose relay and names come
to an end; it is on in **tasks** and **client_stream**.

Bounds: `MaxSpawns` processes are launched, `MaxNextId` automatic names are
drawn; both are guards of `HandleSpawn`, and the code has neither. `quiet` is
capped at `IdleTimeout`. `MaxOutput` bytes are written and `MaxAttach` requests to
attach are served in `PtyStream`; `MaxOutput` and `MaxTyped` bytes pass the `Relay`.
`MaxRuns` is where the runs of a task, the number `tam ps` shows, stop being counted
("that many or more"); `RunsRecorded` does not depend on it.
`SocketMax` is the room in a socket, `MaxTransit` stops the sources of events while
so many are under way: the code bounds the former by the kernel and the latter not
at all. `MaxDaemons` daemons are ever launched, `MaxEdits` hooks are the user's,
`MaxItems` are in a picker, `MaxPaths` directories are found. `Capacity` (64) and
`MaxAttempts` (41) are the code's own limits, made small.

## The proofs

TLC checks small instances; these hold for every value of the constants that meets
the assumption of the module. `DaemonAssumption` is that timeouts and bounds are
numbers, `None` is not a value, a provider is of one kind and automatic names are
names; the others are as weak. Every safety property of a passing run is a theorem.

`DaemonProofs`: `TypeCorrect` and `OwnersCorrect`, that is `TypeOK` and `OneOwner`
always hold. `OneOwner` is not inductive alone: a spawn launches process
`spawned + 1`, and nothing in `OneOwner` says that no kill task holds a process of
that number already. `OwnerInv` adds `Launched`, every process anybody holds has
been launched. The steps then fall into three lemmas: a step that only changes
fields or sweeps exited agents (`SweepKeepsOwners`), a step that hands processes
from the table to somebody (`HandOverKeepsOwners`), and a spawn
(`SpawnKeepsOwners`).

`DaemonHistoryProofs`: every safety property of **daemon**. `ShutdownKillsAll`
rests on `LateInv` (after the decision, the agents in the table are later than it
as well, and the accept loop ends only after it). `IdleShutdownIsIdle` rests on
`IdleInv`: the time the countdown has run and the time it has left make up
`IdleTimeout`. `StreamIsComplete`, `GhostsAreDead` and `EventsFollow` rest on
`StreamInv`, with one lemma per way an action can tell what it did (`SilentStep`,
`SpawnTold`, `KillTold`, `TickTold`, `ContextTold`).

`PtyStreamProofs`: every safety property of **pty_stream**, under
`CapacityAssumption` and `PtyStreamAssumption` (capacities are positive numbers,
connections are finitely many). `RingWriteKeepsTail` is about `RingWrite` alone,
for every ring and every write. `CountCorrect` carries `TypeOK` and
`ViewersCoverSessions` together, because the subtraction at the end of a session
stays above zero only by the latter. `NoGapAtTheJoin` is not inductive alone: it
needs that the chunks sent are the output cut up (`ChannelInv`), that the copy of
the ring reaches at least to where the receiver starts (`SessionInv`, from
subscribing before copying), and where the end of a screen stands against the
receiver's place in the channel (`RelayInv`), before and after a Lagged.
`ClosedShowsTheEnd` follows from the same invariant: the channel closes only after
the reader has sent all it read, and a receiver at the end of the channel has
shown the end of its last chunk.

Also in `DaemonProofs`: `DaemonImplementsRegistry`, every behaviour of `Daemon` is one of
`AgentRegistry`. The initial state maps to the initial state; then each action is
shown to be a step of the registry or to leave it alone, under the invariants of
the table and `ClosedInv`: the loop looks at its end only with the flag set, and
once `run` has returned no connection is left, so that the registry closes after it
was asked to, and nothing is launched afterwards. `SweepClears`, `SpawnLaunches` and
`FieldsUnseen` say what the three ways to change the table are to the registry.

And `DaemonImplementsFeed`, every behaviour of `Daemon` is one of `AgentFeed`, under the
types alone. Every action is shown to be one of its steps or to change nothing
of it: a step that leaves `reported` alone and sends nothing but context usage is silent
(`QuietIsHeard`), one that drops agents from the table without an event is a silent
removal, a spawn and a kill are theirs, and a tick needs that `gone` and `now` of
`AgentFeed` are read off what the sweep removed and what the agents left report, so that
the events of the exits and of the changes are together exactly `TickTells`.

`TaskFlowsProofs`: type correctness and all six properties of **tasks**, for any
number of names, directories, command lines, interfaces and bridge requests
(`FlowsAssumption`: the processes are finitely many and of one kind each, so that those
about to record a run can be counted). Five of the six are not inductive alone: what a
command does next depends on what it read steps ago. `FlowsInv` says of each name that it is in `raced`, or no command works on it
and the stores agree about it (`Facts`), or exactly one does, and the stores agree but
for what that command is in the middle of, whose step says what it knows (`Stage`: a
`record` that the name is still free, a `spawn` that the directory is still that of
the task, a `delete` that the task owns the worktree). Beginning a second command on a
name puts it in `raced`, so a step of the one command on a name is all there is to
check (`After`), and every other step leaves the name as it was (`SameStores`).
`RunsRecorded` is inductive with the types and needs nothing of `FlowsInv`, which is why
races do not matter to it: each step makes one of three moves (`RunsMove`), it leaves
the runs alone, puts one process among those about to record a run and adds one to what
is owed, or takes one away from both (`BeginMoves`, `StepRuns`, `LosesRuns`), and each
move keeps the balance (`MoveKeeps`).

`ClientStreamProofs`: type correctness, `AnswersMatch` and `ViewSettles`, under
`StreamAssumption` (names are finitely many, the channel and the socket hold at least
one message, `None` is neither a state nor an agent). `AnswerInv` says that at most one
answer is under way, the one that the head of `todo` waits for: while a request is not
served no answer is in the socket, an answer in the socket is of the kind its request
asks for, and an attached interface waits for none. The types rest on it, since the
rows are made of an answer that has agents only because it answers a list.

`ViewIsCorrect` is about everything under way, since `ViewSettles` says nothing until
all of it has been read. `After(q, n, v)` is what a sequence of events makes of a row
of `n` that shows `v`: nothing if the last launch or exit is an exit, or there is none
and the row shows no agent, and otherwise what the last event of all tells. `Leads(n, v)`
puts the three queues after one another in the order they are read, what was set
aside, the socket, the channel, and says that they lead from `v` to what the agent was
last reported in. `ViewInv` says that of a name that is not in `doubtful` they lead
there from the row there is, from each list still in the socket, and from the truth
itself: the last is what a list needs that is taken now and read after events that
were sent before it (reading them again changes nothing, `AfterAgain`). It also says
that a launch or an exit in the channel comes with all that was told since, so that
what the channel forgets before it does not matter (`ChannelTells`), and that two
events of a name are set aside only with a launch or an exit behind them; the first of
these is what lets `Enqueue` take a name out of `doubtful` again. A step of the daemon
tells a set of events in some order; what the proof needs of it is `Says`: no name is
told of twice, an event tells what the step leaves of its agent, a change of state is
told only of an agent that is there, and a name nothing is told of stays as it was.
Every telling step of `AgentTable` has it (`LaunchSays`, `KillSays`, `TickSays`), and
then whatever order `Emit` picks leads to the new truth (`EmitTells`). A list needs no event: of a name nothing of which is under way the
snapshot is the truth (`ServeListView`). Setting an event aside and forwarding one move
it from one queue to the next, which changes nothing of where they lead
(`AfterConcat`); reading applies it.

`ClientProofs`, of `Lifecycle`: type correctness, `ServingIsReachable` and
`StartsUnlessRaced`, for any number of clients, daemons and attempts
(`LifecycleAssumption`). A daemon that overlaps no other is alone while it lives, and
the path is its own from its bind to its end (`Alone`): nothing else can remove its
socket or bind before it. A client that was refused starts a daemon later: whatever
listened when it was refused could not be reached, so it is in `overlaps` already
(`Missed`), and whatever lives beside it now gets there with the start.

Of `Relay`: `RelayIsCorrect`, for any output, of any length and over any alphabet,
however it is cut. `RelayInv` adds `HoldsBeginning`: what the filter holds back is the
one beginning of a sequence that ends with what it consumed, and its state says how far
that is. A byte then goes on a sequence or is in none, and the places of the output that
are left gain its own; or it ends one, and they lose those of what is held back.

`FilesProofs`, of the ledger: `ReplayCorrect`, for any log, of any length; the
invariant is `ReplayAgrees` with the types. Of the settings: `HooksStayIntact`, for any
number of writers, events and edits. That no event gets a second hook holds even when
writers overlap, since every copy a writer holds has at most one (`CopiesOnce`); that
the user's are kept rests on `OneHookWriter`, that without overlap at most one writer is
amid its work and its copy has the user's hooks. Of the trust file: `TrustIsKept`, for
any number of writers and any nesting of directories. `TmpAccounted` says
that the temporary name is never that of `.claude.json` itself (and that there is an
inode to create it with), `OneTrustWriter` what is in it at each step of
`write_json_atomic` when nobody overlaps, and that what the writer read is still what
the file has.

`ListProofs`, of the interface: `IndexStaysInRange`, `DialogKeepsRow` and
`SelectionStays`, for any tasks, repositories, states and filters. The first two are
inductive with the types and `NoDialogAmid`: lists are loaded by the reload of an action,
and no dialog is open then. The third rests on the order of the rows being total
(`PrecedesIsTotal`), so that a position is that of one row. Of the pretty names:
`PrettyNamesLeadBack`, for any list of directories. `SuffixesUnique` says of every round
of `shortest_unique_suffixes` that a suffix found tells its path from those of its name
at some depth reached, and that one not found has been told apart at none; two paths
of one name and one shown suffix then have one parent. `FamiliesTogether` follows from
the sort keys alone.

Only model-checked: the liveness properties, which TLAPS does not reach. The types of
the seven modules of **parts** are the other way round, proved and not checked
(`ReplayTypeCorrect`, `LifeTypeCorrect`, `TuiTypeCorrect`, `HooksTypeCorrect`,
`TrustTypeCorrect`, `RelayTypeCorrect`, `NamesTypeCorrect`). Induction over data is
avoided rather than done: the relay, the replay and the rounds of the suffixes are
loops of the program, so their induction is over steps; where a greatest or a smallest
number is needed (the last event about a name), `WFMin` of the library yields it.

## Not modelled

- Rendering (`tui/ui.rs`), the text of replies, logs and messages: no state depends
  on them.
- HTTP routing, authentication, web sockets and the systemd unit of the bridge
  (`serve.rs`); what it does to tasks and agents is in `TaskFlows`.
- Parsing of configuration, arguments and JSON; the bytes of the wire protocol. A
  message that is read in two pieces is below the level of the models, and with it
  what both sides lose of one when their select drops `read_line` for an event, a key
  or a timer: the part that was read goes with the future.
- Transcripts and usage files of other programs (`sessions.rs`, the readers of
  `provider.rs`): they are parsed, and only the value returned matters.
- In `ClientStream`, the end of the connection that follows a shutdown; what a shutdown
  removes is a silent removal there, and `Daemon` has the rest.
- The notify hook (`notify.rs`): it starts a command and keeps nothing.
- The walk of the file system that finds projects; it is the input of `PrettyNames`.
- Which files `init.rs` copies: its steps can fail, which is what tasks depend on.
- The worker threads of the runtime: a blocking write to a terminal that nobody
  reads holds one of them up, which no property here would see.
