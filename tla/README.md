# A TLA+ model of BotReaper

BotReaper (`src/`) is an agent in Go that is used from a terminal, over a
WebSocket and through Telegram and Discord.  This directory models the parts of
it whose correctness depends on the order in which goroutines, processes,
messages, timers, answers and failures happen, checks them with TLC on small
instances, and proves the central invariants with TLAPS for every value of the
constants.

Run everything from this directory:

    tlc -workers 2 -config MCTurnGate.cfg MCTurnGate.tla
    tlapm GatewayProofs.tla

`PROJECT.json` lists the components, the runs, the properties each run checks,
the mutations every property detects, the source lines of each definition, the
hazards and the theorems.

## 1. The system and its parts

| part | source | state | operations | hard because |
|---|---|---|---|---|
| turn gate | `gateway/adapter.go`, `handle` in `cmd/botreaper/main.go` | the claims on sessions, the agents | TryAcquire, Release, slash commands, one turn per message | a goroutine per message, claims that go stale, commands that bypass the claim |
| gateway runner | `gateway/runner.go` | an errgroup of adapters, a watcher | Start, the signal | one adapter fails while another runs; the signal may come anywhere |
| telegram polling | `gateway/telegram/poll.go` | offset, batch, conflict ladder | getUpdates, dispatch, back off | answers are lost after they took effect; restarts |
| replies | `gateway/telegram/send.go`, `telegram.go`, `gateway/discord/discord.go` | none | split, send, retry, fall back without the thread or the anchor | a retry of a call that was carried out; one chunk of several fails |
| discord connection | `gateway/discord/gateway.go`, `normalize.go` | session id, sequence, last acknowledgement | identify, resume, heartbeat, dispatch | reconnects at any moment, sessions the server forgets |
| agent turn | `agent/loop.go`, `agent.go`, `budget.go` | transcript, budget, interrupt flag | the loop of API call and tool round | two turns of one agent, ctrl+c and its timer, failing writes |
| tool round | `agent/executor.go`, `tools/dispatch.go` | a pool of eight workers | submit, dispatch, collect in order | a full pool, panics, a cancelled context |
| terminal tool | `tools/bridges.go`, `sandbox/local.go`, `backend.go` | three channels, two pumps | pump, bridge, collect | a consumer that stops reading; a process that ends before its pipes are read |
| usage writer | `state/usage.go` | pending deltas, a notification, a loop | Queue, Flush, Close | swap under a lock and write outside it |
| state store | `state/db.go`, `messages.go`, `sessions.go` | an SQLite file | withWrite with retries, append, create, count | several processes, failing statements and commits |
| memory store | `memory/store.go` | one file | read, append, rename | several processes; a crash in between |
| delta coalescer | `Coalescer` in `ws/client.go` | pending deltas, a timer | Add, flush, Flush | late timers, overlapping flushes |
| replay ring | `ws/replay.go` | the last envelopes of a session | Push, Since, Last | rotation at its boundaries, clients that come back |
| hub and sockets | `ws/hub.go`, `server.go` | subscriptions, a channel per socket | Publish, Subscribe, Unsubscribe | fan-out outside the lock while sockets come and go |
| cron scheduler | `cron/cron.go` | jobs with their next fire | create, delete, tick, reschedule | a job that is deleted while it waits or runs |
| mcp client | `mcp/client.go` | pending calls | call, read loop, time limit, Close | late, repeated and missing answers; a server that stops reading |
| setup wizard | `setup/*.go`, `config/*.go`, `envFor` in `main.go` | `config.yaml`, `.env`, what is staged | sections of prompts, Save, SetSecret, Backup, Reset | two files written in several steps; failures between them; what is staged outlives its section |
| the rest | subagents, provider client, websocket client, other sandboxes and tools, skills, profiles, TUI | | | see section 7 |

They interact as follows.  The adapters give each inbound message a goroutine,
which passes the turn gate, runs a turn of the session's agent and replies.  A
turn calls the provider and runs tool rounds on the pool that all turns share;
a call of the terminal tool runs a command, one of the memory tool saves a
note.  The turn emits its deltas through the coalescer into the hub, which
numbers them in the session's ring and offers them to the sockets; its tokens
go to the usage writer and its rows to the store.  The cron scheduler publishes
into the hub.  The wizard writes the files that every later process loads.

What makes each part correct: the gate lets turns of one session exclude each
other and never leaks a claim; the runner ends when it is told to; polling
neither skips nor repeats an update; a reply is shown in order, and its sender
knows whether it was; a turn stays in its budget and stops when it is
cancelled; results stand at their calls; tokens, deltas and rows are counted
once and get through; the ring is the end of what was published, and a
publication reaches everyone who was there; a job does not overlap itself, and
is run when it is due; a call gets its own answer; what the wizard has
confirmed is what the next process runs with.

## 2. Modules

| module | models | with |
|---|---|---|
| `TurnGate` | BusyGuard and `handle` | `MCTurnGate`, `GatewayProofs` |
| `TelegramPoll`, `GatewayRunner` | the poll loop; the group, the watcher and the process around it | `MCGatewayRunner.cfg`, `GatewayRunnerProofs` |
| `DiscordConn` | a gateway connection, the server it resumes with, and what it lets through | `MCDiscordConn`, `GatewayProofs` |
| `Reply` | SendReply of both platforms, down to the attempts of one request | `MCReply`, `GatewayProofs` |
| `AgentTurn` | RunConversation, Budget, the interrupt flag | `MCAgentTurn`, `AgentTurnProofs` |
| `TerminalStream` | a call of the terminal tool on the local backend | `MCTerminalStream`, `AgentTurnProofs` |
| `ToolRound`, `StateStore`, `MemoryStore` | tool rounds on the pool; writes to state.db; Save of MEMORY.md | composed by `HomeDir` |
| `HomeDir` | processes on one home directory: turns that write, run tools that save notes, and write again | `MCHomeDir`, `HomeDirProofs` |
| `UsageWriter` | the usage writer | composed by `Main` |
| `Setup` | the wizard, its files, and how they are read | composed by `Main` |
| `Main` | a process: a chat or the wizard, and the usage writer it must drain | `MCMain`, `MainProofs` |
| `Coalescer` | the delta coalescer | composed by `SessionStream`; `SessionStreamProofs` |
| `RingBuffer`, `ReplayRing` | the ring; a session's ring with a client | composed by `SessionStream`; `SessionStreamProofs` |
| `EventFeed` | the abstract specification of a feed: consecutive events or a fresh start | refined by `ReplayRing` and `SessionStream` |
| `SessionStream` | coalescer, ring and client in a row | `MCSessionStream`, `SessionStreamProofs` |
| `Hub` | hub, subscriptions and sockets | `MCHub`, `ServerProofs` |
| `CronScheduler` | job table, Tick, Run | `MCCronScheduler`, `ServerProofs` |
| `McpClient` | callers, the read loop, and a server | `MCMcpClient`, `McpClientProofs` |

An `MC` module only gives model values and operators to a configuration.  An
operator named `X_Variant` before `X` is a faulty form of `X`; nothing uses it
but the mutations listed in `PROJECT.json`.

### TurnGate
A member of `Msgs` is a handler goroutine that is used again when its message
is done, so that an endless stream of messages has finitely many goroutines in
flight.  `busy` is the guard's map with the age of each claim, which saturates
at `BusyTTL`, as the code only asks whether a claim is younger than ten
minutes.  `TryAcquire` is `Bypass`, `Claim` or `Refuse`, one step each because
the code holds the mutex throughout.  `Release` is the deferred call: it is
made by *every* handler that passed the guard, slash commands included.

### TelegramPoll and GatewayRunner
`pc` is the place in `Adapter.Start`.  The API (external) keeps updates until
`getUpdates` is called with a larger offset.  A poll succeeds, conflicts, or
fails with or without the API having seen the offset.  `dropPending` is
`DropPending` of the config, either value from the start; main leaves it false,
and `drainPending` does nothing to the offset when it is true.  The ladder of
`backoffConflict` goes back to polling as soon as `getMe` succeeds.
`GatewayRunner` adds the group: its context ends with the signal or an
adapter's error; the watcher's only with the signal.  `GoDown` is a crash as
well as the exit of the process; `StartAgain` starts with offset 0.

### DiscordConn
`place` is the place in `Run` and `session`.  A client identifies only when it has
no session, so that there is one session to speak of, the last the server has
made: `log` holds its events, and `pos` is how much of it the socket has
delivered.  `Resume` lets the server go on after `seq`.  The server may forget
the session at any time (`Forget`), the socket may be dropped at any time or
fall silent without being closed (`Wedge`).  `Dispatch` is one step from the
lookup of the channel's type to the handler: the type may be cached, found, or
taken for `text` when the lookup fails, and is cached in every case.

### Reply
The runes of a reply are numbered, and of them only the newlines are kept; a
chunk is an interval.  One action is what becomes of one HTTP request: it is
accepted, its answer is lost (so that the message stands in the chat and the
client tries again), it is not sent, it is limited, refused, or refused for its
anchor.  `bare` is the fallback without thread or anchor, `attempt` and
`retried` are the loops of `call`, `doOnce` and `request`; the waits are stages
of their own, which a cancelled context leaves in the code's three different
ways (`stage`, `cancelled`).

### AgentTurn
`pc[t]` is the place in the loop: at its top, in the API call, in a tool round,
done.  The order of the checks (budget, interrupt, context) is the code's.
`asleep` holds the goroutines that clear the flag 500 ms after a press.  The
rows that a turn writes are in `HomeDir`: an error of writing them is discarded
and changes nothing of the loop.

### TerminalStream
The output of a command goes from its two pipes through a pump each into `sch`,
through the bridge into `ch`, and to the collector; `Sent` is all that stands
between the pumps and the handler's answer, oldest first.  `Wait` closes the pipes as
soon as the process has exited, so that a pump may lose what it has not read;
a line above the Scanner's limit ends its pump, and the process then waits for
a reader of its pipe until the time limit kills it.  The collector stops
reading when it has enough; the pumps and the bridge notice that only by the
end of the time limit.

### ToolRound, StateStore, MemoryStore, HomeDir
In `ToolRound`, a round submits its calls one by one to a pool that other
rounds of the process use too; a call looks at the context once, and then ends,
fails or panics; `out` has a slot per call.  In `StateStore`, `withWrite` holds
a mutex of its process, and begins, executes and commits a transaction; SQLite
(external) has one write lock, which a deferred transaction takes with its
first statement.  An error of `begin` and of `commit` is tried again, one of
the callback is not.  In `MemoryStore`, `Save` reads the file, writes a
temporary one and renames it, under a mutex of its process only.  Its read may
fail with the error ignored (`ReadFails`); it then has the first lines of the
file, perhaps with a part of the next (`Cut`), or none, and `missed` are the
lines it does not have.  A file that has become too long is cut between two
lines or within one (`Newest`).  The copy `MEMORY.md.bak`, which nothing reads,
is left out.  `HomeDir`
puts them together: a turn makes its writes in order, a round's calls run the
steps of `Save` inside a worker, and the results are appended in one batch when
the round has returned.  `Crash` ends a process with its workers, its locks and
its open transaction at once.

### UsageWriter
`Queue` merges and then notifies, in two steps; `Flush` takes the whole map
under the lock and writes key by key, in any order as Go ranges over maps; a
failed write drops the rest of the batch.  The loop's `select` may take any
ready case.

### Setup, Main
An action of `Setup` is one answer at one prompt, with all that the wizard does
before the next.  `config` and `env` are the two files, `raw` is `State.raw`
with whatever is staged, `plan` the sections to come.  `Save` writes all of
`raw`; it and `SetSecret` may fail (`Hitch`), and the process may be killed at
any prompt, or find its input at an end (`eof`), after which every answer is
the default.  A read may fail, too, and its error is ignored: of
`config.yaml`, which leaves `raw` empty (`blind`), and of `.env`, which is then
replaced by the entry that is written, or searched in vain.  `environ` is what
the environment of the process holds, where `LoadSecret` looks after `.env`
(`Finds`, `Lacks`).  A base URL is asked for and not kept.

`said` and `saidBackend` are the provider and the backend that the wizard
confirmed last, and only a reset or another confirmation changes them.  `asked`
and `askedBackend` are the ones staged since without a confirmation: their save
failed, they are a custom endpoint that is saved before its model is named, or
the local backend that a guided setup sets without a question.  `unread` are
the keys of `config.yaml` that a Save wrote over without having read them, and
`excused` the secrets that `.env` need not hold: cleared by the user, kept from
the environment, or written over unread.

`EnvFor`, `Profile`, `Live` and `RunsOn` are how
`main.go` reads the files afterwards.  `Main` is the process around both: it
makes the usage writer, runs a chat or the wizard, and ends by the deferred
`Close`.

### Coalescer
A flush that was due takes the pending deltas and forgets *the* timer, whether
or not it is the one that started it, and then publishes outside the lock.
`StopTimer` is the beginning of `Flush`, which may come too late.

### RingBuffer, ReplayRing, EventFeed
`Push`, `Since` and `Last` are the ring's three operations; `Since` tests for
rotation, collects what is newer, and cuts the answer at the limit.  The client
passes the last number it has seen.

### SessionStream
Each frame that the coalescer publishes, and each frame that goes past it, is
one `Push`; `carried` remembers which deltas an envelope has, so that a
property can speak of the turn's text and the client's envelopes together.

### Hub
A publisher numbers an envelope under the lock and then ranges over two maps
without it, in any order.  A Go range over a map that is written meanwhile may
or may not produce what was inserted or deleted; it may also end the process
(`crashed`).  A socket's writer and reader fail independently.

### CronScheduler
The clock counts minutes and keeps one tick for a reader that is late.  A job
is a record; `table` says whether the store has it, and a tick that has
collected it has the record all the same.  `Rescheduled` counts from the
beginning of the tick.  Two of the five cron fields are kept.

### McpClient
`pending` and `chan` are the map of channels; `inHand` is the answer that
`readLoop` has taken out of the map and not sent.  The server reads requests
and answers any of them at any time, the same one again, or none; it may stop
reading (`ServerWedges`) and exit.

## 3. Runs

| run | bounds | checks |
|---|---|---|
| `MCTurnGate` | two sessions, four ordinary messages, one slash command, claims stale after two ticks | `ClaimHasHolder`, `ExclusionUnlessBreached` |
| `MCGatewayRunner` | three updates (one of them ignored), two rungs, one restart, with and without DropPending | `ConfirmedWasDispatched`, `OncePerProcess`, `UpdatesAreDispatched`, `InterruptEndsRunner` |
| `MCDiscordConn` | three messages in a text channel and a thread, one with a mention; an acknowledgement is old after one tick | `OnceInOrder`, `MessagesArrive`, `CancelEndsRun` |
| `MCReply` | every reply of up to eight runes with newlines anywhere, Telegram messages of five, three Discord messages of two; every origin; two lost answers | `ChunksInOrder`, `NilMeansShown`, `RepeatsNeedLoss` |
| `MCAgentTurn` | two turns, budget of two, one empty response, two presses | `BudgetHolds`, `InterruptStopsSoon` |
| `MCTerminalStream` | a short command, one with too much output, one with a long line; pipes and channels of one | `ClosedHasNoSender`, `ScannedIsInTransit`, `TimeoutEndsCall` |
| `MCHomeDir` | two processes; a turn that creates, counts, runs three calls on two workers of which two save notes, and appends; beside it a turn of the process that may end; two attempts per write, two lines in the file, one Save that may fail to read it | `ResultsInOrder`, `SavedIsKept`, `BatchesAreWhole`, `ReplyTellsTruth`, `TurnsEnd` |
| `MCMain` | two callers, two keys, two deltas each and one failing write; four providers, three backends, three homes, two environments, one run of the wizard and one file operation that fails | `Conservation`, `CloseDrains`, `ConfirmedIsLoaded`, `OldConfigIsKept`, `EndOfInputEndsRun` |
| `MCSessionStream` | one type of delta, one direct frame, three timers, four deltas or frames, a ring of two, limits 0 and 2 | `RingIsLogSuffix`, `CaughtUpKnowsAll`, `EverythingIsPublished`, `ImplementsEventFeed` |
| `MCHub` | two publishers, two sockets, two sessions, channels of one, two envelopes | `OfferedOnce`, `FanoutIsComplete` |
| `MCCronScheduler` | two jobs of any of five schedules, hours of two minutes and days of two hours, one slot, five minutes | `NoOverlap`, `DeletedRunsOnceMore`, `RunsAreSpaced`, `DueIsRun` |
| `MCMcpClient` | two callers, three calls, a pipe of one request, one answer given twice | `OwnAnswer`, `ReaderNeverWaits`, `CallsReturn` |

All of them pass.  Each property is stated with a comment in its module, and
each is broken by a small change of the code's model that `PROJECT.json` names:
a lock that is not taken, a key that is not asked for, a worker that writes at
the wrong index, a timer that loses what it took.

Each module states its types (`TypeOK`, `ReplyTypeOK`, ...) for its reader; no
run lists them, as the proofs establish what they need of them, and the runs
spend their time on properties that say more.

Why the bounds are enough.  Two messages of one session and a slash command are
what it takes to breach the gate; a third message and a second session show
that the breach heals and stays in its session.  A ring of two rotates twice in
four pushes, with a client that reconnects between any two of them.  Three
timers allow a late flush, the timer it forgets and the one armed after that.
One failing write leaves a batch partly written.  A budget of two reaches the
grace call in the third round.  Two sockets and two publishers give every race the
hub has.  Three messages on one Discord session leave one before, one at and
one after the place where it breaks.  Pipes and channels that hold one chunk
fill with the second, so that every sender of the terminal tool blocks at some
time.  Eight runes make two Telegram chunks with a newline in either half, or
three Discord messages and the notice in place of the rest; two lost answers
repeat one chunk twice or two chunks once.  Three calls on two workers leave
one that has to wait; two notes of one process contend for the lock, the third
comes from a process that has read before, and the file has room for two; one of
them may find the file unreadable.  Two
attempts show a retry and the last error.  Two jobs on one slot leave one that
waits, and may be deleted while it does.  Three MCP calls leave a late answer
for a call whose caller is in its next one.  The three homes are one with a
terminal backend only (the wizard takes it for a fresh install and sets it to
local), one in use and one with a custom endpoint; of the environments one is
empty and one has a key and a token; one hitch is enough for each place where
an operation fails, and the proofs lift this bound and that on the runs of the
wizard.

Deadlock is checked except where the system really stops: the process may end
(`MCGatewayRunner`, `MCHub`, `MCMain`), `Run` may return (`MCDiscordConn`), the
call, the reply, the calls or the turns are over (`MCTerminalStream`,
`MCReply`, `MCMcpClient`, `MCHomeDir`).

### Fairness
`MCGatewayRunner`: calls return and waits end; `getUpdates`, asked again and
again, succeeds some time (strong fairness).  Nobody need press ctrl+c, crash or
restart.  `MCDiscordConn`: waits end; a call that is tried again and again
succeeds, and an open socket delivers an event before it is dropped, some time
(strong fairness); a server that has no session refuses to resume it.  It need
not acknowledge heartbeats, nobody need cancel, and the socket need not wedge.
`MCTerminalStream`: goroutines run, the process writes while its pipe has room,
and a process that is done or killed exits; the time limit need never come.
`MCHomeDir`: while some step of a call, a round or a write can be taken, one
is; as each of them has finitely many, weak fairness of the whole suffices, and
no worker or writer is favoured.  Cancelling and crashing are never asked for.
`MCMain`: as for the usage writer, whose `select` chooses among its ready cases
at random, so that `quit` is taken some time (strong fairness); the wizard
takes an answer that is there, main calls `Close` when the wizard has
returned.  A user need not answer, but at the end of the input every prompt has
its default.  `MCSessionStream`: armed timers fire and flushes go on; the turn
and the client owe nothing.  `MCCronScheduler`: runs return and the clock goes
on; `Run`'s `select` takes a tick and a stop that stay ready some time (strong
fairness, as each may be passed over).  `MCMcpClient`: the minute of a call
passes, a server that is killed exits and one that is neither wedged nor gone
reads; the pipe lets each of several waiting writers through some time (strong
fairness).  The server need never answer.

## 4. What the code does against its comments, or against expectation

These were met while modelling.  They are part of the models, and no property
states the contrary.

*Gateway.*
- `main.go:330` defers `Release` for every message that `TryAcquire` let
  through; a slash command is let through without a claim, so that `/status`
  during a turn gives the turn's claim away and the next message starts a
  second turn beside it.  `ExclusionUnlessBreached` is what remains true.
- `poll.go:133` says of `drainPending` that it "advances past queued updates
  without dispatching", `telegram.go:26` that DropPending "discards queued
  updates on cold start", by default, and `ARCHITECTURE.md:95` speaks of a
  "drop-pending cold start".  It calls getUpdates with an offset and lets the
  answer go; the poll loop begins with offset 0 and dispatches everything that
  is queued, and main leaves the flag false.  The run takes both values:
  `UpdatesAreDispatched` promises nothing for DropPending, and
  `ConfirmedWasDispatched` holds with it.
- `poll.go:145-146`: the ladder is never fatal while `getMe` succeeds.
- `poll.go:167` says that forum threads are preserved: they are on the first
  chunk only (193-201), and the fallback without a thread is taken on *any*
  error of that chunk.
- `telegram.go:171-173` promises to retry once after a 429; one on a later
  attempt sleeps and then gives up (233-240).
- `gateway.go:208-209` of discord: "a wedged socket reconnects instead of
  idling"; the age of the last acknowledgement is looked at only after a Read
  has returned, which it does not on a silent socket.  `gateway.go:99`: the
  wait between two attempts is never reset by a session that went well.
- `normalize.go:57`: the type of a channel that could not be looked up is taken
  for `text` and kept, so that the messages of a thread need a mention
  for good.  Direct messages never do.

*Turns and tools.*
- `main.go:511`: ctrl+c sets a flag that is cleared after 500 ms.  A turn looks
  at it only between API calls and tool rounds, so that one in a longer call
  never sees it.  In the plain REPL, the cancelled context stays for all later
  chats.
- `loop.go:33`: empty responses are retried without spending the budget;
  `loop.go:53` queues tokens for final answers only; `loop.go:57-59`: the tool
  results follow in the transcript without the message that called for them;
  `executor.go:39-45`: `persistCheck` enforces nothing.
- `backend.go:28` pumps "until EOF"; `local.go:42` waits for the process, which
  closes the pipes, before it waits for the pumps: what is still in a pipe may
  be lost.  Only the shell is killed, not its children.
- The cached availability of `registry.go:51-60` is never reached: every tool is
  registered without a check.

*Files and database.*
- `db.go:93-95` and `138` speak of BEGIN IMMEDIATE; `BeginTx` is deferred, so
  that a busy database shows in the callback, whose error is returned without a
  retry (156-158).  The write of a cancelled turn is tried twenty times, under
  the mutex.
- The schema says ON DELETE CASCADE and foreign keys are off.  Appends do not
  touch `last_activity_at`, by which `PruneSessions` (which main does not call)
  chooses.  The error of `CreateSession` is ignored, and `BumpAPICalls` of a
  session that is not there does nothing.
- `memory/store.go:62`: two processes that save at once lose a line of the one
  that renames first; `SavedIsKept` excepts it (`overwritten`).  The error of
  the read is ignored: a file that is there and cannot be read at that moment
  (no descriptor left, an I/O error) is replaced by the new line alone, or by
  what was read before the error and the new line, and Save answers "saved".
  `SavedIsKept` excepts those lines by name (`unread`).  `memory/store.go:86`
  cuts a file that is too long within a line, so that the first line of the
  file may be a part of one.
  `memory/store.go:94` panics on a file of white space, which the pool
  recovers, so that the call gets an empty result.
- `usage.go:58` and `client.go:61` say that Flush writes or publishes what is
  pending; another flush may still hold it when Flush returns.

*Hub and ring.*
- `hub.go:60` ranges over maps after unlocking, while Subscribe and Unsubscribe
  write them; the runtime may end the process (`crashed`).
- `replay.go:48-49` speaks of "newest-first" answers; they are oldest first.  A
  client with `last = 0` on a ring that has rotated is answered with the
  rotated ring instead of being told to resync.
- `main.go:194` answers `session.events.since` with the epoch alone, although
  `hub.go:50-51` relies on it for dropped frames; the epoch is 1 in every
  process (`main.go:189`), against `hub.go:22`.

*Cron and MCP.*
- `cron.go:40-41`: a schedule of the form "every <5-field>" is disabled after
  its first fire, and "1d" is not parsed; `cron.go:193` speaks of a catch-up
  that is not made.  A job deleted in the meantime still runs once.
  `main.go:173` reads `NextFire` without the lock.
- `mcp/client.go`: a call that fails or times out leaves its channel in the map
  for good; `Write` waits past the caller's context while the server does not
  read; a call waits its full minute after the server has exited.

*Setup.*
- `main.go:548`: `envFor` reads the nous key for gemini and for a custom
  endpoint, so that what the wizard confirmed for these has no client, or the
  wrong one.  `Misread` in `Setup` names them, and `ConfirmedIsLoaded` leaves
  them out.
- `state.go:34` ignores an error reading `config.yaml`: the state is empty, the
  run may take the home for a fresh one, and the Save of any section replaces
  the file by what that section set.  `secrets.go:23` does the same to `.env`.
  `ConfirmedIsLoaded` excepts what was lost in this way (`unread`, `excused`).
- `config.go:139,150`: a key that is not in `.env` is looked for in the
  environment, so that the wizard offers to keep one that is in no file, and
  confirms the provider; a process without that variable has no client.
- `state.go:80` saves all that is staged, also what a section that failed or
  said "No change." had staged.  `model.go:173`: Enter at the URL keeps the URL
  of the provider before.  A custom endpoint is saved without a model.
- `wizard.go:77` says that Enter keeps a value; at the ssh port it resets it to
  22, and at the tools it disables the search.  `wizard.go:213`: a guided setup,
  which is what a home with a backend and no provider gets, sets the backend to
  local, also when another was confirmed, and does not ask (`askedBackend`).
  modal and daytona are set also when their
  token is not given.
- `wizard.go:87` says that ctrl+c exits; `main.go:92` has asked for the signal,
  and the wizard does not look at the context.
- The failure of a backup is not reported, and that of `gateway.go:118` (the
  list of allowed users) is ignored.  Save overwrites what others have written
  to `config.yaml` since it was loaded.

## 5. Proofs

Every invariant and every action property of the runs is a theorem, for every
value of the constants that the assumptions of the modules allow.

| module | about | theorems |
|---|---|---|
| `GatewayProofs` | the turn gate, for any messages, sessions and ages | `GateInvariant`, `GateTypeCorrect`, `NoLeakedClaim`, `ConditionalExclusion`, `RefusalsAreJustified` |
| | a reply, for any text, limits and lost answers | `ReplyInvHolds`, `ReplyIsInOrder`, `NilIsTrue`, `LossesPayRepeats` |
| | the Discord connection, for any messages, channels and losses | `EachMessageOnce` |
| `GatewayRunnerProofs` | polling and the runner, for any number of updates, rungs and restarts | `RunnerInvariant`, `RunnerTypeCorrect`, `NoUpdateIsLost`, `OnlyEndsLoseUpdates`, `NoProcessRepeats`, `StartReturnsOnSignal` |
| `AgentTurnProofs` | a turn, for any budget, turns and presses | `BudgetInvariant`, `BudgetAlwaysHolds`, `InterruptInvariant`, `InterruptStopsTurns` |
| | a call of the terminal tool, for any command, channels and limits | `TermInvHolds`, `NoSendOnClosed`, `OutputIsWhole` |
| `SessionStreamProofs` | the ring at any depth | `PushSpec`, `RingInvariant`, `RingHoldsLogSuffix`, `RingKeepsAllItCan`, `RingImplementsEventFeed` |
| | the coalescer, for any types and timers | `FlushInvariant`, `PendingAlwaysHasFlusher` |
| | both, with a client that reconnects | `StreamInvariant`, `WholeTurnIsKnown`, `StreamRingIsLogSuffix`, `StreamImplementsEventFeed` |
| `ServerProofs` | the scheduler, for any jobs, schedules, clocks and slots | `CronInvariant`, `JobsDoNotOverlap`, `DeletedJobsStop`, `JobsAreSpaced` |
| | the hub, for any publishers, sockets and sessions | `HubInvHolds`, `NobodyHearsTwice`, `EverybodyHears` |
| `HomeDirProofs` | a home directory, for any processes, turns, rounds, workers, writers, attempts, notes and sizes of the file | `HomeInvHolds`, `ResultsStandInOrder`, `SavedNotesStay`, `TableIsWhole`, `RepliesTellTruth` |
| `MainProofs` | the wizard, for any providers, backends, homes and environments, and any number of runs and failures | `SetupInvHolds`, `ConfirmedStays`, `OldConfigStays` |
| | the usage writer, for any keys, callers and amounts | `TokensAreConserved` |
| `McpClientProofs` | the MCP client, for any callers, calls, repeated answers and size of the pipe | `AnswersAreOwn`, `ReaderIsFree` |

*Turn gate.*  `ExclusionUnlessBreached` is not inductive: that a claim can only
be made when there is no holder needs to know that an unbreached session with a
holder has its claim in the map.  `UnbreachedHolderIsClaimed` says so, and
together with `ClaimHasHolder` and `TypeOK` it is the inductive invariant
`IInv`; one lemma per action that changes the map or the holders, one for all
those that do not.

*Reply.*  While SendReply is under way, what the chat shows ends with the chunk
at hand or with what comes before it (`Following`).  In the first case the
sender does not know, and will show the chunk again: the answer that was lost
then has not been counted among the repetitions yet.  `Unpaid` says so, and is
what makes `RepeatsNeedLoss` inductive.

*Discord connection.*  The client's sequence is a place in the log of the
session there is, and the place of the socket attached to it (`SeqInLog`); what
lies behind it in the log is younger than all that was dispatched and than what
is being dispatched (`YetToCome`, `InDispatch`).

*Gateway runner.*  That the API forgets nothing undispatched needs to know that
everything below the offset has been dealt with, that a batch is a run of
consecutive updates which begins at the offset or later, and that everything
before its first update has been dealt with too (`PollInv`).
`ConfirmedByBounds` says what a call with an offset confirms; three lemmas on
runs say that they survive new updates, answers and the removal of their head.
`NoProcessRepeats` follows from the same invariant: what a process has seen is
below its offset.

*Agent turn.*  The budget invariant relates the place in the loop, the grace
flag, what was spent and what was answered; the interrupt invariant needs that
a turn past its checks has not been counted since the press.

*Terminal tool.*  `ScannedIsInTransit` is inductive with the types, with
"something is in the bridge's hands exactly when it sends" (`HandsMatch`), and
with the order in which the goroutines end (`Ended`), which is also what
`ClosedHasNoSender` follows from.  The bridge and the collector hand a chunk on
and leave `Sent` as it is (`HandingOnKeepsSent`, by `ShiftOne`: the head of a
queue at the end of the one before it); a pump adds to its end
(`PumpAddsLast`).  When time is up the bridge may take a chunk out of the middle,
and the rest keeps its order (`DroppingKeepsOrder`).

*Ring, coalescer, stream.*  `PushSpec` states what Push returns, by the two
cases of the full and the filling ring; `RingIsLogSuffix` and `RingIsFull` are
inductive together.  `PendingHasFlusher` needs that the timer the coalescer
remembers is armed or on its way.  Of the two together, `StreamInv` says where
the deltas of a turn are: each that was added is pending, in the batch of one
flush, or in one envelope, and nowhere twice (`Whereabouts`).  With the ring's
invariant and what a client holds of the log, this gives `CaughtUpKnowsAll`;
the ring and its clients take only steps of `EventFeed`, or stutter.

*Scheduler.*  Between ticks nothing is collected and nothing runs
(`TickOwnsRuns`); a job that is in the table, or collected and not started yet,
has not been started late (`LateOnce`); what was collected last by a tick that
is over is not due before its interval has passed (`Spaced`), which needs that
`nextCron` finds a minute after the one it is given (`EarliestIsLater`).

*Hub.*  A socket that is served stands in the map of its session and never in
that of another (`Registered`); publishers under way have envelopes of their
own (`Numbered`).  Whoever has been offered an envelope has been seen by the
range that is under way, or stands in the map over which its publisher has
ranged, and is skipped by the range over the other one (`AtMostOnce`); whoever
is owed it has it, or stands in a map that the range has not left
(`OwedComes`).

*Home directory.*  The three parts have an invariant each, and the steps of
`HomeDir` are steps of one or two of them.  For the rounds: a call has its own
result exactly when it is over, and what is not submitted is new
(`ResultIsOwn`, `RestIsNew`).  For the writes: a writer that is not done has
neither an answer nor a commit (`UnfinishedIsNowhere`); the table
grows with a commit only, by the rows of that writer at its end, so that
`BatchesAreWhole` is inductive with the types.  For the notes, the obvious
strengthening, that a `Save` has read all notes of its process that are in the
file, is false: another process may put a note back that was lost meanwhile,
and the read may have failed.  `ReadHasOwn` says of the saved notes that are
not yet lost that a `Save` has read them or has missed them, and
`HolderHasGuard` that no other `Save` of the process comes between.
`EnterKeeps` is the step of both reads, the whole and the failing one.

*Setup.*  What is confirmed must hold of the file, and of `raw`, which any
later section saves (`ProviderStands`, `BackendStands`); where `raw` began
empty, it may lack any key of the file, and a Save of it makes these `unread`.
The prompts after the key are reached only with the key in `.env` or among the
excused (`KeyIsThere`); no step takes a secret out of the two together, which
is what every step needs to know of keys (`KeysKept`).  A step that stages
something else adds it to `asked` or `askedBackend`, or confirms it.
`HomesHold` assumes that what earlier processes had confirmed held when they
ended, which is what the theorem gives for this one, the exceptions left aside.

*Usage writer.*  `Conservation` is inductive with one fact more, that a flusher
which is not writing has nothing in its hands (`EmptyHands`).  Its sum over the
flushers is a fold, of which the provers have the definition only, a choice of
a function with certain equations.  Counting tokens, the pairs of a flusher and
a number up to what it holds, solves these equations; by induction over the
number of flushers nothing else does (`SumIsTokens`), and `SumChange` follows:
when one flusher's count changes, the sum changes by as much.

*MCP client.*  A channel is in `pending`, in the reader's hand, or out of its
reach, and only a call whose channel is in `pending` can be sent to
(`Delivered`); every message carries the number of its own call (`Wired`,
`Numbered`).

Assumptions are the named `ASSUME`s of the component modules; TLC evaluates
them in the runs.  They say that bounds are numbers, that sets which the code
counts or waits for are finite (callers of the usage writer, sessions,
streams, rounds), and that model values that stand for "nothing" are not
something.

Only model-checked: liveness (`EverythingIsPublished`, `UpdatesAreDispatched`,
`InterruptEndsRunner`, `MessagesArrive`, `CancelEndsRun`, `TimeoutEndsCall`,
`DueIsRun`, `CallsReturn`, `CloseDrains`, `EndOfInputEndsRun`, `TurnsEnd`), for
the proof system has no rules for fairness and ENABLED here.

## 6. What may follow

1. The types of every module as theorems, with the bounds on its channels and
   queues.
2. Abstract specifications of the store and of the MCP client, as `EventFeed`
   is one of the ring.
3. `Subagent`: the semaphore of nested delegation, when main gives its manager
   a runner.
4. The websocket client of the TUI, with frames dropped at its full channel.
5. Pruning beside a turn (`maintenance.go:21`), when something calls it.

## 7. Not modelled

Subagents (main builds a manager without a runner and drops it), the provider
client (its outcomes are choices of `AgentTurn`), the websocket client of the
TUI, the JSON-RPC replies, authentication and the pty socket of the server,
frame types and the binary codec (nothing in main encodes), the delivery
ledger, session table and webhook platforms (main never uses them), context
compression and prompt assembly (pure text; the loop does not compress),
search, reads and maintenance of the store, the typing actions, edits and
deletions of messages, the handshake and tool lists of MCP, the docker, ssh and
cloud sandboxes (command lines for other programs), the scan for dangerous
commands, the file, todo and web tools, the parser of `config.yaml`, skills,
profiles, branding and the rendering of the TUI.
