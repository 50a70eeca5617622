# A formal model of OpenClawBot

TLA+ modules for the parts of OpenClawBot whose correctness depends on the order of
events: who runs when, what an escape, an abort, a crash or a retry may leave behind, and
what must eventually happen. TLC checks them on small instances; TLAPS proves most of the safety
properties for every instance. Paths below are relative to `src/`.

Run a check with `tlc -config RunScheduler_safety.cfg MCRunScheduler.tla` and a proof with
`tlapm RunSchedulerProofs.tla`. `PROJECT.json` lists runs, mutants, findings, hazards and
theorems, and maps each definition to the lines it translates.

## 1. The system

The system has two halves. `packages/` is an agent host: a coordinator process that supervises a
host process, in which a session runtime, a scheduler of runs and a messaging layer drive
language-model agents, and which a desktop process and a gateway client reach over a pipe and
over HTTP. `apps/community` is a chat server with rooms, bots, a mail agent and a browser
client, together with containers for desktops and the scripts that deploy it.

Nearly everything is JavaScript, and the rest is Python on one event loop or under one lock. Each
process has one thread, so the code interleaves only at `await`s, timers and callbacks, and the models
take steps of exactly that size. What is truly concurrent are the processes: coordinator and host, server
and browser, broker and docker daemon, the devices of one user.

| Component (source) | State | Operations | Talks to | What is hard | What makes it correct |
|---|---|---|---|---|---|
| Run scheduler (`packages/core/src/run-scheduler.ts`) | per agent: three pending lanes, the active item, zombies; timers; `disposed` | `enqueue`, `pump`, settlement, watchdog, grace timer, `drain`, `dispose`, `getDiagnostics` | session runtime, messaging, lifecycle | an escaped run goes on while its successor runs; a late settlement races the escape | runs overlap only across an escape; callers return |
| Run lifecycle (`packages/core/src/run-lifecycle.ts`) | in-flight counts, run windows | `attach`, begin and end of a run | wraps `enqueue` | tasks that throw or outlive their escape | a window is open while a run is in progress |
| Coordinator (`packages/coordinator/src/coordinator.ts`) | host process, attempts, restart timer | start, exit handler, restart, shutdown | host, parent | exits handled late, after a restart; spawns that fail | the reported host was not reaped; a crash is followed by a host until a spawn fails |
| Session runtime (`packages/runner/src/session-runtime.ts`) | sends by nonce, epochs, recovery sends | `sendUserPrompt`, `recoverSkippedMessages` | scheduler, runner, transcript | state used after an await; supersede | the newest message is answered; one send per nonce |
| Agent runner (`packages/runner/src/agent-runner.ts`) | `activeControllers` | `run`, `interrupt` | model providers | one controller per agent, several runs after an escape | an interrupt reaches the turn it is for |
| Agent messaging (`packages/messaging/src/agent-messaging.ts`) | inbound queues, revive loops | `sendToAgent`, revive, wake, steer | scheduler, runner, transcript | batches put back while others arrive | a message is shown, and not stranded |
| Groups (`group-orchestrator.ts`, `group-chat.ts`) | history, round, speaker | `run`, supersede | runner | superseded while a member thinks | members hear all; the room falls silent |
| Sub-agents (`subagent-runtime.ts`) | handles, records, steers | dispatch, steer, abort, settle | host | abort against completion | the record tells the outcome |
| Acceptance ledger (`packages/state/src/acceptance-ledger.ts`) | records by nonce | admit, settle, load, persist | file | overlapping writes, crash | a nonce is dispatched once |
| Transcript (`transcript.ts`) | entries, lines | append, rewrite, load | file | torn lines; rewrite against append | acknowledged entries stay |
| Agent store (`agent-store.ts`, `agent-store-sync.ts`) | several files per agent; a version per value; locks | create, update, delete; merge, lock | files, remote store | partial creation, lost updates | an agent is whole; edits converge |
| Automations (`automations.ts`) | automations, sweep | edits, tick, fire | file, runner | a sweep over a snapshot with awaits | only what is due and wanted fires |
| Port sessions (`packages/transport/src/port.ts`, `carrier.ts`, `parent.ts`) | pending requests, timers | request, dispatch, reply, breach, close | desktop process, coordinator | replies after timeouts; two planes on a pipe | an answer goes to its request, and each request ends |
| Gateway (`packages/transport/src/sse.ts`) | stream, generation, backoff, prompts | connect, read, reconnect, send with a retry | host | reconnect while hosts change | no event out of order, no prompt twice |
| Community server (`apps/community/server.mjs`) | tables; `jobs`, `roomJobs`, `controllers`, `closing` | post, bot runs, title jobs, compaction, `close()` | browsers, models, mail agent | checks before and after awaits; shutdown under load | one bot run per room; a message is accepted once |
| Mail agent (`mail-agent.mjs`) | job rows, configuration; the poll, the active task | poll, configure, close | mail service, `runMailTask` | effects that must not be repeated | a task runs once, its sender gets one reply |
| Browser page (`public/app.js`, `sidebar.mjs`) | session, rooms, panes, drafts, sidebar | clicks, polls, sends, uploads, saves | server | answers of an earlier user, room or click | the page shows what its user selected |
| Notifications, mailbox, setup (`push.mjs`, `public/pwa.js`, `mail.js`, `setup.js`, `setup-vault.mjs`) | subscriptions, forms, vault | subscribe, notify, edit, save | server, files | logouts, late answers, crashes and failing writes | a device is registered for the account at its page; saved settings survive |
| Model calls (`providers.mjs`, `model.mjs`) | cooldowns, cursor, quota | choose, call, fail over | providers | messages share keys, bots and pictures share a message | each request is reserved first |
| Desktops (`workspace-bridge.py`, `service.py`, `provisioner.mjs`) | shells and viewers; slots and leases | attach, write, reap; ensure, reap | docker, browsers | steps that fail half-way; late effects | viewers see all; what runs has a lease |
| Release (`scripts/deploy/release.py`) | images, tags, files | deploy and its way back | docker, git | failure at any step | what is recorded is what runs |
| Relay, cloud bridge, isolation, execution tunnel, providers, console, demo | see section 6 | | | | |

## 2. Modules

```
RunScheduler <- RunLifecycle <- MCRunScheduler
HostSupervisor
TurnQueue <- UserTurns, AgentInbox <- Conversation
RoomJobs <- MailAgent <- Community <- MCCommunity
WebRooms, WebSidebar, WebComposer <- MCWebClient
WebPush, WebMail, BotSetup, ModelCalls, Terminals, DesktopPool, Release <- MCWebServices
Persistence <- SendLedger, Automations
Filters <- AgentInbox, WebRooms, GroupRoom, GatewayStream, TranscriptFile, Automations, FilterProofs
FilterProofs <- HostProofs, ConversationProofs, StoreProofs, ClientProofs
SendLedger, TranscriptFile, Automations, AgentFiles, StoreSync, PortSession, GatewayStream, GatewaySends,
  GroupRoom, Subagents <- MCHostParts

RunLifecycle, ExclusiveRuns <- RunSchedulerProofs    Conversation <- ConversationProofs
HostSupervisor, Subagents, GroupRoom, GatewaySends, GatewayStream, PortSession <- HostProofs
StoreSync, AgentFiles, SendLedger, TranscriptFile, Automations <- StoreProofs
Community <- CommunityProofs
WebSidebar, WebComposer, WebMail, WebRooms <- ClientProofs
WebPush, BotSetup, ModelCalls, Terminals, DesktopPool, Release <- ServicesProofs
```

An arrow means "is extended by" (`ExclusiveRuns` is instantiated, by `RunScheduler` and `Conversation`). Definitions whose comment begins
with "Fault:" are not part of a specification: each is a plausible mistake in the definition below it,
and the mutants of `PROJECT.json` use them to show that every checked property can fail.

Components that interact are composed: scheduler and lifecycle, user turns and inbox of an agent,
rooms, mail agent and process of the server. `MCWebClient`, `MCWebServices` and `MCHostParts` are sums instead:
their parts share no state, so a behaviour is one of `part` (or `feature`) and the others keep still. A
property of a sum speaks of one part, and one run explores all of them.

**ExclusiveRuns** is what a caller of the scheduler is promised: lines per agent and lane, one task at
a time unless one was given up, each caller answered once. `RunScheduler` is shown to implement
it (`ServesExclusively`) with `lines` mapped to the pending lists and `state` and `answer` to the states of
tasks and promises; pumps, timers, zombies and drains are hidden. `Conversation`, which models an agent's queue
on its own to compose it with the runner, implements it too (`TurnsAreExclusive`): `Turns` are the tasks of one
agent, its two lanes the lines, and what a caller is answered follows from a turn's phase, escape and `outcome`.
TLC checks the refinements on the instances of `scheduler_safety` and `conversation_safety`;
`Implementation` and `TurnsServedExclusively` prove them.

**RunScheduler.** `pending`, `active`, `zombies` are the fields of `AgentQueue`; `status` is
where the task function of an item is and `promise` the caller's view of it, because an
escape separates the two. `pump()`, the start and the settlement of a task are microtasks,
each a step of its own; timers fire only when no microtask is left (`MicrotasksDrained`), which
is the event loop's rule and the reason that some races cannot happen. Durations are not
modelled: the watchdog of a run may fire at any such moment. The `known` field of a
drain is a history, not in the code.

**RunLifecycle** adds `attach()`: every `enqueue` opens or joins a run window and the
task's `finally` leaves it one microtask before the scheduler settles. It also holds the
fairness (section 4).

**HostSupervisor.** `startHost()` is split at its await of `spawn()`. Exits of processes and the
handling of their exit events are separate steps. `delay[h]` is the timer that the exit of
`h` armed, so that an overwritten handle leaves a timer armed, as in the code; `restartTimer`
is the handle. `restarted` is a history. A spawn ends in a process, in a rejection or in a child that could
not be forked; after either failure nothing brings a host back, which is a finding and the exception in
`CrashesAreRecovered`.

**TurnQueue** is the view that the conversation modules need of the scheduler and runner of
one agent: two lanes, one slot, escapes, and the one-entry controller map. `pump()` and the
settlement of a turn are one step each here; `RunScheduler` has their details.

**UserTurns** (session runtime): `SendUserPrompt` is the handler up to the await of the
transcript append, `AcceptPrompt` the rest up to the await of the turn, `StartUserTurn` the task,
`SettleSend` the `finally` that forgets the nonce. `content` names the message a prompt
carries, since a recovery sends an older one again.

**AgentInbox** (messaging, one recipient): `SendToAgent` includes the steering of the recipient;
`revive` is the loop's position: displaying a batch, or waiting for its wake; `rest[w]` is
`messages.slice(index)`. `finished`, `failed` and `dropped` record what became of a message.

**Conversation** composes the two over one queue and runner. The refinement of `ExclusiveRuns` checks that
the queue of `TurnQueue` keeps what `RunScheduler` promises.

**RoomJobs** (server): a request that posts a message is a member of `Posts`, and a bot run is
named after the post or mail it answers. `PostMessage` runs to `await ensureModels()`, or, for a
post without bots, to the reply; `ResumePost` is the rest. `fresh`/`untitled` are what the
handler read of the room's name before the await. Title jobs share `jobs` with bot runs;
compactions hold a room without being counted.

**MailAgent**: rows survive a restart, the poll does not. `poll`, `todo`, `step`, `cur` are
the position of `check()` and of the row it awaits something for. `wire` holds replies on
their way to the mail service, which is external and modelled as the code relies on it: it sends a
request id once and forgets it after 24 hours. `age` abstracts the time since a reply was
saved by the only two limits that matter (23 h, after which the agent stops; 24 h).

**Community** adds `close()` in its four phases, the end of the process by `CloseDatabase` or
`Crash`, and the restart that marks running rows interrupted.

**WebRooms, WebSidebar, WebComposer** (browser page). The page is a record, an action one callback up to
its next await, and the functions a callback calls are operators from page to page. The code guards its
awaits by request numbers, epochs and captured ids; a number is only ever compared with the current one, so
a call in flight carries whether it still is the `latest` of its kind and its epoch `current`. The server's
side (`srv`, `stored`) is what the routes of `server.mjs` and `sidebar.mjs` keep.

**WebPush, WebMail, BotSetup** (notifications, mailbox and setup dialogs). The same style. In `WebPush` a
request, its handling and its answer are separate steps, any of which may be lost, and a login or a logout makes
what is in flight not `current`; `closed` is a history of logins that the end of an earlier logout took from
the page (a finding). `BotSetup` includes the vault: a new file, a rename, a key that is in memory before its
file is written, a server that stops anywhere between or goes on after a step that failed; `unkeyed` is a history of
the key that could not be written (a finding).

**ModelCalls**: two messages choose among keys, look at their pictures and let their bots answer one after the other;
a slot is a key, and an attempt a model and a key. The call about pictures goes through the lists of four models put
together (two here), which name a key once for each model it has, and every bot begins the list of the message again.

**Terminals, DesktopPool, Release** (Python). `Terminals` overtakes only at awaits; `DesktopPool` has a
program counter for the holder of `LOCK`, a failure of each step, a broker and a host that end anywhere and calls of
docker that take effect late; `Release` is the list of steps of `deploy()` and of its `except` block,
each of which may fail or be the last.

**Persistence, SendLedger, TranscriptFile, Automations, AgentFiles** (stores). A file is opened, which
empties it, and filled later: `Persistence` has those two steps for the stores that keep one snapshot.
**StoreSync** is one agent's value on several devices with etags and a lock that lapses; `Merging` says
whether the caller passes a merge that keeps both sides.

**PortSession** has the two planes of the pipe with a FIFO queue per direction. **GatewayStream** is
the client's loop against the server's `handleEvents`, an event being its text and its blank line, which
may come in different reads. **GatewaySends** is the prompt with its deadline and one retry.
**GroupRoom** is one run of the orchestrator; **Subagents** the records, handles and steers.

## 3. Runs

Runs that must pass:

| Run | Instance | Shows |
|---|---|---|
| `scheduler_safety` | 2 agents, 3 tasks, 1 drain | Runs of an agent overlap only across an escape (`OneRunAtATime`); wakeups are lost only behind zombies (`NoLostWakeup`); diagnostics, run windows and `drain()` tell the truth (`ReportsAreTrue`); the scheduler implements `ExclusiveRuns` (`ServesExclusively`) |
| `scheduler_liveness` | 1 agent, 2 tasks, 1 drain | If tasks end, senders and drains return (`CallersReturn`) |
| `host_recovery` | 4 spawns, 2 of which may fail | The reported host was not reaped or killed, and without restart requests it is alone (`HostsAreKnown`); every crash is recovered from, until `shutdown()` or a failed spawn (`CrashesAreRecovered`) |
| `conversation_safety` | 3 prompts (1 recovery), 2 messages (1 priority), 3 wakes, 1 escape | The newest message is served, superseded turns are aborted, messages are neither lost nor shown twice nor stranded, peers never abort a user turn; the turns of both lanes implement `ExclusiveRuns` |
| `community_rooms` | 2 posts, 1 mail, 2 nonces, 1 compaction room, 1 close, 1 crash | One work per room and two bot runs at most, no row left running (`WorkIsExclusive`); a repeated post is accepted once (`AcceptedOnce`) |
| `community_mail` | 2 mails, possibly copies, 2 attempts, 2 configuration changes, 1 crash | A mail's task runs once, its sender gets one reply, a revoked task stays silent, every task ends |
| `client_page` | 2 users, 2 rooms, 2 extra panes, 4 sidebar edits, 2 messages or files | The main pane is that of the user and room selected (`MainPaneIsCurrent`), a refresh never wedges, a view never goes back to an older answer, the sidebar converges with the server, a message is stored once and with its own files (`MeantOnce`) |
| `client_services` | see the cfg; 2 or 3 of everything | What the server may send to a device, and what its page shows, is of the account at the page, whatever logins and late answers cross; saved settings survive a stop or a failure in the middle of a save, unless the key could not be written; edits of senders are replaced only by the answer to their save; model calls are reserved, those for pictures, tools and further bots too, and a call for an answer avoids keys that failed in it; viewers see every chunk once; a running desktop has a lease and a slot; after releases, what is recorded is what runs |
| `packages_parts` | see the cfg; 2 or 3 of everything | A nonce is dispatched once, acknowledged entries stay, only due and wanted automations fire, agents are whole, devices agree, answers find their requests, events come in order, no host has a prompt twice, members hear everything and the room falls silent, records of sub-agents tell the outcome |

Runs that must find a violation; each states what a comment says:

| Run | Property | What the code does |
|---|---|---|
| `scheduler_wedged` | `SendsNeverHang` | The escape of a run that never ends schedules no `pump()`: sends queued behind it wait for the next `enqueue` |
| `scheduler_drain` | `DrainWaitsForKnown` | `drain()` waits for the caller-facing promises of pending items, which an escape resolves early |
| `conversation_recovery` | `RecoveryKeepsSkipped` | The superseding message is recorded for recovery instead of the superseded one |

The other findings were met while modelling and are listed in `PROJECT.json`, each with the line and
what happens. Several properties hold only outside of such a case, and say so by a ghost:
`restarted` (a late exit after `restartHost()` makes the supervisor forget its host), `disarmed` (an escaped run
took the controller), `harmed` and `collided` (writes of one file that overlap, or a process that ends inside one),
`reused` (a sub-agent's id dispatched again while an aborted run goes on), `overrun` (a lock lapsed
under its task), `nobodys` (a room's content was asked for with nobody logged in, after a late 401 had logged out a page
whose session goes on), `strays` (a start of a desktop that was given up and succeeded later), `tainted` (a deploy
that was killed, or whose way back failed). Other exceptions are
stated in the comment of the property that has them.

### Bounds

* Scheduler: two tasks of one agent suffice for an escape with a successor; the third is pending behind
  both, or belongs to the other agent. Tasks are enqueued once: a task function is a closure the caller made
  for one call. Agents share no state but `disposed`, so `SafetySpec` calls `drain()` only when all
  tasks are of one agent.
* Host: three spawns show a late exit after a restart; the fourth lets a timer, a request and a spawn
  overlap. `MaxMs = 3` with `BaseMs = 1` makes the cap of the backoff bite.
* Conversation: two prompts supersede, the third recovers; two messages make a batch with a
  preemption; `MaxWakes = 3` allows a wake, its re-drive and a further one.
* Community: two posts with equal or different nonces cover retries and contention; with the mail
  there are three candidates for two slots. `MaxTurns` of 3 and 2 make the quota bite. `MaxAttempts = 2`
  instead of 5: an attempt, its retry and the refusal of another. `MaxChanges = 2` allows to withdraw
  and give back a permission. `MaxCloses`, `MaxCrashes` bound the ends of the process; each is followed by a
  restart. `MailSpec` gives the first mail's Message-ID a name; the second has the same or another. That run leaves
  posts out: their only influence on a task is a busy room or slot, which is in the rooms run.
* Page: two users make a logout with a login by another; two rooms make a switch; `Budgets` and
  `Drafts` bound clicks, panes, messages and files per behaviour; `MaxCalls = 2` overlapping requests
  give every order of two answers. `MaxEdits = 4` lets a write be queued behind another that fails.
* Services: four clicks on two logins make a login, a logout, another login and what was under way before it,
  with two operations in flight and two events of the server; two saves and one stop put the stop or a failure
  before, inside and after the second; two keys of two providers, one of which has both models for pictures, make
  failovers beyond a provider and a key that is listed twice, with a quota of four for two messages of up to two bots; two shells with one viewer each and two viewers make takeover and limits; two
  desktops with `MaxRunning = 1` make a refusal; three deploys let a third one meet what
  the second left behind.
* Packages: three sends of two nonces are a retry and a stranger; three entries with one rewrite; three
  devices, so that a third overtakes two that conflict; two requests per plane with one stray reply; two
  gateways with two switches; three members and four messages at two per turn, so the cap falls inside a turn;
  three runs of two sub-agents, so one id is used again. In a sum, the parts that keep still start
  in one state only.

Deadlock is not checked: all calls of an instance may have been made, and disposed schedulers,
stopped hosts and idle agents really stop. Symmetry is used only in runs without liveness, over tasks, prompts,
agents, posts, users, rooms and so on that the specifications treat alike.

## 4. Fairness

* `EventLoopFairness`: a queued microtask runs and an armed timer fires, which the event loop
  guarantees. Whether a task ends is not the scheduler's: `FairSpec` leaves it open (that is where
  `SendsNeverHang` fails) and `CooperativeSpec` assumes it.
* `HostSupervisor!FairSpec`: an awaited spawn ends, with a process or without, exit events are delivered, timers fire. No
  process is assumed ever to exit.
* `Community!Fairness`: the model list call ends (it has a timeout), the deadline timer of an
  active task fires, an aborted bot run ends and its continuation runs, and a crashed process is
  restarted (`Restart=on-failure` in `apps/community/deploy/bot-lounge.service`). A run that is not
  aborted may hang for ever. After an orderly `close()` no restart is assumed, since the exit
  code is 0.

No strong fairness is used anywhere.

## 5. Proofs

All proofs are for any sets and bounds, from the named assumptions of the modules only. Each follows the
same line: a strengthening is proved to hold initially and to be kept by each action (one lemma per
action or group of actions), and the property follows from it.

| Module | Theorem | States |
|---|---|---|
| `RunSchedulerProofs` | `TypeCorrect`, `InductiveInvariant` | `TypeOK`, `IInv` |
| | `Exclusivity`, `Tracking`, `EarlyRelease` | `OneRunAtATime`, `RunsAreTracked`, `ReleasedEarlyOnlyByEscape` |
| | `Wakeups`, `Finality` | `NoLostWakeup`, `SettlesOnce` (an action property) |
| | `Implementation` | `ServesExclusively`: the refinement of `ExclusiveRuns` |
| | `ReportInvariant`, `TrueReports` | `ReportInv`, `ReportsAreTrue` |
| `HostProofs` | `HostInvariant`, `KnownHosts`, `ShutdownClears` | `HostInv`, `HostsAreKnown`, `NoTimerSurvivesShutdown` |
| | `SubInvariant`, `RecordsTell` | `SubInv`, `RecordTellsOutcome` |
| | `RoomsAreFair` (`GroupInv`) | `RoomIsFair` |
| | `PromptsOnce` | `PromptOncePerHost` |
| | `StreamInvariant`, `StreamTells` | `StreamInv`, `StreamTellsAll` |
| | `PortInvariant`, `PortsAnswer` | `PortInv`, `PortsAnswerTheirOwn` |
| `ConversationProofs` | `ConversationInvariant` | `ConversationInv` |
| | `NewestServed`, `SupersededAborted`, `UserTurnsComeFirst` | `NewestPromptIsServed`, `SupersededTurnIsAborted`, `UserTurnsYieldOnlyToUser` |
| | `NothingStranded`, `MessagesKept` | `NoStrandedInbound`, a part of `MessagesAreKept` |
| | `TurnsServedExclusively` | `TurnsAreExclusive`: the refinement of `ExclusiveRuns` |
| `CommunityProofs` | `MailInvariant`, `WorkInvariant` | `MailInv`, `WorkInv` |
| | `TasksRunOnce`, `OneReply`, `RevokedStaysSilent` | `TaskRunsOnce`, `RepliesOnce`, `RevokedTaskIsSilent` |
| | `PostsAcceptedOnce`, `RoomsAreExclusive` | `AcceptedOnce`, `WorkIsExclusive` |
| `StoreProofs` | `SyncInvariant`, `Convergence`, `Agreement` | `SyncInv`, `EditsConverge`, `DevicesAgree` |
| | `AgentFilesInvariant`, `WholeAgents` | `AgentFilesInv`, `AgentsAreWhole` |
| | `LedgerInvariant`, `SentOnce` | `LedgerInv`, `SentOncePerNonce` |
| | `TranscriptInvariant`, `EntriesStay` | `TranscriptInv`, `AcknowledgedEntriesStay` |
| | `AutomationInvariant`, `FiresDue` | `AutoInv`, `FiresWhatIsDue` |
| `ServicesProofs` | `Consistency` | `RestIsConsistent` |
| | `SetupInvariant`, `SettingsSurvive` | `SetupInv`, `SavedSettingsSurvive` |
| | `DesktopInvariant`, `RunningLeased` | `DesktopInv`, `RunningIsLeased` |
| | `ModelInvariant`, `CallsReserved` | `ModelInv`, `CallsAreReserved` |
| | `NotifiesOwn` | `NotifiesItsAccount` |
| | `TerminalInvariant`, `ViewersSee` | `TerminalInv`, `ViewersSeeAll` |
| `ClientProofs` | `SidebarInvariant`, `SidebarShowsWhatIsKept` | `SidebarInv`, `SidebarConverges` |
| | `ComposerInvariant`, `MessagesMeantOnce` | `ComposerInv`, `MeantOnce` |
| | `MailInvariant`, `EditsAreKept` | `MailKept`, `SenderEditsAreKept` |
| | `RoomsInvariant`, `RoomsTyped` | `RoomsInv`, `RoomsTypeOK` |
| | `MainPaneCurrent`, `RefreshesNeverWedge` | `MainPaneIsCurrent`, `RefreshNeverWedges` |
| | `ViewsNeverGoBack` | `ViewNeverGoesBack` (an action property) |

The parts of a sum are proved by themselves, under the specification made of their own initial predicate
and next-state relation (`SyncSpec`, `PortSpec`, `SidebarSpec` and so on, defined in the proof modules); in the
runs they are one part of the sum, which moves by exactly these steps. The assumptions on constants beyond
bounds being numbers are that what exists when a page is loaded is among the rooms, that the keys of `ModelCalls`,
the endpoints of `WebPush`, the rooms of `DesktopPool`, the session ids of `Terminals` and the entries of `TranscriptFile` are finite sets, which
are counted or put in order, and that the default values (`None`, `NoTurn`, ...) are none of the others; in
`GatewayStream` no event is a comment.

*Scheduler.* That no two runs overlap depends on `pump()` taking a task that is pending, hence
on the lists holding only pending tasks, each once, of their agent and lane (`QueuesHoldPending`,
`QueuedOnce`); on the slot being empty only if no live unescaped run is left (`LiveIsTracked`); and on
the watchdog acting on the active run only (`TimerMeansActive`). `ActiveIsLive` and `ZombieIsLive` tie
the slot and the zombies to the tasks; that a zombie's promise is resolved is what makes its late settlement
harmless. `Implementation` maps each action to a step of `ExclusiveRuns` or a stutter, and uses `IInv`. The
reports need the converse as well, that every pending task is in its list (`PendingIsQueued`), and that the
count of a window is the size of the set of the tasks it was opened for (`WindowsAreCounted`).

*Supervisor and sub-agents.* Until the first restart request at most one host is alive or has a timer armed, and
then the timer is the one in the handle (`OneInvolved`): exits, restarts and `shutdown()` all work on the
latest host only because of it. The record of a sub-agent is that of its last run, which alone may still
go on (`RecordIsOfLast`). Whoever wrote a message of a group had been told those of the others before it
(`HeardBefore`): what is new to the next speaker begins after its own last message, so nothing is left out.

*Conversation.* The queue's part (`SlotInv`) is the scheduler's argument again: a running turn holds the
slot or was escaped, and the controller is its own unless an escape took it. The newest prompt is served because only
a newer one skips or aborts a turn (`OlderTurnsYield`); a message stays because it is in exactly one of the inbox,
the batch on display and the rests of wakes, or settled (`PlacesApart`, `SentIsAccounted`), and whoever holds it
knows whether it was shown (`ShownTruly`). `TurnsServedExclusively` needs `SlotInv` alone: every turn
under way that was not escaped is in the slot, so what `pump()` finds when the slot is empty runs unseen by its
caller, and a turn that was escaped had begun, so its late end answers nobody.

*Server.* A row moves from absent over queued and running to reply_pending. `TaskRunsOnce` needs that
the poll agrees with the row it awaits something for (`PollAgrees`), that a task is verified, and no other mail with
its Message-ID is, before it runs, and is out of the queue afterwards (`TasksAreVerified`). `RepliesOnce`
needs that nothing is under way before a row waits for its reply, and nothing that the mail service may
have forgotten (`RepliesComeLast`); silence, that a revoked task is told to stop as long as it is active
(`RevokedAreStopped`). For the rooms, a run is counted in `jobs` while it is in progress (`RunsAreCounted`),
a post runs only once accepted, a mail's run is what the poll awaits (`RunsHaveOwners`), and an
accepted message is stored (`AcceptedAreStored`); `RoomsAreHeld` states exclusivity room by room. The bound
of two uses facts about finite sets.

*Stores.* `EditsConverge` is not inductive, since a put replaces the whole value. A put that is not refused
was computed from the value it replaces: the etag grows with every version, so a device whose etag is the
current one has read the current value (`ReadIsCurrent`). `HoldersAreKnown` adds who holds the lock. An agent is
always at a stage of being created or cut off (`Stage`), and a step on one agent leaves the stages of the others.
The ledger accounts for dispatches three times: in memory, in the file, and in every snapshot that is being
written (`Accounts`), while a nonce has at most one holder. As long as no write of the transcript collided with a
rewrite, a rewrite is the only write under way and the store is what it writes (`RewriteIsAlone`), and the
entries in the file, those on their way to it and the fresh ones are apart (`EntriesAreApart`). What an automation's
user asked for and when it was last fired (`Told`) is the same by the store, by the snapshot of the sweep under way but
for the one it has just dispatched (`SweepIsTold`), and, until the store has given out an id, by the
file (`FileIsTold`): an id that a sweep holds is never given out again.

*Links.* The one retry of a prompt is sent only when the first request cannot have reached a host that does not
deduplicate (`OnceOnTheWay`, `Unsent`, `SentToDeduping`). On the pipe, whatever a plane holds for a request is in
the order the peer will read it (`InOrder`), and only a stray frame breaks a session (`StraysBreak`). What a
subscriber of the stream was told, the events in what is left of the last read and under way, and those a dead link
has lost, one after the other, are what was published (`Complete`): a read moves events from the second part to
the first, and since what is under way ends with a blank line (`Whole`), nothing is left over once all is read.

*Services.* The invariant of a release follows a deploy: what it has made new on the way forward (`Forward`) and,
as long as none was cut off, that what it noted at the start is what ran and is still what the way
back needs (`Untouched`, `WayBack`). A limit of desktops that was checked still holds when the container starts,
since the room in hand holds `LOCK` (`Limited`) and what was given up is a stray. A message has paid for every call it
made and for the bots that still wait (`KeptWith`), and the list for its answers, unlike that for pictures, names
no key twice. Every live login is at the page or was closed there by an earlier logout, and an operation of the
present epoch acts for no other login (`OpIsOwn`). The key of the vault in memory is that of its file unless
writing the file failed. What a viewer of a terminal got and what its queue holds are together the
chunks of the shell up to the last that was emitted, without a gap and with the exit last (`Watches`): a socket
that is late or slow begins later or is closed, but skips nothing.

*Browser.* A write of the sidebar is sent only when it is first in the queue, writes of earlier sessions come
before those of the present one, and the last of these is what the page shows (`QueueOf`, `Shown`,
`KeptConfirmed`). All that the composers have said, hold for a retry or have on its way agrees on the nonce
of a message (`SaysOnce`). Of the requests about the senders at most one counts, and a save carries the form that is
shown (`AgentInOrder`). For the conversations, `RoomsInv` says of a page and a server: of the refreshes of a pane one
is the latest (`LatestIsOne`); what is shown is neither newer than the server's nor than the answer to that one
(`Upto`); whoever is logged in has the session, if there is one (`SessionKept`), so an answer that still counts
is for the user who asked (`CallKept`); and what waits has a call that ends the wait (`RoomAwaits`, `PanesAwait`,
`Polled`). The operators from page to page have a lemma each, which an action's proof chains; most steps show
nothing they did not show before (`Shows`), and the two that do are the answers to refreshes (`Forward`). The panes
that a filter keeps are found by rank, as everywhere (`Filters`): `FilterProofs` counts the ranks (`Ranks`) and
concludes that a filter keeps the order, each element at one place (`KeptGives`, `AmongGives`), and that what is
kept of two joined sequences is joined (`AmongJoins`).

Only model-checked:

* liveness (`CallersReturn`, `CrashesAreRecovered`, `TasksEnd`, `SendsNeverHang`), since fairness and `ENABLED` are
  outside the prover;
* the findings: each is a counterexample of its run.

Of what a filter or a concatenation computes for every input, nothing is proved by induction: sequences are filtered by
rank (`Filters`) and joined pairwise, which the lemmas of `FilterProofs` reach by counting.

The type invariants of the modules document their states. No module declares a `RECURSIVE` operator:
`HostSupervisor` uses a recursive function (`Power2`).

## 6. Not modelled

* Prompt building, envelope parsing, formatting, logging, rendering, docking: no ordering.
* Model providers (`packages/llm`), signature checks of mails, media conversion, the file transfer of
  the workspace bridge: I/O behind awaits, represented by "may return, throw, or hang".
* `cross-user-relay.ts`, `cloud-agent-bridge.ts`, `agent-isolation.ts`, `local-exec.ts`: one awaited
  request at a time against a table; requests do not influence each other. What their comments promise and the
  code does not keep is among the findings.
* `rpc-contract.ts`, `webauthn.ts`, policies, clock, event bus, console and demo: declarations and wiring.
* File-system failures of appends in the conversation modules; ack obligations, which nothing
  mints; group targets and bounces of `sendToAgent()`.
* In the server: accounts, invites, forks, deletion of rooms, and several users in
  `RoomJobs`. One user and one day make the quota tightest. Turns reserved for more than one bot of a room only
  make the quota end sooner; those of further model calls are in `ModelCalls`.
* Of the setup: a second server on the same files. Of notifications: a reload of the page with something in flight,
  other devices (a full account refuses at any time instead), and the recheck of a queued notification, which is one
  guard in the step that sends it. Of model calls: which models `choose()` prefers, messages without bots,
  and the gateway backend.
* A member of a group whose turn rejects, and posts to it after a run was superseded; a `runSubagent` that throws at
  once; a write of the send ledger that fails while the host goes on; a login and a registration of one page
  in flight together.
* In the mail agent: limits of a poll and of a day (a row may be skipped at any time instead), and
  mappings of several senders. The order of rows within a poll is arbitrary.
* In the page: the dialogs of invites and profiles.
* Memory, key-value files and workspaces (`packages/state`): single reads and writes without a protocol.
* Cron expressions: a schedule is one minute of a day. The WebSocket carrier: the pipe is the one
  carrier modelled.
* Remaining scripts of `scripts/` and `deploy/`: sequences of commands without state of their own.
