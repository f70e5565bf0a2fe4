# Verification of the Fabi IDE

TLA+ specifications of the Fabi IDE, checked with TLC on small instances and, where stated, proved
with TLAPS for every value of the constants. Paths are relative to the repository; `node/`,
`browser/`, `common/` and `electron-main/` abbreviate `src/fabi-swarm/src/...`, `spaces/`
abbreviates `src/fabi-spaces/src/electron-main/`.

Fabi is an IDE built on Theia and Electron whose chat runs on a *swarm*: computers that share a
language model. The backend of the IDE supervises a Parallax *worker* (this computer's
contribution), a *Request Agent* (the local endpoint requests are sent to) and an *OpenCode
sidecar* (the coding agent); the main process of Electron installs the engine, updates the
application and shows several workspaces, the *Spaces*, in one window, with a dashboard,
*Maestro*, over all the agents.

All of this is JavaScript on an event loop. Nothing is preempted: what interleaves is what
happens between two awaits. In every module an action is everything that a handler, or a call
between two of its awaits, does in one go; a call that awaits is a process whose program
counter is the await it stands at. Processes that share a file (two backends, the user's editor,
another tool) interleave at each read and each write of it.

## 1. Inventory

| component | source | state | operations | what is hard |
|---|---|---|---|---|
| Chat turns | `node/fabi-code-service.ts`, `node/fabi-code-turn-state.ts` | `turnWaiters`, `turnPhases`, `inflight`, `info`, the event stream and its directory | `prompt`, `abort`, the events, the reconciliations, `onStop` | events and HTTP answers overtake each other; a lost stream; a second prompt in one session; restarts |
| OpenCode sidecar | `node/fabi-code-server.ts`, `ensureCurrentServer` | child, restart timer, ready promise, the handle of the service | start, exit, restart, stop, kill of orphans, relaunch | a stop during the restart delay, two relaunches at once |
| Permissions and questions | `node/fabi-code-service.ts`, `common/fabi-code-permission-mode.ts`, `browser/fabi-code-agent.ts` | what is published, the policy of each session, the cards | publish, answer automatically or by hand, lists read again | read before an await, added after it; another renderer; sub-tasks |
| Part stream | `node/fabi-code-part-stream.ts`, `browser/fabi-code-agent.ts` | parts of a message, what is rendered | delta, snapshot, render | deltas that overlap a snapshot, a cut |
| Swarm membership | `node/fabi-swarm-service.ts` | `activeSwarm`, `switching`, `handle`, `workerState`, Request Agent and its generation, pending storage restart | `connectSwarm`, `disconnect`, auto-reconnection, launch and restart of the agent, storage restart, `onStop` | calls that await while processes die; handles replaced under an await |
| Worker supervision | `node/fabi-swarm-worker.ts` | the child, `stopped`, restart timer, the stage | spawn, exit and delayed restart, stop, kill of orphans, `handleLine` | a stop during the delay; two workers that take each other for orphans |
| Request Agent process | `node/fabi-request-agent.ts` | child, readiness | launch, ready, invalid readiness, exit, stop | readiness of a process that is already replaced |
| Contribution gate | `node/fabi-swarm-service.ts`, `node/fabi-connection.ts` | epoch, cached access, check under way, timer, waiters | `recomputeConnection`, `ensureContributionCheck`, `waitUntilReady` | late answers about another swarm or another life of the worker; chains of timers |
| Registry feed | `node/fabi-registry.ts` | stream, poll and reconnection timers | events, fallback poll, backoff | an old answer after a newer event |
| Request Agent event feed | `node/fabi-request-agent-events.ts` | last event id, active requests | replay, snapshot, events | an end that is lost keeps the request active |
| Model registration | `browser/fabi-swarm-model.ts`, `browser/fabi-swarm-frontend.ts` | generation, `modelRegistered`, the pushed state | `wire`, `syncModelRegistration` | calls that overtake each other around two awaits |
| Model storage | `node/fabi-model-storage.ts` | the list of locations and its file | add, remove, write, publish | several windows, slow disks |
| Runtime installation | `node/fabi-runtime-install.ts`, `node/fabi-runtime-manager.ts` | the managed root, its stage and backup, the parts of a download | download, verify, activate, roll back, prune | a crash or an error between two renames; resumption |
| Updater and start | `electron-main/fabi-mandatory-app-updater.ts`, `electron-main/fabi-electron-main-application.ts` | busy, downloaded, installing; the launcher | the gate of the update, the gate of the engine | failures that open a way past a gate |
| Maestro supervision | `node/fabi-maestro-service.ts`, `browser/maestro/maestro-surface-reporter.ts` | session records, open surfaces, what is shown | events, refresh, send, answer a permission, push | an answer that clears the next permission; lists and events that race |
| Maestro hooks | `node/fabi-maestro-hooks.ts` | the sessions of CLI agents, the clients that wait | events of a hook, `respond` | two clients of one session |
| Installation of the hooks | `node/fabi-maestro-hooks.ts` | the settings of two other programs | read, merge, write | others write the same files |
| Maestro stage | `browser/maestro/maestro-widget.tsx` | the selected agent, its conversation or terminal | snapshots, clicks, loads, replies, terminals that open | another agent is selected during an await |
| External agents | `node/fabi-external-agents.ts` | a scan | scan | what the scan read is old when it ends |
| Spaces | `spaces/space-manager.ts`, `spaces/space-store.ts` | list of Spaces, views, active one, preview, `spaces.json` and its timer | boot, open, close, reorder, edit, create, preview, route, suspend, dispose | stale commands of the rail; the limit of live views; the end before the save |
| Account token | `node/fabi-account-token.ts` | one file of the user, a copy in each process | read or create | two processes that create it |
| Worker bootstrap | `node/fabi-worker-bootstrap.ts` | the trusted root on the disk | check, download, replace | several processes, a rename that does not replace |
| Metrics, configuration | `node/fabi-metrics.ts`, `node/fabi-code-config.ts` | samples, nothing | measure, derive | a measure that takes longer than its period |
| Chat agent, widgets, models | `browser/` | what the backend pushes | rendering, the gestures of the user | which gestures are disabled during a call |
| Branding | `src/fabi-branding/` | none | styles | none |

Interactions. The widgets call the backend services over JSON-RPC and are pushed whole states.
A prompt waits for the contribution gate (`waitUntilReady`), then for the sidecar
(`ensureCurrentServer`), then for its turn. The gate is fed by the registry feed, the worker and
the scheduler. The storage settings ask the membership for a restart of the worker, which the
Request Agent's event feed puts off while something is generated. Maestro's dashboard, a view of
the Spaces, opens surfaces in other views through the main process; its board follows the
sidecar on a stream of its own, and the CLI agents by their hooks and by a scan. The start of the
application runs the installer that the IDE runs too.

What makes each component correct, in a sentence: every turn that was accepted is ended once and
only when the engine is through with it; one worker and one agent at most, of the swarm that is
joined, and none when none is; a prompt is open only while this account, swarm and worker have
been admitted; the window always shows one existing Space and keeps the list; the sidecar that
answers is the one of the current configuration; a request of the engine is offered until it is
answered, and answered for the user only where the user chose so; the feeds converge to what
the server says; the managed runtime is replaced as a whole; what the board offers can be
answered and what it shows is true; the files of others survive.

## 2. Modules

    Connection    <-- Contribution <-- MCContribution            GatesProofs
                      SwarmService <-- MCSwarmService            SwarmServiceProofs
                      CodeTurns    <-- MCCodeTurns               CodeTurnsProofs
                      Spaces       <-- MCSpaces                  SpacesProofs
    ActiveRuntime <.. RuntimeInstall <-- Startup                 GatesProofs
                      MaestroHooks <-- Maestro                   MaestroProofs
                      Sidecar                                    SidecarProofs
                      Interactions <-- MCInteractions            InteractionsProofs
    RegistryFeed, RequestAgentFeed, PartStream,
    ModelRegistration, HookInstall, ModelStorage,
    MaestroStage, AccountToken, WorkerBootstrap <.. MCSeparate   SeparateProofs

`<--` reads "is extended by", `<..` "is instantiated by"; a proof module extends the
specification directly. GatesProofs is about the two gates that a session passes, that of the start
and that of the contribution, whose specifications share no name.

**CodeTurns** follows the calls of `prompt()` to the end of their turn. A call goes through
`ensure` (ensureCurrentServer), `snapshot` (the ids of the assistant messages before the prompt),
`post` and `posted` (prompt_async and its answer), `reconcile` (the first look at the status),
`wait` (the promise of waitForTurn), `returned`. The waiter, its two flags and its phase are
those of the code; `info` is what setStatus() derives from them and publishes. A reconciliation
(`reads`) is a process of its own, by its waiter and by who asked for it. The engine is external:
it runs the prompts of a session one at a time and its event stream keeps the order of events,
delays them at will against the HTTP answers, which come over other connections, and loses them
all when it is cut. Two assumptions on it, each visible in an operator: it carries only events of
the directory it was opened for, and an engine run that fails leaves a message that says so. Two
stages of a reconciliation are history for the properties, and look like others to the code: an
absence is `early` when it was answered before the turn began, and a reconciliation is `lost` when
it was rejected where nobody repeats it (384-389), until another one of the turn starts.

**Sidecar** is what CodeTurns abstracts to a server that is up or not: `ensureCurrentServer()`,
`launch()` and `whenReady()` at each of their awaits, over `startServer()`. A launch is a handle,
with its child, its restart timer, its grace period and its announcement of a URL. `orphans` are
the processes of a backend that died; killOrphanedSidecars() ends any of them or none, since it
does nothing on Windows or where `ps` fails, and sends no more than a SIGTERM. `disturbed`
remembers that two calls were in there at once, or that a process outlived its grace period.

**Interactions** has the two sides of a request: the engine asks, the backend publishes it (from an
event of the stream, or from a list read after a connection or a new renderer), finds the root
session and its policy across two awaits, and answers it or offers it; the renderer keeps what
it was told under the chat and its invocation shows a card. A resolution, a list, an answer may
fail, a renderer leaves, the engine is relaunched without its requests, by a prompt or by a call
that makes a session. A prompt that fails before its policy is set leaves the old one (`failed`). A
list tells its permissions first, then its questions.

**PartStream** is a text from the engine to the screen: the accumulator that makes the deltas
cumulative and the invocation that appends what it has not rendered. A text is a sequence of
numbered chunks, so that a repetition and an omission show. A turn may end at any point of its
stream otherwise than by its idle (`EndsEarly`): the status is read over another connection after
each acknowledgement, and may be answered while the last deltas are under way.

**SwarmService** is the join, the leave and the life of both processes. Each call is a record with
the await it stands at and the values it holds across it: `connect` (connectSwarm() that
switches), `again` (connectSwarm() of the swarm already joined), `leave`, `close`, `revive`
(restartRequestAgent), `storage` (tryApplyModelStorageRestart). Workers and agents are numbered;
what became of each is kept, so that "two are alive" can be said. `Due` says that a call whose
awaited stop() has resolved resumes before the next event: promises are run before the event loop
turns. connectSwarm() reads the list of swarms with an await that is already resolved when the
feed has answered once, so its test of `switching` and its assignment are one step.
`Overlap` is what the user may do: TRUE, anything at any time; FALSE, no call that joins or leaves
while another one of his is under way, closing the IDE and the storage excepted. The selector
disables its buttons during its own calls only (`browser/fabi-swarm-selector.tsx:38`), so both
matter. What the service does by itself, the restart of the agent and that of the worker, shows
nothing, and the user acts across it in both. `crossed` remembers what such a crossing left
behind: the workers that a storage restart let escape, the agents that a second launch displaced,
an error that came too late, a file that could not be written. A write of the persisted swarm may
fail silently; the browser preview (`preview`) joins without a worker and writes nothing.

**Connection** is deriveConnection() and requireContribution(), on the fields of an entry and of
a worker that they read, with the stages that the output of a worker leads to (`EventStage`).
**Contribution** is what the service keeps for the gate, as one record,
with its methods as operators from a record to the next: a handler is a composition of methods,
and `about`/`grantee` remember which swarm and worker an answer is about. A report may come of a
worker of any swarm, also of one that is not joined any more: SwarmService shows that the old
worker may still speak.

**RegistryFeed** and **RequestAgentFeed** are the two streams that the backend resumes: numbered
lists, pushed or polled; numbered phases, replayed from the last id or summed up in a snapshot.
What is active after n phases (`ActiveAt`) is computed from the log, not from the tracker.
**ModelRegistration** is the wiring of the swarm that may serve as a model of Theia AI, two awaits
under a generation. **HookInstall** is the merge of Fabi's hooks into files of others: groups of
hooks, and the lines of `config.toml` that its line editor distinguishes. **ModelStorage** is the
list of folders, its file and the pushes that wait for disks.

**RuntimeInstall** downloads (manifest, sums, parts of an archive, each with attempts and an ETag),
joins the parts, unpacks and swaps three managed paths, one rename at a time, with the roll-back;
the process may die anywhere and the server may publish another release meanwhile. The join of the
parts may fail, or never end (`stuck`). A directory is a function from the managed paths to the
release each file comes from. **Startup** puts it behind the two gates of the application and inside
the IDE. **ActiveRuntime** is the promise: the files are replaced as a whole, and only a mishap
loses some. The refinement mapping, `Committed`, counts the installation as what was set aside and
what was not touched yet, until the swap is validated: all the renames are stutters, and the
commitment is one `Replace`.

**MaestroHooks** and **Maestro** are the board. The bridge has a record for each CLI session, with
the client whose socket it holds; the scan copies it when it ends. Maestro adds the sessions of
the chat engine, told by events that are not replayed and by a list, the model of each, the answers
under way, the reports of the widgets that are open, and `shown` and `shownModel`, what was last
pushed. `hushed` are the sessions whose model was learned of without a push. A behaviour has agents
of one of the two kinds (`present`): they share nothing but the push.

**Spaces** is SpaceManager over SpaceStore. The store is a record: the Spaces in the order of the
rail, the order by lastActive, the active one and a name that stands for all that the user may
edit. Messages of the rail name any Space that ever was, since they may be late. The end of the
program loses everything but `file`; the next launch starts from it. An id is never given out
twice (newId() counts, from the time of the launch).

**MaestroStage** is the widget beside the board: which agent is selected, whose conversation is
read or shown, whose terminal is attached. **AccountToken** is a call of getAccountToken() in each
of several processes, one access to the file at a time: an exclusive creation and the write after
it are two. **WorkerBootstrap** is the other way to share a file, a download checked by its digest
and renamed into place.

**MCSeparate** checks the nine parts that share nothing with the others in one run: each behaviour
is that of one part (`part`), which has the states of the nine runs, not of their product.

**ModelStorage** awaits the disks twice in one call, to answer it and to push the list; both
may fail when the disk of Fabi's own folder cannot be measured. **RequestAgentFeed** has a state
between the refusal of an event, which destroys the connection, and its close: what came in the
same chunk is applied all the same.

Operators whose comment begins with "Fault:" are not part of a specification. Each is the
operator that follows it with a slip that could be made in the code: a cleared timer that is
not re-armed, a test of an epoch that is dropped, an array that is filtered one time too many.
Replacing an operator by its fault makes TLC find the property the fault is about violated; that
is how we know that the property says something about the code.

## 3. What is checked

| run | instance | what it shows |
|---|---|---|
| `turns_pair` | two prompts, one session; one of abort, refused request, new configuration | NoCallLeftBehind, no call loses both its waiter and its outcome; HeldIsUnsettled, none is settled twice; PublishedIsTrue, the activity shown is that of the waiters |
| `turns_fair` | one prompt, two of abort, crash, configuration, cut, refused request, close; events and answers in any order | NoPrematureIdle, complete is said only of what the engine has ended, unless a status that was answered before the turn began said it; PromptReturns, every call returns, unless a reconciliation it depends on was rejected and nothing repeats it |
| `sidecar` | two calls, three launches, one change of configuration, one crash, orphans that survive | OneSidecar, of the processes of this backend; ServedIsCurrent, a call is let through to the server launched last; CallEnds |
| `interactions` | two chats, a sub-task, one permission or question, two prompts, two mishaps | PendingIsOffered, a request that waits was told to this renderer or is on its way; AllowedIsChosen, only a chat in automatic mode is answered automatically, or one whose next prompt has not set its policy, being under way or failed |
| `swarm_overlap` | two swarms, three gestures in any overlap, two failures, one storage change | ReadyIsCurrent, "ready" is said by the current Request Agent |
| `swarm_orderly` | the same and a file that cannot be written; a user who waits for his own calls and for none of the service's | OneOfEach, but for what two crossings displace; MembershipIsTrue, nothing else is left after a disconnection and what is persisted was joined; SwitchEnds and StorageApplied, nothing stays pending |
| `contribution` | two swarms, five entries, epochs to 4, one caller | GrantIsCurrent, no late answer opens the prompt; ShownIsKept; GateIsWatched and Unlocks, nobody has to unlock it by hand |
| `startup` | three releases, two qualified, two with a sound archive; two attempts, two parts of two chunks, two mishaps, two starts, each of a packaged build or of a developer's | OneEngine; OpensQualified, no IDE on an engine that is not the qualified one; ReplacesWhole, the refinement of ActiveRuntime; InstallEnds, unless the join of the parts hangs |
| `maestro` | one session of either kind, two requests, four events | AskIsReachable, a client that waits is the one that is answered; OfferIsPending, what is offered waits in the engine; BoardIsCurrent, but for a model learned since the last snapshot; ClosedGo, the agents of a frontend that is gone leave the board |
| `spaces` | four ids, two live views, four messages, one creation at a time, one crash or failed write | SpacesAreSound (Maestro leads, views are of Spaces, the bound of live ones), ActiveIsShown, RailIsCurrent, SaveIsPending, MaestroStaysWarm, SpacesAreKept, Saved |
| `separate` | four lists and two cuts; five phases of two requests; two answers of three chunks; three pushes against five calls; two instances and a user on one file; three calls of two windows; two conversations, two terminals and five clicks or snapshots; two processes, two starts each | FeedsAreCurrent; ScreensAreTrue, the answer of the chat and the stage of Maestro; ModelIsCurrent; HooksAreMerged; FilesAreSound, the storage list, the account token and the trusted root |

The type invariants of CodeTurns and Contribution are theorems; the others are conjuncts of a
property of their run.

One run shows a disagreement between the code and what the repository says of it; the quotation
is with the finding.

| run | property | what happens |
|---|---|---|
| `turns_gap` | NoIdleBeforeSubmitted | a prompt that replaces another in its session is settled by what is left of the first, before it is submitted |

**Bounds.** Every counter that the code lets grow is bounded by a constant with a name (MaxReads,
MaxTrouble, MaxStream, MaxGestures, MaxChanges, MaxEpoch, MaxCreations, MaxHandles, MaxAsked,
MaxMishaps, Attempts, MaxPushes, MaxCalls, MaxShows, MaxOpens, MaxLives, the ids of Spaces). Two
prompts are what it takes to replace a waiter; two swarms, to switch and be answered about the
other; three gestures, to switch, leave and close; two failures, for one to strike while another is
recovered from; two live views, for a third to suspend the oldest; epochs to 4, for an answer to be
two swarms late; three launches, for two calls to relaunch each what the other did; two requests of
one session, for the answer to one to meet the other; three releases, for one to be published during
the download of another and one whose archive is not sound; two mishaps, for an installation to
start on what a crash left and fail in its turn; two instances, for one to remove the hook of the
other; three chunks, for a photograph to overlap a delta. Some bounds also leave behaviours out: one
directory in Interactions, a chat that is not invoked again before its last prompt reached the
backend, and a turn of PartStream that is asked for once the last one has gone silent. What the
theorems cover holds beyond these bounds. Symmetry is used where no liveness is checked and the sets
are of model values.

**Deadlock** is not checked: the instances end, when the calls have returned, the IDE is closed
or the bounds are used up.

**Fairness.** Weak fairness only, of what the event loop, the timers and the processes owe: a
promise that is resolved is continued, an answer is received or the request ends otherwise (a fetch
has a signal, or its process closes the socket when it dies; those of the installer,
`node/fabi-runtime-install.ts:539` and 628, have neither and end by the timeouts that undici puts on
the headers and on the body), a timer fires, a process that was killed closes (SIGKILL follows
SIGTERM), the sidecar is restarted, a generation ends. A request that is answered with an error is
not asked again where the code does not. The user, the registry, the worker and the scheduler owe
nothing, and no failure has to happen. In Spaces the one obligation is the save timer: it is
re-armed by each change, so Saved is about changes that pause, which the bound on messages provides.
In Startup it is the next step of an installation; in Maestro the timers of the push, of the ageing
of a report and of the scan. The sidecar need not ever listen: whenReady() has a timeout of its own.

## 4. What is proved

For every value of the constants allowed by the ASSUMEs, TLAPS checks:

- **CodeTurnsProofs**: TypeOK, NoCallLeftBehind, HeldIsUnsettled and PublishedIsTrue are
  invariants of Spec. The inductive invariant adds FreshIsUnsettled, that a
  call that has no waiter yet has no outcome: without it nothing says that the waiter that
  prompt() creates is unsettled. Each action is reduced to what it does to the turns (TurnsStep):
  nothing, ending a set of them, or a phase; NoCallLeftBehind and the others are shown of these
  three once, and Prompt, the only step that creates a waiter, by itself. NoPrematureIdle is proved
  where each session has one prompt, as in the run that checks it, for any order in which the
  stream and the answers reach the service. Its invariant, EndsArePast, says that whatever tells of
  an end is past: a run that is reported idle is over (EventsArePast), and so is one that is
  answered absent, unless the absence is an early one, or completed (AnswersArePast).
- **SwarmServiceProofs**: ReadyIsCurrent in general. The invariant adds that the agents and the two
  variables that name one are in their domains, and FailingIsShown: an agent that published an
  invalid readiness is not shown ready. Lemmas say what a step that reports, launches, stops or
  ignores an agent does; the actions only say which of them they are. Where the user waits for his
  own calls, OneOfEach and RestIsTrue, the part of MembershipIsTrue that is no type: four
  invariants, one on the other. CallsInv says which calls of the user may be under way together;
  AgentsInv, which agents run and who will launch the next; WorkersInv, that a supervised worker
  that nothing crossed is the one of the handle, or of a call that waits for it; PersistInv, what
  the file has at each await. The calls of the service itself interleave with all of these.
- **GatesProofs**, of the contribution: TypeOK, GrantIsCurrent, ShownIsKept and GateIsWatched. The
  invariant, Settled, adds the fence: a check whose epoch is the current one is about the current
  swarm and worker, and the epochs of checks are not in the future. As a handler is a composition,
  the lemmas are about the methods (what Recompute does to any gate that is typed and fenced), not
  about actions. ReadyMeans and OpenMeans say, of every entry and worker, what has to be true for
  the prompt to be open.
- **GatesProofs**, of the start: OneEngine, ReplacesWhole (the refinement of ActiveRuntime) and
  OpensQualified: all that the run `startup` checks but its liveness, for any releases and any
  number of mishaps. OneRelease is not inductive: the invariant, SwapInv, says at each rename what
  is where. The backup is of one release, and so is the root until something new is in it
  (OldIsOne); what was activated and what still is in the stage are of one (NewIsOne); nothing
  new comes before all of the old is aside (OldBeforeNew). Each rename then keeps SwapInv and
  leaves `Committed` as it was, and the three ends of a swap are those of ActiveRuntime. Most of
  the steps rename nothing (Still) and are handled together. OpensQualified adds that, before any
  mishap, what counts as installed is a whole release or nothing.
- **SpacesProofs**: ActiveIsShown, SaveIsPending and MaestroStaysWarm, from their own conjunction:
  open() makes it true whatever it was, and the other steps change either what is shown or the
  store's other fields. SpacesAreSound, RailIsCurrent and SpacesAreKept, from SInv: the store, and
  its file if there is one, list each Space once (Coherent), Maestro leads, each view is of a Space
  that is listed and the live ones are finitely many, within the limit (Views); the ids that were
  given out cover the Spaces of the store, so that a new one is in no list (UsedCovers). They rest
  on what filter() leaves of a list, FilterFacts, which is shown of each beginning of the list: the
  first length at which it failed would follow one at which it holds.
- **SidecarProofs**: OneSidecar and ServedIsCurrent, for any number of calls, launches, changes and
  deaths. Both are about a backend whose calls do not overlap in there (`~disturbed`), and so is
  the invariant, Alone: one call at most is within (OneWithin); a process that was signalled is
  still that of the service, and the call that signalled it waits for it (DyingIsAwaited), which
  is why the next launch finds nothing of this backend alive; between the stop and the launch the
  service has a stopped server, then none (StopIsOfServer); what runs or will be restarted is the
  server (OnlyServerRuns); a URL is that of the server (UrlIsOfServer). Nothing is said of orphans.
- **MaestroProofs**: AskIsReachable, OfferIsPending and BoardIsCurrent. OfferIsPending needs
  AskedWaits: a request whose event is on its way to the supervision still waits in the engine. The
  second half of BoardIsCurrent is not inductive, since an agent may leave the board and come back
  without a push: ShownAsKnown says that, when no push is due, what is shown of each agent is what
  is known of it or nothing, whether it is on the board or not, with its model unless it is
  `hushed`. The invariant falls apart into the bridge, the engine and what is shown, and each action
  is shown to keep the three.
- **InteractionsProofs**: AllowedIsChosen. The invariant is PolicyIsChosen: a chat whose policy is
  automatic was invoked in that mode last, or its next prompt is on its way to the backend, or
  failed there before the policy was set. The action property then follows of the one step that
  decides. PendingIsOffered, from PendingIsSaid: what waits in the engine was said to this renderer,
  or is on its way there in an event, a task of the backend or a list. A request that was published
  is not published again, and so was said or is being (PublishedIsSaid); for one that was not there
  is a list left to read, since each connection and each renderer asks for one.
- **SeparateProofs**: FeedsAreCurrent, ScreensAreTrue, ModelIsCurrent and FilesAreSound, for all
  sets and bounds. Each part has an inductive invariant of its own; the others stand still, but
  for `cuts`, which the three streams share and each only bounds.
  - RegistryInv: the queue of a stream that was not cut ends with what is pushed now, so that
    whoever has received all of it has the list of now.
  - AgentInv: the events under way are numbered after the last one that was received, and each says
    what the log makes of the phases up to it. ActiveAt is a recursive function of the log; it is
    known to exist and to depend on the phases up to its argument only (ReplayFacts, ReplayAgrees).
  - PartsInv: the events of the turns are under way in the order in which OpenCode speaks
    (TurnsInOrder, WireInOrder, LateText), the text of a part is what was displayed last
    (SuffixIsKept), and of a turn that no cut met and nothing ended early what is displayed and
    what is under way make up the whole text (NothingLost).
  - RegistrationInv: the wirings of a generation are one, only that of now is about the swarm of
    now (WiresAreFenced), and whatever is wrong with the model a call that will see to it is under
    way (ModelFollows).
  - StageInv: while no two terminals were awaited at once, the one that is awaited is of the
    selected agent and no other is attached (OneAwaited).
  - StorageInv: a window publishes once at a time (BegunOnce), and the last publication has what
    is kept or was overtaken by another (LastIsStored). What is written is read again as it was,
    since readExtraRoots() leaves a list alone that has each location once (CollectAll), and loses
    the one that is removed (CollectOne): that is why a call changes one location.
  - TokenInv: one process at most writes the file, which is empty meanwhile, and one that is busy
    has no token yet. Where the file changes, nobody holds a token of it.
  - TrustInv: only where a file must be removed first does one go before its replacement.

The assumptions are those of the modules (NoPrompt is not a prompt, an entry is an entry, a report
is what a worker says, a sub-task is not a chat, a session of the engine is not one of a CLI, the
absence of a wiring is not a wiring, a folder is neither that of Fabi nor what is no folder, the
bounds are numbers, some at least one) and the modelling assumptions of section 2. Some theorems
have a hypothesis of their own, which the run that checks the property gives to the same constants:
`Overlap = FALSE` of NoOther, NothingIsLeft and RestHolds, since the properties do not hold of a
user who acts during his own calls (section 5), and one prompt of each session of LearnedIsPast and
CompleteIsComplete, since a second one is settled by what is left of the first (`turns_gap`).

**Only model-checked**: the liveness properties (PromptReturns, SwitchEnds, StorageApplied,
Unlocks, Saved, InstallEnds, CallEnds, ClosedGo), which are beyond this prover; and
HooksAreMerged, which is about texts: it rests on selections and searches with a predicate and on
the flattening of lists of lists, of which the provers know nothing, and waits for the functions
that would replace them.

## 5. What is not modelled, and what was seen

Not modelled because there is little to check: metrics, the validation of a worker profile, the
limits of a worker by its hardware, the OpenCode configuration, rendering and branding.

Of the modelled components: the loading of pages, the calls of Maestro that wait for it, the
stacking order and the sizes in Spaces (two dialogs of creation at once are seen in the code to lose
the order, `spaces/space-manager.ts:402`, and a call that waits for a view that is closed to be
never answered, line 630); the parsing of processes and transcripts by the scan; titles, previews
and wording; the status of the engine on the board, and events of the Request Agent that are
malformed. The handoff notes claim a bounded turn of ten minutes
(`docs/HANDOFF-SWARM-2026-07-17.md:1435`), and no such timeout is in the source, so CodeTurns has
none. The button that skips the launcher, in development only, is left out of Startup.

The properties say what holds. What follows was met while modelling and does not; a property
that forbade it would be refuted, and each of these is set apart, by name, in the property it
touches or is outside of its run.

*Turns.* The event stream follows the directory of the last prompt (`node/fabi-code-service.ts:668`,
against 380-383): with two workspaces the end of a turn of the other is never received. An abort
that comes while a call waits for the sidecar finds no controller (line 736), and the prompt is
submitted afterwards, although `browser/fabi-code-agent.ts:356-358` counts on it. The status is
asked for over another connection than the stream: an absence that was answered before the turn
began, and is handled once its busy was received, settles the turn that runs (783-790). A
reconciliation that is refused or fails is logged and not repeated (384-389), although the comment
before it (380-383) says that a cut loses no end of a turn: where the idle was lost in the cut,
`prompt()` waits until the sidecar ends or the user aborts.

*Permissions.* A list that fails is not asked again before the next connection; a request whose
root cannot be resolved is offered to no chat; a list that was overtaken publishes a request that
has been answered, and a card stays. Cards are shown by an invocation that runs, so what a
sub-task asks after the idle of its chat waits for the next prompt. A prompt that fails in
ensureCurrentServer() (line 695) has not set its policy: after an automatic turn, a request of a
sub-task is still answered automatically, although 578-582 speak of a return to Ask edits at once.

*Text.* A status that overtakes the last deltas ends a turn before its text is whole, without any
cut (725, 823). After a cut a part may be rendered twice; a turn that the reconciliation ends may
lack what was said during the cut; without the event that names it, the question is rendered as an
answer; the late parts of an aborted turn are rendered in the next one.

*Swarm.* A generation that begins while the storage restart prepares the worker is cut by it
(`node/fabi-swarm-service.ts:216`, against 185-188). A second stop() of a worker does not wait for
the first, so onStop() may return while it still ends (878, against 864-866). A route that is busy
for a moment ends the revalidation of an admission (375, against
`docs/HANDOFF-SWARM-2026-07-17.md:1420`). A storage restart that resumes after a switch or a
disconnection leaves a worker that no handle names (`common/fabi-swarm-protocol.ts:333` says that
leaving stops it). connectSwarm() of the swarm that is joined, during the await of
restartRequestAgent() (617), launches an agent (737) and the restart another one (621). A restart
that fails late is not fenced by the generation: its error is shown after a disconnection (622-630).
Each of the three takes one gesture, and `crossed` sets them apart in the run; with `Overlap` TRUE,
where the user joins and leaves during his own calls, there are others, and the invariants of
`swarm_orderly` do not hold. A swarm that could not be written, or removed from its file (675-685),
is forgotten, or joined again, at the next start. The browser preview shows a swarm as joined and
writes none.

*Feeds.* A poll that was answered before the last event and arrives after it is emitted and stays
(`node/fabi-registry.ts:94`); the first connection of that stream has no timeout.

*Model.* Two overtaken registrations that return in turn, each while the other registers, start
each other again without end: the model is right, the agents are never assigned. The snapshot of
the start may overwrite a push that came before it. A token that cannot be read is not asked
again before the next push.

*Start.* When the window of a mandatory update cannot be built the start goes on
(`electron-main/fabi-mandatory-app-updater.ts:67`), although `common/fabi-update-gate.ts:4-6` says
that an update that was found leaves no way to continue. After an activation that was cut short the
gate may find the worker without the engine of the chat. A part that is complete is asked for again
and answered 416, which is not retried. While the parts are joined nothing listens to the errors of
the file they are written to (`node/fabi-runtime-install.ts:719-729`): on a full disk
installRuntime() never returns, and the start waits for it. What is removed once the new files are
in place may fail, and an installation that succeeded is reported as an error. The sums guard
against a mixture of two representations of one part; as an archive is either sound or not in the
model, a download that skipped them is told by the archive and by nothing else.

*Sidecar.* Two calls that find the server outdated stop what the other launched, and one process is
left without a handle until the backend ends. After a backend that died two sidecars may run: the
orphan is not looked for on Windows (`node/fabi-code-server.ts:214`) nor where `ps` fails, and may
ignore its SIGTERM.

*Maestro.* A permission asked while the answer to the previous one is awaited is cleared by that
answer (`node/fabi-maestro-service.ts:186`), and of two that wait in one session one is shown. The
stream is never opened when the engine is not up within thirty seconds; a cut leaves what was
generating. A hook client that left keeps its socket, and the board goes on offering an answer. A
second backend takes the socket of the first. An event that tells the model of a session is pushed
with the next change only (`node/fabi-maestro-service.ts:464-466`). On the stage, two terminals that
were awaited at once are both attached and the last to come is held, whichever agent is selected
(`browser/maestro/maestro-widget.tsx:149-158`), although the comment of the class promises the
surface of the selected one; an agent that moves to another terminal under the same key keeps the
first (138), and one whose terminal has ended is given no other. The hooks are installed at each
start (217-233), although `common/fabi-maestro-protocol.ts` speaks of an explicit action of the
user.

*Token.* A process that loses the creation reads the file again, perhaps before it is written, and
then has an identity of its own (`node/fabi-account-token.ts:66-77`); one that ends between the
creation and the write leaves an empty file, on which every later call throws (48). An inherited
FABI_ACCOUNT_TOKEN comes before the file (33), although `node/fabi-worker-tuning.ts` says, where it
builds the environment of the worker, that the file is the one source; both sides still agree,
since both ask here. On Windows a root that is replaced is missing for a moment.

*Files of others.* What a user writes between the read and the rename of an installation of hooks
is lost, a file whose read fails counts as absent and is overwritten, and a `[features]` header
with a comment is not recognised and written a second time. Where a rename does not replace
(Windows), a write of the storage list that fails empties it; a slow push may show an older list.
A change of the list after which the disks cannot be measured is kept, fails, and is pushed to
nobody (`node/fabi-swarm-service.ts:159`, 164, 180).

## 6. Plan

1. Proofs: HooksAreMerged, the last safety property without one.
2. Sidecar as an implementation of the server of CodeTurns, by refinement; an abstract turn
   (requested, ended once, reported) that CodeTurns implements; a membership that is a swarm or
   none, that SwarmService implements in order.
3. The loading of the pages in Spaces and the calls of Maestro that wait for it; two directories
   in Interactions; two sessions of one engine in Maestro.
4. Compositions: the feeds with the gate and the storage restart that they drive.
