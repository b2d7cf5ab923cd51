# WebDriverAgent in TLA+

A verification development for WebDriverAgent (`src/`): the WebDriver server that
runs inside an XCTest bundle on an iOS or tvOS device (`WebDriverAgentLib`,
Objective-C) and the node package that builds and launches it (`lib/`,
JavaScript). The modules here are translated from that code; TLC checks them on
small instances and TLAPS proves the theorems listed below for all instances.

## 1. The system

### Components on the device

| component | source | state it keeps | operations |
|---|---|---|---|
| Element cache | `Routing/FBElementCache.m`, `Utilities/LRUCache/` | dictionary, doubly linked list, capacity | store, look up (with or without a staleness check), test, evict |
| Session | `Routing/FBSession.m`, `Commands/FBSessionCommands.m` | the one active session, its tested application and element cache, whether each application is expected to run | create, delete, launch, activate, terminate, settings, active application |
| Alert monitor | `Utilities/FBAlertsMonitor.m` | `isMonitoring`, delegate, the ticks waiting on the main queue | enable, disable, tick |
| Screen recording | `Commands/FBVideoCommands.m`, `Routing/FBScreenRecordingContainer.m` | the recording promise known to the server; the recordings the daemon runs | start, stop, get |
| MJPEG broadcaster | `Utilities/FBMjpegServer.m`, `Routing/FBTCPSocket.m`, `Utilities/FBImageProcessor.m` | connected and listening clients, the pending frame, the tick timer | connect, first request, tick, scale, send, disconnect, stop |
| Web server | `Routing/FBWebServer.m`, `Vendor/RoutingHTTPServer`, `Vendor/CocoaHTTPServer` | bound port, connections, `keepAlive` | start over a port range, route, shut down |
| Daemon calls | `Utilities/FBXCTestDaemonsProxy.m`, `FBScreenshot.m`, `FBRunLoopSpinner.m` | replies under way, semaphores and flags on the caller's stack | asynchronous call with or without a timeout |
| Quiescence settings | `XCUIApplicationProcess+FBQuiescence.m`, `FBSessionCommands.m` | process-wide timeouts swapped for the length of a call | swap, call, restore |
| W3C actions | `Utilities/FBW3CActionsSynthesizer.m`, `FBBaseActionsSynthesizer.m` | none (an algorithm) | items to touch and key events |
| TV focus tracker | `Utilities/FBTVNavigationTracker.m` | items met and their visited directions | next direction |
| Locators | `FBClassChainQueryParser.m`, `FBXPath.m` | none (an algorithm) | parse, match |
| Element operations | `Categories/XCUIElement+*.m`, `Commands/FBElementCommands.m` | none of their own | tap, type, scroll, rotate ... through XCTest |

### Components on the host

| component | source | state it keeps | operations |
|---|---|---|---|
| WebDriverAgent | `lib/webdriveragent.js` | `started`, `url`, the cached bundle | launch, quit, status, caching, cleanup |
| XcodeBuild | `lib/xcodebuild.js` | the child process, `_didProcessExit`, `derivedDataPath` | prebuild, start, wait for start, quit |
| Project file | `lib/utils.js` | `project.pbxproj` and its `.old` backup on disk | update, reset |
| Process clean-up | `lib/utils.js`, `lib/webdriveragent.js` | none; each call works with the identifiers it has found | kill by pattern, quit of the own process, clean-up of the port |

### How they interact

A client of the node package calls `launch`; `XcodeBuild.init` rewrites the
project file if a bundle identifier is given, `prebuild`/`start` spawn
`xcodebuild`, and `waitForStart` asks `GET /status` until the server on the
device answers. From then on the client talks HTTP to the web server, whose
routes call the command classes, and those the session. The session owns an
element cache and at most one alert monitor, keeps the tested application, and
on its end stops the recording the container knows. The MJPEG broadcaster is a
second TCP server of the same process and shares only settings with the rest.
Everything that touches an application goes through XCTest to the test manager
daemon.

### What is hard

- **The device has one main queue and several others.** HTTP handlers and ticks
  of the alert monitor are blocks of the main queue: a block is atomic towards
  the others, but a block queued earlier runs after whatever came between and
  acts on what was decided before. The broadcaster is the part that is truly
  concurrent: the socket queue, the background queue, the scaling queue and the
  main queue share lists of clients, under a lock that is given up between a
  check and the action that follows it.
- **References end.** The delegate of a monitor is weak; it becomes nil when the
  session is released, which is when the handler that replaced it returns.
- **Awaits on the host.** Between two awaits JavaScript is atomic; between any
  two of them `quit`, the exit event of a process, or the loop of an earlier
  launch may run, on the same fields of the same object.
- **The world changes by itself.** Applications crash or are sent to the
  background, alerts appear and disappear, `xcodebuild` ends at any time in any
  way, clients disconnect.
- **Processes end and start while they are killed.** What is to be killed is looked
  up, signalled, waited for and looked up again; the patterns of one clean-up
  match the same processes, and `quit` escalates on one of them by itself.
- **Crashes of the host process** leave the project file and its backup as they
  are.
- **One queue for all connections.** A request runs on the main thread while the
  queue of all connections waits for it. What it waits for is a daemon that
  replies on a thread of its own, in time, late or never, and until then the
  process-wide timeouts are not the usual ones.
- **The screen does not wait.** One request takes several snapshots of the same
  element, and they need not show the same one.
- **Partial failure.** `POST /session` kills the active session before it has read
  the request; `handleSetSettings` applies settings until one does not parse; the
  update of the project file consists of calls each of which may fail.

### What makes each component correct

| component | properties |
|---|---|
| LRU cache | the list and the dictionary agree and keep the order of use; never more than `Capacity` entries; behaves as the abstract cache |
| Session, applications | a reported crash is one; the end of a session, by any request, leaves nothing of it behind |
| Alert monitor | exactly the monitor of the active session runs, with one block on the queue; a standing alert is answered, or the tick throws and the next comes |
| Screen recording | a running recording is the one the container knows |
| MJPEG broadcaster | header first, then frames in order, none twice; no dead client in a list; the newest frame arrives |
| xcodebuild life cycle | a launch resolves only on an answer; one process at a time; a reported exit reaches its launch; a launch settles, but for two named waits |
| Project file | the original is lost in two named ways only; until then a reset restores it and a build uses its own identifier |
| Process clean-up | nothing that was to end is left; harsher signals come later; only what is meant is signalled; a quit that resolves has ended its process |
| W3C actions | the paths sent to XCTest are the contacts and keys of the request, at their times |
| Element cache | an identifier stays valid while it is recent; what is answered is stored, whatever the screen does in between |
| Web server | every request is answered; nothing is created after a shutdown |
| Daemon calls, quiescence | a late reply after a timeout grants nothing; a call ends with a result or an error; timeouts are put back on every path |

## 2. The modules

Each component has a module with its state and actions, a module of properties,
an `MC_` module with the constants of its runs, and where something is proved a
module of proofs. Operators named in a comment as a *faulty variant* are not part
of the model: each is a plausible mistake in the definition after it, kept to show
that a property notices it.

### The LRU cache: `LRUSpec`, `LRUCache`, `LRUCacheHistory`

`LRUSpec` is what an LRU cache promises. `LRUCache` is the pointer structure of
`LRUCache.m`: one record for the cache object (`store`, `head`, `tail` and the
fields of every node), one operator per method (`RemoveNode`, `AddNodeToHead`,
`MoveNodeToHead`, `AlignSize`, `SetObject`, ...), each a function from one cache
state to the next, so that a method is the composition of the methods it calls.
`LRUCacheHistory` adds the history variable `older` (for each stored key the keys
used before it), which the cache never reads, and the refinement mapping to
`LRUSpec`. Nodes are memory: a node nothing live refers to can be allocated
again. The element cache calls it from the main queue only, so each call is one
action.

### The element cache: `ElementCache`, `ElementCacheProperties`

| code | model |
|---|---|
| `elementCache` of the session | `entries`, `older`, `call` of an instance of `LRUSpec`, which `LRUCache` has been shown to implement |
| an `XCUIElement` | a record: what its query is bound to (a place of the screen, or the identifier of one element when `fb_isResolvedNatively` is off), the `cacheId` it carries, the element of its last snapshot |
| the application under test | `screen`: the element at each place, which changes at any step |
| the request on the main queue | `request`: the elements still to answer, the one in work and the step |
| the response | `given`: the identifiers answered, those of new instances among them, and how many were stored |

`Find` and the sub-element case of `LookUp` choose any result of a search; from
there each action is the code between two snapshots: `Stabilise` and `Bind` are
`maybeStable`, `StoreElement` is `fb_cacheId` and `setObject:forKey:`, `Respond`
is `FBDictionaryResponseWithElement`. `LookUpToCheck` and `CheckStaleness` are
`elementForUUID:checkStaleness:YES`; only `FBStaleElementException` removes the
entry, any other one leaves it. The history variable `since` holds, for each
identifier, the ones used after it.

### The session: `Session`, `SessionProperties`

| code | model |
|---|---|
| `_activeSession`, its ivars | `session`, a record or `NIL`; `id` stands for the UUID, the number of the session |
| `FBConfiguration` statics | `config`: whether an alert selector is set, `shouldTerminateApp`, `shouldRespectSystemAlerts` |
| `FBAlertsMonitor` objects | `monitors[m]`: `isMonitoring`, the weak delegate (0 is nil), and the block it has on the main queue: that of `dispatch_after`, `"schedule"`, or the tick |
| `FBScreenRecordingContainer` | `promise`; `recordings` is what the daemon does |
| XCTest's view of applications | `apps`; the stages `"terminated"` (on request) and `"dead"` (by itself) are one to the code (`XCUIApplicationStateNotRunning`) and two to the properties |
| alerts on the screen | `alert`: none, one of an application, one of the system |
| the response, or what a block did | `response` |

Every handler is one action and includes what it calls: `CreateSession` kills the
active session (`KilledMonitors`, `KilledApps`, `Kill`), resets and applies the
settings, opens the application, and only then makes the new session. The order
matters and is kept: the application of the old session is terminated according
to the settings before the reset. `CreateSessionBadly` is the request without
valid capabilities, which has killed the old session all the same. `Released`
is the end of the last strong reference to the session.

Applications, `Launch`, `Activate`, `Terminate` and `OpenURL`, are XCTest's and
modelled by their possible outcomes: success, an exception, and success followed
by the death of the process. A failed launch leaves the application stopped; that
the daemon may still answer it later is in `WebServer`.

`MonitorTick` is the block of `FBAlertsMonitor.m:50-72`. The look-up of the alert, and the delegate it
is told to, may throw; the `@catch` logs it (`response` is then `"threw"`), and the next tick is
scheduled all the same. What the delegate catches itself, and taps that fail, leave the alert standing.

### The web server and the daemon: `WebServer`, `WebServerProperties`

| code | model |
|---|---|
| `startServing`, `keepAlive`, `isRunning` | `phase`, `keepAlive`, `listening`, `port`, `busy` |
| the `connectionQueue` all connections share | `connectionQueue`: a block per request read and one per connection to stop |
| `dispatch_sync` to the main queue | `main`, the one route in work; its block stays at the head of the queue until it is answered |
| `_XCTApplicationStateTimeout()`, `defaultTimeout`, `previousTimeout` | `stateTimeout`, `outer`, `inner` |
| the `__block` variables and the semaphore of one call | a member of `boxes`; `pending` are the calls the daemon has not answered |
| the active session | `session`, the number of the request that has created it |

Routes are of six kinds, by what they wait for: none (`status`), a screenshot, a
wait for idle (`tap`), launching an application, opening a URL, and shutdown.
`SwapTimeout` and `RestoreTimeout` are the `@try` and `@finally` of
`handleCreateSession` and `openDeepLink`, `StartIdle` and `EndIdle` those of the
swizzled wait for quiescence, which a launch nests inside. `TimeOut`,
`CheckInnerError` and `CollectScreenshot` are the three looks of `FBScreenshot` at
what the reply block writes; a `Reply` may come between any two. A request of a
client that has hung up still runs: nothing takes its block from the queue.

### The broadcaster: `MjpegServer`, `MjpegServerProperties`

`callbacks` is the socket queue, `stream` the background queue, `scalings` and
`scaled` the scaling queue. `didClientSendData` is two actions, since it writes
the header between two sections under the lock (`DidClientSendData`,
`AddListeningClient`); taking a frame and sending it are two actions
(`TakeNextImage`, `SendScreenshot`). `nextImage` is the one frame that may wait,
`written[c]` what was written to a client: 0 for the header, then frames. What
GCDAsyncSocket does is modelled from its use: for each socket it reports
acceptance, data that was asked for and the end, in that order, on the socket
queue.

### The launch: `XcodeBuild`, `XcodeBuildProperties`

One action per stretch of code between two awaits. Each launch `l` has its place
in the code (`step`), the promise of `start` (`outcome`), `currentStatus` and the
attempts of its loop; a launch with `prebuildWDA` has two processes, `<<l,
"build">>` and `<<l, "test">>`. `current` is `this.xcodebuild`, which the exit handler
uses. The end of a process (`End`, or a kill) and its exit event (`ExitEvent`) are
two steps, any time apart: nothing waits for the exit of what was killed, so the event may come when the
next process is `current`, and then removes that one's listeners (`RemoveListeners`; the
history variable `deafened` holds the processes this has happened to).
`start(true)` of the process returns on its first output: a test is in the step `"starting"` until then
(`FirstOutput`), and nothing makes it print. For a separate build nothing follows that await, so it waits for
the exit alone (`"building"`). `didProcessExit` and `shortCircuit` are the two fields
`this.didProcessExit` and `this._didProcessExit`. `Foreign` allows another server
to answer at the same address.

### The project file: `ProjectFile`, `ProjectFileProperties`

`project` and `old` are the contents of `project.pbxproj` and of its backup; a
content is the original, one with the identifier of a session, or `"damaged"`, half
of a file. Every file system call is a step; copying and writing are two with a
damaged file in between. A crash may come before any step, also between the two of a copy or of a write,
and any call may fail: one of the update ends it (`UpdateFails`; a copy that fails half-way may leave what it
has written), one of the reset is logged and the code goes on as if it had moved the
backup (`MoveOld`; the history variable `warned` holds the sessions whose last reset did so). A session may
call `init` again, as a launch after a failed one does. One session at a time works on an
`agentPath`; the code takes no lock, and leaves this to its client. The names differ from those of
`XcodeBuild`, so that one module, `XcodeBuildProofs`, holds the proofs of both parts of the
launch on the host.

### The clean-up: `KillProcesses`, `KillProcessesProperties`

| code | model |
|---|---|
| processes of the host | `process`: not started, running or ended, each once; `sent`: the signals it got |
| one `killAppUsingPattern` | `worker[w]`, `round[w]` (its place in `signals`), `matched[w]` (`matchedPids`) |
| `killProcess` and the `SubProcess` | `quit`, `exitHeard`: a `SubProcess` takes its process to run until the exit event |
| `cleanupObsoleteProcesses` | `cleaner`, `listed` |

Every step between two awaits is an action, so that a process may end or start, and
another clean-up signal it, between `pgrep`, `kill` and each look of the wait. A process may
ignore any signal but SIGKILL. `TryNextSignal` is the time-out of the wait. One
that may not be signalled (`OtherUsers`) looks dead to `kill -0`.

### The actions: `W3CActions`, `W3CActionsProperties`

The methods of `FBW3CActionsSynthesizer` as operators: `Preprocess` goes backwards
through the items with its flag, `AddGestureItem` and `AddKeyItem` build the chain with
positions and offsets, `PointerDown`, `PointerMove`, `PointerUp`, `KeyDown` and `KeyUp` are the
`addToEventPath:` of the classes, which change the last path, add one, or refuse. The
properties compare them with definitions made independently and going forward: which
items count (`Counted`), the contacts of a finger (`Contacts`), keys that are held and released
(`Held`, `Released`). The loops of the code and of the definitions are recursive functions on the number of
items read (`Keeping`, `Chaining`, `Pathing`; `Counting`, `Acting`, `Texts`), about which
`W3CActionsProofs` can reason.
`TouchesAreContacts` speaks of sources that move, touch and then lift and touch in turn
(`IsGesture`), up to the lift of each path; a move after a lift is put on the
path that is over, and what XCTest makes of it is not known here.

## 3. The runs

| run | instance | states | what it shows |
|---|---|---|---|
| `lru_cache` | 4 keys, 4 nodes, 2 values, capacity 3, symmetric | 569 | shape of the list, order, capacity, refinement of `LRUSpec` |
| `session_apps` | home screen and two applications, one of which cannot be terminated; 2 sessions, 2 recordings | 364,500 | types, reported crashes, recordings, the end of sessions |
| `session_alerts` | home screen and one application; 2 monitors, 2 sessions | 61,266 | ownership of monitors; a standing alert is answered, or a tick throws and the next comes |
| `element_cache` | 3 elements, 2 places, capacity 2, searches of up to 2, both strategies, symmetric | 643,125 | validity of recent identifiers, storage of what is answered |
| `web_server` | 2 clients, 3 requests, 3 boxes, one port to try, one launch timeout | 434,876 | timeouts put back, own replies, screenshots that end, final shutdown, every request answered |
| `mjpeg` | 2 clients, 3 frames | 28,184 | order of the stream, lists, delivery |
| `xcodebuild` | 2 launches with a separate build, 3 attempts each | 59,543 | launches resolve on an answer, one process at a time, reported exits reach their launches, launches settle but for two named waits |
| `kill_processes` | 3 processes, one pattern for two of them, a quit and a clean-up of the port | 612,720 | nothing is left, escalation, no stranger signalled, quits, the end of a clean-up |
| `w3c_actions` | all sources of up to 6 items of 9 kinds (finger) or 7 (keyboard) | 1,470,256 | contacts, typed keys, times against the reference |
| `project_file` | 3 sessions one after the other, 2 of which update | 11,399 | the two ways to lose the original; until then a reset restores it and a build has its own identifier |
| `element_cache_ids`, `xcodebuild_short_circuit` | as above | | a statement of a comment that the code does not keep (section 6) |

**Why these bounds are enough.** Capacity 3 is the smallest with a node that is
neither head nor tail, which `moveNodeToHead` treats on its own; a fourth key
makes the cache evict, and the node of the evicted key is allocated again. Two sessions show
every replacement of a session by another, and a third adds nothing to what one
leaves to the next; two monitors are the one of the active session and one with a
block still queued (more such blocks may wait in the code; `MonitorsOwned` is
proved for any number). Two recordings suffice to start a
second next to a running first. Three elements on two places are one that has just left the screen and two that
are on it; a cache of two with answers of two is full and evicts. Three requests
of two clients are one running, one waiting behind it and one that comes after a
timeout; with three boxes two late replies may be under way next to a call. Two
clients of the broadcaster have different places in the lists and on the socket queue,
and three frames are one being sent, one waiting and one that replaces it. Two
launches overlap in all ways, since a third is only started when the second has
settled; three attempts have a first, a last and one between. Three sessions on
one project file are two that update and one that finds what they have left. Of the three processes one is
signalled by a clean-up and a quit, one by a clean-up and that of the port, and one must be
spared; several patterns do in each process what the quit does in one, and are
covered by the proof. Six items are two whole contacts behind a move, or two groups of keys with a
pause, with room for a cancel. The proofs of
section 5 do not depend on these bounds.

**Bounds in the guards.** `MaxSessions` (sessions created),
`Monitors` and `Recordings` (what enables a monitor, or starts a recording, needs a
free one), `MaxFound` (elements of one search), `MaxRequests` (requests), `Boxes`
(calls under way and the one awaited), `PortRange`, `MaxFrames`
(screenshots), `MaxItems` (items of a source), `MaxLaunches` (calls of launch), `quitAt` (one quit per launch). Clients connect once, processes start once.
`mjpeg`, `web_server`, `kill_processes` and the runs of `XcodeBuild` turn the check for deadlocks off: when all clients
have come and gone and all frames are taken, no port was free or all requests are
answered, or all launches or clean-ups are over, nothing is left to do.

**Types.** `TypeOK` of `WebServer`, `MjpegServer`, `XcodeBuild` and `KillProcesses` is proved
(`TypeCorrect`) and part of their inductive invariants; their runs do not repeat it.

**What a run does not reach.** `EndsClean` asks for the monitor of a new session too; `session_apps`
enables no monitor, so that clause says nothing in the run and is left to the proof (`SessionsEndClean`).
`kill_processes` has one pattern in its clean-up, next to a quit and the clean-up of the
port; patterns of one clean-up that match the same processes are left to the proofs (`CleanupEndsAll`,
`SignalsEscalate`).

**Properties with exceptions.** Three properties name what the code does not prevent, and hold for everything else.
- `LaunchSettles`: a launch is settled for good, or for ever in one of two waits (`WaitsForEver`): for
  the first output of a test that runs on without any, or was quit, killed or succeeded before it, since `start(true)` has
  no time-out (`xcodebuild.js:408`); or for the exit of a process whose listeners are gone (384).
  A test that fails before its first output is not among them: its exit rejects the launch. `ExitReported`
  says the same of each exit as soon as it is reported.
- `OriginalSurvives`: the original is neither in place nor in the backup only after a reset that moves a backup which
  was cut short (`utils.js:144` after 123), or after an update that copies over the backup a failed reset has left
  (123 after 146-151). `ResetRestores` and `ReadyWithOwnId` hold until then.
- `AlertAnswered`: a tick that throws has not told the session of the alert.

## 4. Fairness

| module | assumed | because |
|---|---|---|
| `Session` | each monitor's block on the main queue runs | GCD runs every block of a queue; handlers and ticks return |
| `MjpegServer` | the socket queue and the scaling queue run their blocks; data on an open connection arrives | serial queues; TCP |
| `XcodeBuild` | each launch goes on, exit events are delivered, a build ends | timers fire, HTTP requests are answered or time out, node delivers `exit`; a build is a finite job. Nothing is assumed of the process that tests, neither that it prints nor that it ends, nor of how long after an end its event comes |
| `WebServer` | the main thread and the queues run; among the steps of the main thread are the timeouts of semaphores and the end of a wait for idle. The daemon owes a reply only to the call that is awaited without a timeout, that of opening a URL | semaphores have timeouts (300 s, 20 s) and the wait for idle has the state timeout. `spinUntilCompletion` has none: that XCTest calls its completion handlers is an assumption the code makes |
| `KillProcesses` | commands return; a wait does not start over for ever (strong fairness of `TryNextSignal`); the stop of a `SubProcess` ends; SIGKILL ends a process | `waitForCondition` and `SubProcess.stop` have time-outs, and time passes whatever processes do; SIGKILL cannot be ignored. Nothing is assumed of other signals |
| `LRUCache`, `ElementCache`, `ProjectFile`, `W3CActions` | nothing | no liveness is stated |

No fairness is assumed of clients, of alerts, of applications or of the
screenshots. `AlertAnswered` is stated for a monitor that stays on, an alert that
stays up and a selector or action that would touch it: then a tick tells the session of the alert
(`"touched"`; a tap may still fail), or throws (`"threw"`). It holds from every state on, so a tick that throws is followed
by another as long as the alert stands. That look-ups ever stop throwing is not assumed.

## 5. What is proved

TLAPS checks every proof to its last leaf. The only facts taken without
proof are the assumptions on constants, which TLC evaluates in the runs, and those a
theorem names itself: that the nodes of a cache are finitely many, that
`NIL` and `Refused` are not lists of paths. A recursive function is known only by its definition: that it
exists, and what holds of it for every number of items, goes by induction, which is proved from the least
element of a set of numbers (`Least`, `Induction`; the library's induction theorems take operators).

**LRU cache** (`LRUCacheProofs`; any finite set of keys, any values, nodes and
capacity; a call that needs a node happens only while one is free). `TypeCorrect`, `ListCorrect`,
`CapacityCorrect`, `OrderCorrect`, `RefinementCorrect`. The inductive invariant is the type
invariant with `ListInv` and `WithinCapacity`: capacity alone is not inductive, because that the removal of
the tail lowers the count rests on the tail being a stored node, which is the
list invariant. `ListInv` speaks of neighbours in the recorded order of uses
(`JustOlder`), never of walks along `next`, so that no step needs induction over
the list. Each pointer operation has one lemma: what it makes of the order. What a walk meets (`ByRecency`) follows
in each state: the place of a key in the list is the number of keys used since, or before (`ByYouth`, `ByAge`),
and a walk is, after each node, at the next place (`Ranked`, `ChainMeets`).

**Element cache** (`ElementCacheProofs`; any finite set of elements, any places and
capacity). `TypeCorrect`, `RecentIdsKept`, `NewIdsStored`. That an entry stays is
not inductive by itself. The invariant (`CacheInv`) relates the history `since` to the
order of uses: of two held identifiers one was used before the other (`Ordered`), what
was used after a held identifier is remembered in its `since`, and an identifier that was evicted
has been followed by at least `Capacity` others (`Followed`). For what is answered it adds
(`GivenInv`, `Young`) that every new identifier answered has fewer uses since than
elements were stored, so that an answer no longer than the cache is wholly in it.

**Web server** (`WebServerProofs`; any finite set of clients, any ports, boxes,
timeouts and number of requests). `TypeCorrect`, `TimeoutsNest`, `NoForeignGrant`,
`ScreenshotSettles`, `ShutdownHolds`. The invariant says for each step of the main
thread which of the two saved timeouts is in use and what it holds; that a box with a
good reply belongs to a granted request, which rests on calls in flight having
boxes of their own; and that a route runs only while the loop does.

**Broadcaster** (`MjpegServerProofs`; any clients, any number of frames).
`TypeCorrect`, `StreamsInOrder`, `ListsFollow`, `NewestTaken`. Three of the four need
more than they say. The order of a stream rests on the place of frames (`FrameInv`):
the frame being scaled is newer than any written, the one that waits newer still.
That the header is first, and that no list keeps a dead client, rest on how far each
connection has come (`ClientOK`): while its acceptance, its first read or its data are still
ahead it is written nothing and listens to nothing, and a socket that closes reports it after all its
other blocks (`InTurn`). The lemmas on the queue (`Appended`, `Popped`, `Closing`) say what a report, the next block
and `stop`, which closes any number of sockets in any order, make of it.

**xcodebuild life cycle** (`XcodeBuildProofs`; any number of launches, attempts and
processes, `Prebuild` and `Foreign` either way). `TypeCorrect`, `ResolvesOnAnswer`,
`OneProcessRuns`, `ExitsReported`. That one process runs is not inductive by itself: the invariant adds
that only the last launch can still be before its loop, with its promise pending
(`LaunchInv`), that a separate build is alive only while its launch waits for it
(`AliveInv`), and that nothing runs between the clean-up of a launch and its next
spawn (`RunInv`), so that a launch that has timed out leaves nothing the next one can meet. That a reported
exit has reached its launch needs that every process has its listeners until its exit is reported, unless
it is in `deafened` (`HeardInv`); how late exits are does not matter then.

**Session** (`SessionProofs`; any applications, monitors, recordings, sessions,
capabilities and settings). `TypeCorrect`, `MonitorsOwned`, `RecordingsKnown`,
`CrashesReported`, `SessionsEndClean`. The invariant adds two facts to the four statements. The home
screen runs and something is always in front (`GoodApps`), so that the search for
an active application finds one and the home screen is never launched; and an application
that is expected to run was not terminated on request (`ExpectedOK`), which is
what makes a reported crash real and is not visible in any response. There is one lemma per
kind of step; for applications, `TerminatesOnly` bounds what an operation of XCTest
may have terminated. `SessionsEndClean` is an action property: it looks at the step that ends a
session, and when that step creates the next one, at all the step does afterwards. An
application the old session terminated stays down unless the new one asks for it
(`StaysDown`), whichever way that opens and whatever dies meanwhile; the monitor that runs in the end is a new one.

**Project file** (`XcodeBuildProofs`; any number of sessions one after the other, with every failure and crash of
the model). `FilesCorrect` (types), `OriginalAlwaysSurvives`, `ResetsRestore`, `BuildsOwnId`. The
invariant says that while one of the two files is the original the backup is never that of a session (`Backup`), and for each
place in the code what the files hold (`Place`); survival alone is not inductive, since a copy overwrites the backup and
is harmless only because the reset before it has put the original in place, or has logged that it could not.

**Process clean-up** (`KillProcessesProofs`; any processes, any number of patterns that
match any of them). `TypeCorrect`, `CleanupEndsAll`, `SignalsEscalate`, `OthersSpared`,
`QuitEnds`. The state of a clean-up says little by itself, since what it has matched in one round
is looked up anew in the next. The invariant (`PatternOK`) says of each pattern that every process it still
has to end, of those that ran when it began, has been sent the signals of all the
rounds that are over, and is among the matched ones while it waits. For the escalation
(`KillInv`) it adds what the others do: a quit sends SIGKILL only after SIGTERM, also
before a clean-up begins. `QuitInv` ties the exit event to the end of the process.

**Actions** (`W3CActionsProofs`; any items, any number of them). `EventsGoForward`, `KeysTyped`, `TouchesMade`:
the three properties of the run, and with them that each loop of the code is what the
reference definition, read the other way, says. No state invariant is needed beyond the type of `items`;
the work is in the operators.
- *Cancels.* Going backwards with a flag keeps what an even number of cancels follows (`KeptCounts`): the flag is
  the parity of the cancels just passed.
- *Time.* Each item of a chain begins when the one before ends (`InTime`), and what it
  adds to the paths lies between (`Until`), so order in the lists is order in time.
- *Keys.* Within a group the presses minus the releases before an item and those after it determine each other
  (`Balances`), so the counts of the code, which look one way for a press and the other for a release, accept the
  groups in which every key goes down and up in turn (`BalancedPaired`, `PairedBalanced`). The text is in
  step (`InStep`): what is in the paths with what the present group owes is what was released so far.
- *Contacts.* The paths and the contacts of the reference are built in parallel (`Follows`): as many of them, each
  contact its path up to the first lift, the last path not lifted just while the pointer touches.
  The first two items are the exception, in the proof as in the code: the move has already made the
  touch that the reference sees in the press.

**Only model-checked:** the liveness properties `AlertAnswered`, `FramesArrive`,
`RequestsAnswered` (of the broadcaster and of the web server), `LaunchSettles` and `ResetEnds`, which
TLAPS does not reach. Every invariant and every action property of a passing run is a theorem.

## 6. Where code and comments disagree

1. A search below a stored element that finds the element itself stores it by the
   identifier it carries and answers with the one its place shows now, which is
   then not in the cache (`FBResponsePayload.m:68-69`, `FBResponsePayload.h:36`).
2. The short-circuit of `waitForStart` reads a field the exit handler does not set
   (`xcodebuild.js:385, 434`), so that attempts go on after the process has exited.
Seen without a run of its own: a crash or an error inside `copyFile` leaves half a backup, which
the next reset moves over an intact project, and reports as "Successfully reset" (`utils.js:123, 144, 145`;
`LosesOriginal`); a reset that cannot move only logs it, and the update then copies the modified project over the
backup, against "Assuming projectFilePath is in the correct state" (`utils.js:122, 146-151`; `LosesOriginal`),
which two sessions on one `agentPath` at the same time do as well (not modelled); a launch
whose test is quit, killed or succeeds before its first output never settles (`xcodebuild.js:386-408`; `WaitsForEver`);
the exit handler removes the listeners of the current process, not of the one that has exited
(`xcodebuild.js:384`; `deafened`); a process that starts during a clean-up may get a harsher signal first
(`utils.js:63`, hence `before` in `GentleFirst`); a first touch is only taken to be that of the move when it
is the second item, so that a move, a pause and a touch make two paths of which one is never
lifted, and pressure on that touch is dropped (`FBW3CActionsSynthesizer.m:208`, outside of
`IsGesture`); a walk of the focus on tvOS that uses up its iterations returns `NO` without an error
(`XCUIElement+FBTVFocuse.m:58`, against `XCUIElement+FBTVFocuse.h:19`); `resetSessionSettings` leaves `respectSystemAlerts`
as the last session set it (`FBConfiguration.m:522`, against `FBConfiguration.h:336`; `Session`
models the reset as it is); a tick queued before its monitor was disabled still
touches an alert (`FBAlertsMonitor.m:50`); `fb_waitUntilStableWithTimeout` does not put its
settings back when the wait throws (`XCUIElement+FBUtilities.m:148`); an empty alert selector disables the monitor of a
session that has an alert action, and an action set by settings enables none
(`FBSessionCommands.m:443-461`); a quit during the separate build does not
keep the test process from being started after it; `launchTimeout / 500` attempts
with a pause of one second take twice the timeout (`xcodebuild.js:431-433`).

## 7. What is not modelled, and why

- The memory of LRU nodes beyond their reuse: strong `next` and `prev` can keep evicted nodes alive.
- Scaling of pictures, frame rates, the quality settings: data.
- Launch of a preinstalled server, through idb, or with a given URL; `setupCaching`;
  the clean-up of a fresh project: other ways through the same calls, without state of their own.
- The escalation of signals inside a launch: `XcodeBuild` has one kill where `KillProcesses` has
  three signals. In `KillProcesses`, a `pgrep`, `lsof` or `ps` that fails, and a process identifier
  that is given to a new process between two looks.
- The join of several input sources of one request of actions (their paths are put one after
  the other), and the look-up of elements as origins, which is that of `ElementCache`.
- The TV focus tracker: what its walk does depends on the focus engine of the device, of which
  the code knows nothing.
- `quit` while `init` rewrites the project file: `ProjectFile` gives a session one
  thread, `XcodeBuild` has the quit but no files. Sessions on one `agentPath` at the same time.
- A look-up of the active applications that throws outside of the `@try` of a tick
  (`FBAlertsMonitor.m:51`): it ends the process.
- Settings read only by element commands, battery and device queries: no shared state.
- Element operations and locators: translations of a request into calls of XCTest
  whose effect is the device's; XPath is left to libxml2.
- The effect of a late launch on the application itself: `WebServer` follows the
  reply, `Session` the application.
- Snapshots without an identifier (`storeElement` then stores nothing), and
  `hasElementWithUUID`, which is a look-up like any other.
- `fb_waitUntilStableWithTimeout`; Siri and the second way to open a URL; the daemon
  calls that spin like the one modelled.
- Vendored servers and sockets, private headers: external, modelled from their use.

## 8. Plan

Done: the modules above, in the order LRU cache, session, broadcaster, launch,
project file, element cache, web server with the daemon calls and the state timeouts,
process clean-up, actions. To come, the most important first:

1. `fb_waitUntilStableWithTimeout` inside `WebServer`, as a third pair of swapped settings.
2. `TVTracker`: the walk of the focus towards an element as a process that ends, over a
   focus engine that moves on a grid.
3. The tokenizer of class chains against a grammar.
