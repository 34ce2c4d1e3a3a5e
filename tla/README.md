# A TLA+ model of the Bioconductor package builder

The single package builder (SPB) builds and checks packages that are submitted
to Bioconductor. This directory models the parts of it that live in this
repository, checks them with TLC on small instances, and proves some of their
properties with TLAPS for all instances.

## 1. Inventory

| Part | Code | State it keeps | Operations |
|---|---|---|---|
| Build node server | `workers/server.py`, `run-build-server.sh`, `kill-spb.sh`, `workers/kill_server.py` | a STOMP connection that is never reopened; one thread per job message; the tree `jobs/<issue>/{R-libs,<run>}`; `manifest.json` of each run; its child processes | `on_message`, `do_work`, start, kill |
| Builder | `workers/builder.py` | one process per job: manifest, connection, `longBuild`, `pkg_type_views`, `gitclone_retcode`, `warnings`, output files, clone, tarball | `setup`, `git_clone`, ..., `build_package`, `check_package`, `onexit` |
| Reaper | `workers/cleanUpIssues.py` | two lists, `issue_nums` and `close_nums`, fetched once; otherwise the job tree | daily cron job |
| Event path | `send_message` in `builder.py`, the events topic | a connection, reconnected once per failed send | send, reconnect |
| STOMP client of the web application | `node/stomp.js` | socket state, command queue, callbacks by destination, drain listeners; a buffer that nothing uses | connect, subscribe, publish, transactions, ack, data event, two timers |
| Web relay | `node/app.js` | browser sockets by id | job message in, builder events out |
| Static files | the handler in `node/app.js`, `node/fu.js` | body and headers of each file of `fu` | request handlers |
| socket.io client | `node/public/javascripts/lib/` | connection state, a queue, a send buffer | connect, send, disconnect, data, five transports |
| Build page | `node/public/javascripts/packagebuilder.js`, `public/index.html` | per builder node: a row with four stages, texts, a return code | one handler per event status |
| Dependency installer | `workers/installPkgDeps.R` | none | installs the dependencies |
| Scripts around R | `BiocCheck*.R`, `getPackageType.R`, `isData.R`, `macosx-*.sh` | none | exit codes and output |
| Outside the repository | RabbitMQ, issue manager, `spb_history` (archiver, report, rerun), BBS, R, git | | inputs of the above |

The web application is called deprecated by `documentation/NodeJS Web App.md`;
its code is part of the repository and it is modelled as it stands there.

Who talks to whom: the issue manager, or a build page through the web relay,
publishes a job message on the jobs topic. Every build node's server receives it
and starts one builder for it. The builder reads the message from
`manifest.json`, works in the run directory, and publishes events. Archiver,
report and web relay consume the events; the relay passes each on to the page
that asked. The reaper removes directories of closed issues below the server's
and the builders' feet.

What is hard, and what makes each part correct:

* **Server.** A thread per message, and no lock: two messages for one issue or
  one commit race for directories and for the manifest. The connection may drop
  between any two sends, the process may be killed with or without its builders.
  Correct means: a good request is not turned away without a reason, a builder
  finds its own request, a malformed message leaves nothing that looks like a
  run, no thread is stuck.
* **Builders on one node.** When two requests name one commit, two builders have
  one clone, one tarball, and each cleans up for both. Correct means: a builder
  that met no other is not disturbed by what happened before, and nothing is
  left behind for good unless a builder was killed.
* **Builder.** Many ways out of `main`, timers against subprocesses, and return
  codes with special meanings (-4, -6, -9). Correct means: every run that can
  speak gives a verdict, once; the verdict is the right one; milestones come in
  order; the timed stages end.
* **Reaper.** It goes by what GitHub said when it started, sees one page of closed
  issues, and removes what servers and builders use. Correct means: the last run
  of an issue that may be reopened is kept, a request is not robbed unless its
  issue was closed, old trees go in the end.
* **Event path.** stomp.js takes each data event for whole frames; sockets come and
  go between an event's stages. Correct means: what comes out is what went in, in
  order, once, though some of it may be lost; nobody sees another's build.
* **Page.** Events of several nodes mixed and some lost. Correct means: a row shows a
  verdict where the builder gave one and nowhere else, and a failure as a failure; no
  verdict is taken back, nothing stays in progress, and the codes the builder sends
  are understood.
* **Static files.** The file changes between two looks at it. Correct means: who is
  answered is answered once, body and length belong together, no request
  ends the process.

The hazards, each at its line, are in `PROJECT.json`.

## 2. Plan

| Module | Models | State |
|---|---|---|
| `JobServer` | the server of a node | checked, proved |
| `BuildNode`, `BuildNodeProofs` | the server with its builders on one file system; EXTENDS `JobServer`; the proofs about both | checked, proved |
| `BuildReport`; `Builder`, `BuilderProofs` | what a consumer of events may rely on; one builder in detail, which implements it | checked, proved |
| `JobTree`, `JobTreeProofs` | the reaper in the tree that server and builders use; EXTENDS `JobServer` | checked, proved |
| `EventChannel` | what a stage of the event path promises; no run of its own | implemented by the next two and `BrowserSocket` |
| `StompConnection`, `StompConnectionProofs` | stomp.js; implements `EventChannel` | checked, proved |
| `WebRelay`, `WebRelayProofs` | app.js between the topics and the pages; implements `EventChannel` | checked, proved |
| `BrowserSocket`, `BrowserSocketProofs` | the socket.io client of the page; implements `EventChannel` in both directions, except down over xhr-multipart | checked, proved |
| `FrameCodec` | the frames of socket.io as a pure algorithm | checked, proved (in `BrowserSocketProofs`) |
| `BuildPage`, `BuildPageProofs` | the page over a builder that keeps to `BuildReport` | checked, proved |
| `StaticFiles`, `StaticFilesProofs` | the two file handlers | checked, proved |

A module of its own for `send_message`'s reconnect was given
up: what a broken connection does with an event is decided in stomp.py, which is
not in the repository, and `Builder` has both outcomes.

## 3. The modules

### JobServer

One request is one delivery of a job message. `thread[r]` is the program counter
of the request: in the broker (`unsent`, `queued`), in `do_work` (`start` to
`wait`), or over:

| `thread` | meaning | `server.py` |
|---|---|---|
| `missed` | no connection when it was published or received | 65, 112 |
| `crashed` | the thread's own debug send raised, outside the try | 129 |
| `ignored` | no JSON, or no `job_id` | 136, 243 |
| `failed` | an exception, caught, logged, and the thread returned | 240 |
| `done` | the builder has been waited for | 236 |
| `gone` | the server was killed | |

`level[r]` is the directory the thread is at: `jobs`, the issue, `R-libs`, the
run directory. Each has its own `os.path.exists` (`Exists`) and `os.mkdir`
(`MkDir`, `MkDirFails`), as in the code. The manifest is truncated by `open`
and its text arrives at `close`; a thread that finds text written since its own
`open` writes over it from offset 0 and may leave the other's tail (`Garbled`).
The process can lose its connection (nothing reopens it), be killed alone
(`KillServer`) or with all builders (`KillAll`), and be restarted. `Idle` is the
sleeping main loop, so TLC's deadlock check shows that nothing else stops.

Abstracted: message texts (a request is a model value with a shape, an issue, a
run directory), the environment variables, logging, and failures of the machine
itself (disk full, no process slot), which end in the same `except`.

### BuildNode

Adds the builder of each request as far as it touches shared files: `bstep[r]`
is its stage, `job[r]` the request whose manifest it read, `clone[d]` and
`tarball[d]` who made them in run directory `d`. All stages between the clone and
the tarball are one step. `GiveUp` is any `sys.exit` or exception after
`atexit.register`: `onexit` runs. `clean_up_dir`'s exists and remove are separate
steps, and a lost race ends `onexit` with FileNotFoundError (`TarRemoveFails`).
`overlapped` is a history variable: the requests that ever were busy in their run
directory together with another one; a killed builder stays busy in that sense.

### Builder and BuildReport

`Builder` is `main` with its stages in `pc`, one action for each stage and two for
a stage with a subprocess (start, and after `wait`). `events` holds the milestone
events; the narrative ones are dropped, and that they cannot be sent is `Raise`.
Timed subprocesses (`R CMD build`, `R CMD check`, BiocCheck, the binary build) run
against a clock in ticks: `Tick`, `SubprocessExits` at any moment, and
`TimerKills` at the limit. The untimed ones just return some code. Variables
local to a function are reset when it returns, to keep the state space small.
`cause`, `timedOut` and `failed` are history variables.

`BuildReport` is the consumer's view: the last milestone and its code.
`ReportsInOrder` maps `Builder`'s last event to it.

### JobTree

Extends `JobServer` with GitHub's issues (`issue`: open, closed lately, closed for
more than 30 days), the reaper and the order of modification times. Whatever
of `JobServer`'s steps touches the tree is given its effect on it: `changed[i]` lists the
entries of an issue, the last changed at the end, as `ls -t` does. `OpensManifest`
and `Launches` fail when their directory has gone; a thread that holds the
manifest open writes a file that is no longer in the tree (`linked`).

The reaper's program counter is `rstep`: `idle`, `old` and `closed` for the two
loops, `rm_tree` and `rm_runs` while an `rm -rf` runs. What `Fetch` got
(`issueNums`, `closeNums`) is not looked at again. An `rm -rf` has two phases for a
run directory, its contents and itself, and fails when something was put in between
(`refilled`, or a builder at work in it). Listing and sorting of an issue's
entries is one step. `pop` on an empty list ends the run (`ClosedIssues`), the next
day begins anew. `robbed` and `most` are history variables.

### EventChannel

What every stage between a builder and a page promises: `got` is `sent`, in order
and without repetition, possibly with gaps (`lossy`). `next` is the first message
whose fate is open.

### StompConnection

`commands` is the queue that `processCommands` empties every 100 ms, `wire` what was
written, `full` a socket whose `write` returns false until it drains; `listening` are
callbacks added with `on("drain")`, which stay. A frame of the broker is a sequence of
six parts and `stream` those that no data event has brought yet; `Data(n)` brings
any number of them, so that a segment may end anywhere. `Handled`, `Parse` and
`ProcessData` are `split("\0\n")`, the loop that an empty piece ends, and the
regular expression. `Close` may end the process, for there is no listener for
errors and `close` is a method later sockets do not have. `FramesInOrder` takes
`delivered`, whole frames and cut ones, for what comes out of the channel.

### WebRelay

Socket ids are numbers in the order of the handshakes. `clients` is
`io.sockets.clients()`, which a lost id leaves some time after the page has
(`Drop`, `NoticeDisconnect`). `Message` marks a job with the id of the socket,
`BuilderEventArrives` looks an event's id up and emits to the first match. A page may send
a text that is no object; events may be of builds nobody here asked for, or cut.
`EventsInOrder` is about one page, `ThisPage`, which is any of them.

### BrowserSocket and FrameCodec

`Socket` over one `Transport`: the queue of the base until the session id has come,
the `_sendBuffer` of an XHR transport during a POST, `link` for the WebSocket or the
GET. `browser` is the environment: which transports can be used, whether requests have an
`onload`, what the cookie remembers, whether connections fail. `PollFails` tells
the two branches of xhr-polling.js apart: `onload` does not look at the status and
polls on. `Messages` is what the server takes of a WebSocket's frame or of a POST:
the messages in their order, an echo of a heartbeat is none. `FallBack`'s `splice`
takes the last transport of the list off where "flashsocket" is not in it, which
happens when the cookie remembers one that the page does not ask for.

`OnData` takes each frame once, which is what `_onData` does for every transport but
xhr-multipart. That one decodes all of `responseText` anew whenever more of it has come,
the end of a frame still missing or not. `response` has the frames in it and `begun` says
that one that is not whole is behind them. `OnResponse` lets any number of frames
come, and then puts into `msgs` what `_decode` finds in all of it: the whole frames, and
of one that is cut short nothing or a text that was never sent (`Pieces`);
`OnDecoded` is the loop of `_onData` over `msgs`, and `PartEnds` the empty text that a new
part of the response begins with. The first text is taken for the session id; `cutId`
remembers that it was none, and the server then knows no session of the POSTs. That a frame
is seen unfinished once is a bound.

`FrameCodec` has `_encode` and `_decode` on sequences of characters. `Round` is one
round of the loop of `_decode`, with what is read, what is left, and whether the loop is
over; `Decode` is what is read after as many rounds as there are characters, and one
more. `FramesAreRead` cuts data in each frame, behind each character but the last: these
are all the places where it can be cut.

### BuildPage

Extends `BuildReport`: the followed builder takes its steps and each milestone puts on
`wire` the events that builder.py sends around it (`Own`). A second node may send anything the page
knows (`OtherStatuses`, and a `node_info` when it has no row yet), `Lose` drops events. `Handle` is the switch of the page; `shown` has the class of
each stage of a row, `cells` which texts are filled, `retcell` what the RetCode cell
has. The history variable `failed` has the stages whose verdict was sent with a code but 0. `Field` reads a field that is not there as `Undefined`, as JavaScript does.

### StaticFiles

One path on disk that changes (`tree`), and requests to either handler. The handler of
app.js looks three times: `Look` (`path.exists`), `Exists` (its callback, with `statSync`, which
throws when the path has gone), `ReadFile`. In `fu`, requests before the first read
has ended all read the file. `Length` differs between contents, so that a length tells whose
it is.

Operators named "Mutant of ..." are plausible mistakes in the code they stand
beside. No specification uses them; each is a check that a property would notice
the mistake when it replaces the original.

## 4. The runs

| Run | Instance | Shows |
|---|---|---|
| `build_node` | days of 2 or 3 requests, all failures of the server | `DroppedOnlyByRace`, `ManifestIsMine`, `RunDirsAreWanted`, `Isolation`, `NoResidue`, `ThreadsGetThrough` |
| `job_server_drops` | 3 requests, no failures | violation of `InstructionStartsBuild` |
| `builder` | a Mac, a Linux and a Windows node | `NoSilentEnd`, `TimeoutReported`, `PassedMeansPassed`, refinement `ReportsInOrder`, `CheckEnds` |
| `builder_late` | a Mac | violation of `LateMeansLate` |
| `builder_last_message` | a Linux node | violation of `LastMessageTellsWarnings` |
| `job_tree` | 3 issues, 2 requests, a page of 2 | `ARunIsKept`, `DroppedForAReason`, `OldTreesGo` |
| `stomp` | 3 calls, 2 frames, cut anywhere | `TypeOK`, `CommandsInOrder`, `SubscriptionsAgree`, `NeverMixed`, `Resynchronizes`, refinement `FramesInOrder`, `CallbacksGetCalled` |
| `web_relay` | 2 pages, 3 sockets, 2 jobs, 2 events | `TypeOK`, `OnlyItsOwn`, refinement `EventsInOrder`, `EventsReachTheAsker` |
| `browser_socket` | 11 browsers, 4 messages up, 2 down, a heartbeat; up to 3 texts in one piece of data | `TypeOK`, `FramesAreRead`, `RereadsInOrder`, refinements `MessagesInOrder`, `SentArrives`, `ToldArrives`, `CloseIsTold` |
| `build_page` | a build with events lost or mixed with another node's | `TypeOK`, `SettledMatchesReport`, `VerdictsStand`, `NothingStaysInProgress` |
| `build_page_ret_code` | the same without the other node | violation of `RetCodeIsShown` |
| `static_files` | 2 requests of any kind or 3 to `fu`, 2 changes | `TypeOK`, `LengthOfTheBody`, `OnlyARemovalKills`, `AnsweredInTheEnd` |

Bounds.

* `build_node`: two requests are enough for each pairwise race; the third makes one of
  the contenders overtake two others, and names another commit of the same issue
  so that a race for the issue directory is not a race for the run directory. Of
  seven declared requests each day has two or three, the rest were missed before
  the server came up: on the builders' day two for one commit with their
  builders to the end, on the four server days the races and every malformed shape, with
  builders that just end. A request is handled once, so the instance is finite
  without a bound; the server is killed and restarted any number of times.
* `builder`: the limits are a few ticks because only the order of a duration and
  the three limits matters. On the Mac and on Windows the warning comes before the
  timeout (2 < 3 < 4 ticks), on Linux both are ten minutes, as in
  `TEMPLATE.properties`; on Windows there are no signals and a kill returns 1.
* `job_tree`: issue 1 has two finished runs, both asked for again while it is
  closed, grows old and is reopened at any moment; issue 2 has nothing but R-libs and
  makes `pop` raise; issue 3, when it is closed, pushes issue 1 off the page.
  The steps of a thread before and after its work in the tree are taken at once.
* `stomp`: with one frame up to three calls (queue, unsubscribe and subscribe
  again), with two frames up to two calls. Two frames are enough for the end of one to
  be taken for the next.
* `web_relay`: the third socket is a page's second connection, while the other page
  has its own. Two events are enough for order and repetition.
* `browser_socket`: four messages fill the queue before the session id, a POST
  and the buffer behind it. Over xhr-multipart at most two are sent (`Fewer`), for what it
  reads again multiplies the states; two still fill queue and buffer. Of the browsers
  without failures one has a WebSocket, one polls, one has xhr-multipart, and one has
  no transport. The frames are looked at where there is no transport,
  so that the two state spaces are not multiplied: six texts, up to three in a
  row, and each piece of data cut at every place.
* `build_page`: at most four events under way; a milestone sends up to four. Events are lost only
  where no other node builds.
* `static_files`: the third request to `fu` comes between the reads of two others.

Deadlock is checked except in `build_page`, `build_page_ret_code`, `static_files`,
`web_relay` and `browser_socket`, where nothing is left to do once the messages,
requests or changes of the bound are used up, or the process has ended. In
`JobServer` the idle main loop, in `StompConnection` the second timer, and in
`JobTree` the reaper's next day are steps of their own.

Fairness.

* `ThreadsGetThrough`: weak fairness of each thread's next step, for threads of a
  running process are scheduled. A builder need not end, so a thread may stay in
  `wait`.
* `CheckEnds`: weak fairness of the steps from `check_package` on: time passes,
  `Timer` fires, the code between the subprocesses runs. R need not end by itself,
  and nothing before the check is fair: git, R and scp run there without a limit
  and may hang.
* `OldTreesGo`: cron runs the reaper, and `rm` goes on. GitHub answers; of the
  servers and builders nothing is assumed. A day on which the fetch fails is not
  modelled; the run ends before it has looked at anything.
* `CallbacksGetCalled`: the timer fires, the connection is made, a full socket
  drains. The connection may end instead.
* `EventsReachTheAsker`: node runs its callbacks, the socket delivers, a page without a
  connection tries to connect. Nothing keeps a connection up.
* `SentArrives`, `ToldArrives`, `CloseIsTold`: browser and network go on. The first two
  are limited to browsers without failures, and `SentArrives` does not speak of messages that
  are sent for a session id which xhr-multipart has read too early (`cutId`).
* `NothingStaysInProgress`: what is under way arrives. It is about builds that reach the
  end of the post-processing. What a row keeps in progress when a build ends early, or
  on a platform that is not supported, is not claimed.
* `AnsweredInTheEnd`: node runs the callbacks of what it was asked for.

Findings. The four violations are described in `PROJECT.json`:

* two requests that arrive together can both find a directory missing; the
  slower `os.mkdir` raises and its request is dropped without an event;
* a Software check that fails after ten minutes is reported as -4, a warning;
* the last message says "Build successful." after a check with warnings;
* the page reads `result_code` where the builder sends `retcode`: the RetCode
  cell has no code and every verdict of a build or a check is shown as ERROR.

Other divergences met while modelling, which need no run because they can be read off
two lines:

* The relay marks the job of a page with `_<socket id>_` (`app.js`:70-74), and
  server.py:143 takes what follows the first colon: IndexError, for every such job.
* A page that connects again has another id and gets none of the events of the
  build it asked for (`app.js`:72, 106).
* The fallback of the Flash socket calls `base.connect()` while `connecting` is set,
  which does nothing (`flashsocket.js`:24, `socket.js`:48): a browser whose Flash
  socket fails is never connected.
* An XHR transport's `disconnect` calls an `_onClose` that it does not have
  (`xhr.js`:87): "disconnect" does not fire.
* With `onload` an error answer to a poll is passed over, without it the polling
  ends (`xhr-polling.js`:24-40).
* A file removed between `path.exists` and `statSync` ends the web application
  (`app.js`:34-42); `OnlyARemovalKills` shows that nothing else there does.
* xhr-multipart reads `responseText` anew at every `readyState` 3
  (`xhr-multipart.js`:22-24): "message" fires again with what it has fired with, with the
  beginning of a message before the whole, and with the session id, which may itself be
  taken before it is whole. The page does not ask for this transport.
* A request that is an XDomainRequest (`xhr.js`:14) has no `setRequestHeader`, which
  `_request` calls for a POST (`xhr.js`:97).
* An issue closed lately whose tree holds nothing but R-libs ends the reaper with
  IndexError every day, before issues behind it in the list are looked at
  (`cleanUpIssues.py`:63); the old trees come first, so `OldTreesGo` holds.

## 5. Proofs

The first part of `BuildNodeProofs` proves for any sets of requests, issues and runs that `JobServer`
keeps `TypeOK`, `DroppedOnlyByRace`, `ManifestIsMine` and `RunDirsAreWanted`. It
uses the named assumptions of `JobServer`: the maps are functions with the
declared ranges, and no commit is called "R-libs". The inductive invariant
`IInv` adds to them where a thread can be at each level (`StepsInv`), that a
directory exists if and only if some request is past it (`DirsInv`), and what the
manifest holds between open, close and launch while nobody else is in the run
directory (`ManifestInv`). `DirsInv` is what `DroppedOnlyByRace` needs: an `os.mkdir`
fails because the directory is there, then some request is past it, and because
the four directories of a request differ (`PathsDiffer`) it is another request
past the same directory.

Its second part carries `IInv` over to the node: a builder's step is an exit that
`JobServer` has as well, or leaves the server's state alone (`ServerOfTheNode`, a
lemma: it holds by the shape of the two modules). On top of it stands `NodeInv`,
from which `Isolation` and `NoResidue` follow for any set of requests:

* `ResidueInv` strengthens `NoResidue`: what is left in a directory has somebody
  who will really remove it. That is not every builder that is still running: one
  between exists and remove whose tarball another has taken fails and leaves the
  clone. Then the other is still to remove it.
* `OverlapInv` says that who meets another now has been recorded.
* `IsolationInv` extends `Isolation` back to the moment the manifest is opened. When
  such a builder reads its manifest the directory holds no clone: a clone would
  have somebody to remove it, whom this builder would be meeting.

`BuilderProofs` proves for any platform, any ordered limits and any set of the
named signals that `Builder` keeps `TypeOK`, `TimeoutReported`, `PassedMeansPassed` and
`NoSilentEnd`, and that it implements `BuildReport` (`Implements`). `IInv` consists of
`HistoryInv` (what a finished stage left in the clock and in the return codes),
`EventsInv` (no verdict before its stage is over, and each one right), `SpeakInv` (who
passed the build has reported it) and `PhaseInv` (the last milestone fits the stage).
Two relations carry the argument instead of the thirty actions: `Forward`, main
never goes back and what an event was judged by does not change afterwards, and
`QuietMove`/`Says`, the control flow of `main` with what each move announces, from which
`SpeakInv`, `PhaseInv` and the refinement follow.

`JobTreeProofs` stands on the lemmas about `JobServer` in `BuildNodeProofs` and proves `ARunIsKept` and
`DroppedForAReason` for any requests, issues and page size. `TreeInv` is needed
because neither is inductive. That a run directory is left depends on what the
reaper is about to remove: `RunLeft` says that of the run directories of an issue
one is not among the reaper's `victims`, and `Listed` that `changed`, from which it
chose them, lists what is there, each entry once, so that all but the last is not
all. `ReaperInv` ties what the reaper was told to what GitHub once said, which is
what a stale `closeNums` leaves true. That a request is dropped for a reason
depends on what its thread has behind it: the directories it found or made, or
else it was robbed (`WayInv`); a directory that turns up between exists and mkdir was
made by a request that contends for it (`MkdirInv`); and robbed are only requests of
issues that were closed once (`RobbedInv`). `MkdirInv` is the argument of
`DropsAreRaces` when directories may also go.

`StompConnectionProofs` proves the five safety properties of the run and that the client
implements `EventChannel`, for any topics and any bounds. Its `TypeOK` includes
`CalledWhenWritten`: a callback that was called, or waits for a drain, is that of a command that
has left the queue. The two halves share little. For what is sent, `QueueInv` says that the queue numbers its commands and that
nothing is written before CONNECT; `SubscriptionsAgree` is by induction over the
last command that is about a topic. For what is received, `StreamInv` says
where the stream stands: of six parts for each frame sent, `Cut` have been brought, the part at
place p of the stream is the one at `Cut` + p, and no callback got a frame that begins behind
`Cut`. Without it nothing forbids a stream with the end of one frame next to the
body of another, and `NeverMixed` is not inductive. `DataStep` has the core of the argument: a piece
between two separators that begins with a `start` lies within one frame, because
the only separator of a frame is its end. `FirstOpen`, the channel's next frame, is
the first one with its `start` still on the stream, which `Cut` determines.

`WebRelayProofs` proves `TypeOK`, `OnlyItsOwn` and `EventsInOrder` for any pages, jobs and
sockets. `OwnInv` follows the page that asked through all stages: questions on a
connection are its page's, a job names the connection its question came on, an event that of
its job, and an event on a connection names it. Ids that were not given out yet
have nothing under way (`Unused`), or a new connection would inherit it.
`OrderInv` says that what is under way to a page is sorted, has been relayed, and is
newer than all that the page has seen on any of its connections. `EventsInOrder` is about `ThisPage`, a constant
that may be any page, so it holds of each.

`StaticFilesProofs` proves the three invariants of the run. `Proper` says of each request how far it
may be, with which handler, and what it has seen: a request of app.js that is not
answered has seen the tree as it is, and one that found something has seen
something. These make `OnlyARemovalKills` inductive: when `statSync` throws, the
tree is gone, the request has seen that, and it had seen the path before.

`BuildPageProofs` proves `TypeOK`, `SettledMatchesReport` and `VerdictsStand` for any codes
with 0 and 1 among them, any `OtherStatuses` the page knows but `node_info`, and any
number of events under way. `SettledMatchesReport` says that a stage has a verdict if and
only if the builder gave one (for the binary: only if), that it is in progress while the builder is
at it, and that a failed stage is an ERROR. That a good verdict is shown as a good one it
cannot say: it is shown as ERROR, because the page asks for `result_code`
(`packagebuilder.js`:336-338, the run `build_page_ret_code`). A page that asked for `retcode`
would satisfy the property as well. `SettledMatchesReport` speaks of an empty wire and says nothing of the way there.
The invariant gives a rank to each event that changes the row of the followed
builder for good. `WireInv` says that ranks grow along the wire and that none is above
`Level`, the last rank sent; so a rank is still to come, under way, or behind
(`Beyond`). `NoneMissing` and `Effects` say what the row shows of the ranks that are
behind, as long as nothing was lost. `RowInv` holds with losses too: a row with a
verdict has behind it every event that could take the verdict back, which is
`VerdictsStand`. `FailInv` adds that the event of each failed stage has been sent, and that
a row shows no OK or WARNINGS for a stage of the build, so that the verdict it has is ERROR; a
failed binary is told apart from a skipped one by its event.

`BrowserSocketProofs` proves `TypeOK` and `MessagesInOrder` for any browsers and any
bounds. Messages are numbered, and `Carries(frames, from, to)` says that the
messages among some frames are those behind `from`, up to `to`, in order and with
none missing. `UpInv` follows them on their way up: the wire carries those from what
has arrived to some b, the buffer those from b to some c, the queue the rest. It says so only while
the socket is `Flowing`, its WebSocket not lost, no POST failed. That nothing
arrives afterwards which would pass over a loss is `LifeInv` and `WireInv`: a
connection that was lost is not made again, a POST that failed is the last one, and a transport
that gave way to another never had a session. `LinkInv` is the same for the way down, where only polling by onload
goes on after a loss (`Lossy`): then messages are in order but may be missing.

`LinkInv` and with it `MessagesInOrder` leave out the way down over xhr-multipart, of which
`RereadsKeepOrder` is proved instead. There an order by positions is of no use, because
what was read comes again from its beginning. `Climbs` says of a sequence that it has each message
only when all before it have come, repetitions and pieces allowed. `MultipartInv` has
two marks: what "message" has fired with climbs from nothing to `had`, what is decoded and
waits goes on from there to `read`, and the link carries the rest. `OnResponse` puts in front
what was read long ago, which only repeats; what is new at its end begins behind `read`.

The same module proves `FramesAreRead` for any texts over any characters, whatever
their number (`FramesRead`). `FrameCodec` defines what it computes by recursive functions, and the
library's theorems on them take operators as parameters. So `Recursion` says for
functions that such a function exists, and `OneRecursion` that there is one only, both by a least
number where it fails. From there on inductions are least counterexamples, too:
`DecimalFacts` (a number that was written is read again, no digit of it is a mark),
`RoundReads` (a round takes the frame off that data begins with, whatever the text looks
like, because it goes by the length), `RoundCut` (of a frame that is cut short it reads
at most one text and leaves nothing that looks like a frame: the rest are digits or
nothing), and `ReadsFrames`, which puts the rounds one behind the other.

TLC finds the inductive invariants to hold on the instances of section 4 (with
the proof module extended by the MC module's, and the invariant as INVARIANT).

Only model-checked:

* liveness (`ThreadsGetThrough`, `CheckEnds`, `OldTreesGo`, `CallbacksGetCalled`,
  `EventsReachTheAsker`, `SentArrives`, `ToldArrives`, `CloseIsTold`,
  `NothingStaysInProgress`, `AnsweredInTheEnd`), which is beyond the provers;
* the four violations, each a counterexample that TLC finds.

The type invariants of `JobServer` and `Builder` are proved and are not runs of
their own.

## 6. Not modelled

* `server.py`'s keepalive reply (no effect on any state) and the environment variables it
  exports.
* `send_message`'s reconnect beyond its two outcomes: the event goes out or the
  builder raises (stomp.py decides the rest).
* What two R processes do to the shared `R-libs` library: R's own lock directories
  decide that.
* `installPkgDeps.R`, the R check scripts, `getPackageType.R`, `isData.R`, the
  macOS scripts: thin wrappers whose exit codes are inputs of `Builder`.
* Requests by XDomainRequest (`xhr.js`:14), the way of Internet Explorer 8 and 9 to
  another host: such a request has no states and no headers, and where it ends is up to
  the browser.
* `node/lib/appserver.js`: nothing requires it.
* `public/javascripts/socket.io.js`: the files of `lib/` put together with libraries
  of others. `index.html` asks the server for `/socket.io/socket.io.js`, which the
  server's own package may answer with a newer client.
* `json2.js`, `jquery`, `node_modules`: third-party code.
* `simpleText` and `simpleJSON` of `fu.js`, which nobody calls; `io.util.load`; the
  writing of the transport's cookie; texts and layout of the page.
* Demonstration and helper scripts (`dummysender`, `dummyconsumer`, `sr.py`,
  `console.js`, `emit_log.py`, `IssuesToRerun.py`): not part of the running system.
* RabbitMQ, the issue manager, `spb_history`, BBS, R, git: not in this repository.
