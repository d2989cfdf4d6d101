# A TLA+ verification of niova-lookout

niova-lookout watches the niova processes of a host.  Every process owns a
directory `<CTLPath>/<uuid>` with `input/` and `output/`; the lookout drops a
command file in `input/`, the process renames an answer into `output/`, and the
lookout keeps per process an *endpoint* with a state, which it serves over HTTP
and shares with other lookouts over Serf.  Source paths below are relative to
`src/`.

The hard part is not the protocol of one command.  It is that three goroutines
change the same endpoints under three mutexes that do not cover the same code,
while processes die, directories vanish and answers come late or never, and that
HTTP handlers and gossip goroutines walk the same endpoints with hardly a lock.
That core, its readers and the start-up of the program are modelled here.

## 1. Inventory

| part | state | operations | runs in |
|---|---|---|---|
| endpoint, `pkg/monitor/ctl_interface.go` | State, watched, wid, App, LastSeen, lsofGen, pendingCmds | ChangeState, Poll, Complete, submit, flushStaleCmds, RemoveStaleFiles | all three goroutines |
| container, `pkg/monitor/endpointContainer.go` | epMap under `epc.mutex` | AddEp, CleanEPs, PollEPs, GetList, TakeSnapshot, MarkAlive | monitor, lsof, inotify, HTTP, UDP |
| handler, `pkg/monitor/lookout.go` | lsofGen, inotify.wmap under `inotify.mutex` | monitor (20 s), monitorLsof (60 s), epInotifyWatch, EpWatchAdd/Remove, Start | its goroutines |
| applications, `pkg/monitor/applications` | the last answer | DetermineApp, GetAppDetectInfo, SetCtlIfOut, Parse | inotify, monitor, HTTP |
| start-up, `cmd/lookout/main.go` | channel `errs`, the HTTP port, the Prometheus target file | ServeHttp, CheckHTTPLiveness, gossipSetup, Start | main, HTTP starter |
| gossip, `pkg/communication/gossip_comms.go` | Serf tags | SetTags, GetTags, UDP listener, getConfigNSend | own goroutines |
| HTTP, `pkg/communication/http_comms.go`, `pkg/prometheusHandler` | none | queries, `/metrics`, `/lookouts` | HTTP goroutines |
| `pkg/xlog`, `pkg/requestResponseLib` | none | logging; FATAL ends the process | everywhere |

How the parts meet:

* `epc.mutex` serialises CleanEPs, PollEPs and AddEp.  Complete, which the
  inotify goroutine runs for each answer, does **not** take it.
* `ep.Mutex` covers addCmd and removeCmd, but neither mayQueueCmd nor the loop
  of flushStaleCmds.
* `inotify.mutex` covers the body of EpWatchAdd, EpWatchRemove and
  epWatchLookup, but not the test of `ep.wid` before it.
* The kernel hands events to the inotify goroutine in order and drops them when
  its queue is full; the file system and the processes change at any time.

What makes each part correct:

* endpoint: an answer is acted on at most once; a lost answer does not block
  later polls; a process that answers is `running` again and again; a dead one
  ends in `removing`; the assertion of ensureWatchedState holds.
* container and lsof: nothing is removed whose process was there throughout two
  scans.
* inotify: `wmap`, the `wid` fields and the kernel's watches agree, and a watch
  that is taken down is gone.
* readers: a scrape meets no half-written answer and leaves out no active
  endpoint; a reply shows the state asked for; other lookouts end up with the
  right status of an endpoint that settles.
* metrics: a report loses and repeats nothing of the structs it is made from.
* start-up: a lookout that goes on owns its port, one that can start does start,
  the target file gets its port once per start, Serf is given the addresses of
  the gossip file, and PortRange holds the ports between the file's two numbers.

The hazards, with the line where each bites and the property that would catch
it, are listed in `PROJECT.json`.

## 2. Modules

`A <-- B` means that B extends A.

```
Endpoint <-- NcsiEP <-- Lookout <-- LookoutLifecycle <-- MCLookout
                        Lookout <-- LookoutProofs <-- ControlProofs
ControlProofs <-- CleanProofs
ControlProofs <-- WatchProofs
ControlProofs <-- LifecycleProofs --> LookoutLifecycle
Endpoint <-- Lifecycle <-- Comms <-- MCComms
             Metrics   <-- Comms <-- CommsProofs
Startup  <-- MCStartup
Startup  <-- StartupProofs
FoldLemmas <-- CommsProofs, StartupProofs

LookoutLifecycle:  LC == INSTANCE Lifecycle WITH state <- ..., app <- ..., goal <- ...
```

**Endpoint** has the vocabulary: lifecycle states, applications, the command
each is polled with, what an answer may be.  **NcsiEP** adds the records for an
endpoint and a command, and the staleness tests.

**Lookout** is the core.  `th[t]` holds the program counter and the locals of
goroutine `t`; `ep`, `pend`, `cmd` and `wmap` are the program's data; `kern`,
`nextWd` and `evq` are the kernel's inotify instance; `proc` and `dir` are the
monitored processes and their directories; `exit` records the FATAL, panic or
runtime throw that ended the process.

| code | actions |
|---|---|
| ChangeState, ensureWatchedState, watchCtl | ChangeState, EpWatchAdd, EpWatchRemove, SetWatched, SetState, SetSeen |
| submit, prep, addCmd, queryApp | MayQueue, Submit, Retry, QueryApp |
| CleanEPs with flushStaleCmds, RemoveStaleFiles | CleanEPs, CleanNext, Decide, CleanDone |
| PollEPs, Poll | PollEPs, PollNext, PollAge, PollDone |
| lookoutLsof, monitorLsof, AddEp | LookoutLsof, ScanNext, ScanMiss, AddEp (AddEpKnown, AddEpNew), AddEpTest, Unlock |
| processEvent, Complete, update | ProcessEvent, Complete, Revive, Apply |
| the race of flushStaleCmds with addCmd/removeCmd | ConcurrentMapWrite |
| kernel, processes, clock (not in `src/`) | Emit, AppAnswer, AppAnswersAgain, ProcStart, ProcStop, MakeRoot, MakeOutput, Touch, RemoveDir, Tick |

**Lifecycle** is the abstract specification of the core, of what a reader can
see: `State` and `App` of each endpoint, and for each of the two sides that write
them the change it has decided on (`goal`).  The *container* side (CleanEPs,
Poll, AddEp under `epc.mutex`) may only decide to take down an endpoint it finds
running, to remove one it does not, to bring back one in removing, and to write
again the State it has just read (Looks, what AddEp does when Complete writes
between its reads); the *complete* side, only on an answer, that it is identified or running.  A
decision is written in a later step, whatever the state is by then: that is all
the code guarantees, and Lifecycle does not promise a table of legal
transitions.  **LookoutLifecycle** is the refinement mapping: a goroutine's goal
is the endpoint and the target of the ChangeState it is in, or the State AddEp has
looked at; the holder of
`epc.mutex` is the container side.  When AddEp is called by the inotify
goroutine, which also runs Complete, that goroutine is the container side for as
long as it holds the mutex.

**Comms** composes Lifecycle with its readers: every step of the core is a step
of Lifecycle (CoreFinds, CoreDecides, CoreIdentifies, CoreRevives, CoreFinishes),
with what a reader can tell of it besides.  Complete's update is taken apart
(BeginFill, FillNext, EndFill): SetCtlIfOut stores the sections of an answer into
the live object one by one.  What Comms takes from the core beyond Lifecycle is
that one goroutine runs Complete, one answer at a time, and that a holder of
`epc.mutex` keeps the container side out.

| code | actions |
|---|---|
| MetricsHandler, TakeSnapshot, LoadSystemInfo, Parse | TakeSnapshot, ScrapeNext, ScrapeLabels, ScrapeCall, ScrapeParse, ScrapeDone |
| httpHandleRoute, JsonMarshal | JsonMarshal, Marshal |
| SetTags, GetCompressedGossipData | SetTags, TagNext, TagsAccepted, TagsRefused |
| GetTags | GetTags |
| getConfigNSend, MarkAlive | MarkAlive |
| Serf, net/http (not in `src/`) | Gossip, EndJob |

**Metrics** has the pure part: which sections each application takes over
(SetCtlIfOut), which it needs to report itself (LoadSystemInfo, Parse), and
GenericPromDataParser with its histograms as functions from a struct to the
samples of the report.

**Startup** models `main`, the goroutine that starts the HTTP service, the
channel between them, gossipSetup with the reading of the gossip file
(removeDuplicateStr, makeRange in unsigned arithmetic modulo PortCount, and
`net.ParseIP`, not in `src/`, as a constant function from texts to IPs), the
retries of StartSerfAgent, and the target file, which survives a restart.

### What is abstracted

* Critical sections of `ep.Mutex` and `inotify.mutex` are single steps.
  ChangeState's tests are one step, and each of its later writes (the watch,
  `watched`, `State`, `LastSeen`) is one of its own, since ChangeState holds no
  lock over them.  Poll's look at the state and mayQueueCmd are one step; what
  matters, that addCmd comes later, is kept.
* AddEp of a known uuid reads State three times (`endpointContainer.go:130, 135,
  143`), and Complete may write it in between, so that AddEp may hand a State that
  is no longer true to ChangeState.  An optimised build may keep one load for all
  three, the `debug` build of the Makefile loads each time: `Rereads` chooses.
  The second and third read are one step (the comment at `newState` says why that
  hides nothing).  The safety runs `churn` and `answers` have `Rereads`, the
  theorems hold for both values.  The liveness runs and the three violations of
  Lookout have the optimised build.  The violations are there in both builds, and
  the properties of `dead` hold in both.  RespondingIsRunning does not hold with
  the re-reads: it fails by the schedule in which every answer that sets `running`
  falls between two reads of the same AddEp, for ever, which fairness does not
  exclude.
* Where CleanEPs reads State a second time (`endpointContainer.go:54, 60`),
  Decide looks once.  Complete may write `running` in between; the code then
  does nothing, which in the model is the look taken after Complete has also
  stored LastSeen.
* AddEp of an unknown uuid is one step: it holds `epc.mutex` throughout, the new
  record is reachable by nobody else, and it awaits no answer.
* Times are ages in ticks, capped just past the threshold they are compared
  with; only a command in use has one.  `lag` is the distance of generations, capped at 2, because
  LsofGenIsStale only asks whether it is at least 2.
* Answers are of three kinds: one that parses and identifies its application,
  one that can be read but does not, one that cannot be read.  The last two are
  a fault (`garble`) that a run allows a number of times.
* Command uuids come from a pool; one returns to it when no pending command,
  event or local refers to it.  `live` is a ghost that records whether a command
  was completed or flushed, and `up` one that counts the scans a process was
  there for.
* `fill`, `ready` and the fields `reported`, `steady` and `replaced` of `job` in
  Comms are ghosts or locals of the goroutine they belong to.
* Stores take effect in program order in Comms, which is what amd64 gives to
  stores of one goroutine.  A pointer is stored at once; a slice's length and
  array are stored one after the other, so a reader may find it torn.  Only
  sections that a report dereferences or indexes are kept.
* One reader runs at a time in Comms: readers write nothing another one reads.
  A range over the live `epMap` that meets AddEp's write may make the Go runtime
  throw, or see the new entry, or not.
* The code's `-1` for "no watch" is NoWd.
* The lookout state SHUTDOWN is never assigned in the source, so the loops have
  no end.

## 3. Runs

The ones marked V are expected to be violated: they state what the repository
says, and TLC shows a behaviour of the code that contradicts it.

| run | module | checks | shows |
|---|---|---|---|
| churn | MCLookout | WatchTable, WatchRemoveSafe, PendingBounded, AnsweredOnce, NoFalseRemoval | one endpoint, whose process stops, whose directory is touched and whose answers come late or twice, against scans, CleanEPs, polls and flushes, with three command uuids (theorem WatchTableConsistent covers several endpoints) |
| answers | MCLookout | TypeOK, ImplementsLifecycle | answers of every kind, repeated and late, command files that cannot be written, and a directory that is replaced, against polls and flushes; the refinement |
| dead | MCLookout | DeadEndpointRemoved, PollsResume | a process that dies for good, with its last answer in flight; nothing pending for ever, though no answer need come |
| responding | MCLookout | RespondingIsRunning | a process that stays and answers in time |
| watch_assert (V) | MCLookout | NeverWatchAssert | ensureWatchedState's FATAL is reachable |
| rm_watch (V) | MCLookout | RemovingNotWatched | the kernel watch of a removing endpoint stays |
| down_stuck (V) | MCLookout | DownComesBack | down for ever after the directory was replaced |
| comms | MCComms | TypeOK, ScrapeSurvives, AllActiveReported, ReplyState, MetricsLossless, PeersConverge | the readers of a NISD's endpoint while it is identified, filled and moved; the report's samples over all small histograms (MetricsLossless is a constant formula about the pure functions: one state that has reported decides it) |
| pmdb_metrics (V) | MCComms | AllActiveReported | a running PMDB makes the scrape panic and is not reported |
| startup | MCStartup | TypeOK, ListenErrorStops, TagsNeedSerf, NodeListInOrder, PortRangeRight, WaitingMainProceeds | two starts, a port that another process may take, Serf failing or alone, 121 gossip files |
| own_port (V) | MCStartup | ServesOwnPort | another process answers the liveness probe, and main goes on |
| start_hang (V) | MCStartup | LookoutStarts | main waits on `errs` for ever |

### Disagreements found

* **watch_assert.**  CleanEPs changes an endpoint to `removing` under
  `epc.mutex` while Complete, without it, changes the same endpoint to
  `running`.  `watched` and `State` end up from different calls, and the next
  ChangeState ends the process at `ctl_interface.go:207`.
* **rm_watch.**  `lookout.go:290-292` resets `ep.wid` to -1 and then passes
  `ep.wid` to InotifyRmWatch.  The kernel refuses and the error is dropped.
* **down_stuck.**  `endpointContainer.go:132-134` says that an endpoint that is
  down can be brought back via Poll.  When its directory has been replaced the
  kernel's watch is gone, `watched` stays true, no ChangeState adds a new watch,
  and every answer goes unseen.
* **pmdb_metrics.**  `README.md:62` says that `/metrics` reports all active
  endpoints.  Pmdb's SetCtlIfOut (`pmdb.go:106-109`) keeps only RaftRootEntry, so
  `SysInfo` stays nil, and LoadSystemInfo (`pmdb.go:54-57`) dereferences it.  The
  HTTP server recovers from the panic, but the scrape ends: in the run's trace the
  running PMDB itself goes unreported.  (So does every endpoint that Go's map
  order puts after it; the shortest trace needs none.)
* **start_hang.**  The goroutine in `main.go:171-178` receives from the channel
  it has just sent to; when main is late it takes its own value.
* **own_port.**  `http_comms.go:137` skips a bind error and reports success.  When
  another process has the port, it answers the liveness probe, and main goes on to
  the gossip set-up without a service of its own.

### Bounds, and why they are enough

* One endpoint.  The code never lets one endpoint's handling depend on another
  but through `wmap`, `epc.mutex` and the order of events.  The theorems of
  section 5 hold for any number.  In Comms a reader goes from one endpoint to the
  next, and pmdb_metrics, where that matters, has two.
* `Cmd`: two uuids, since at most two commands are pending; `churn` has three,
  so that a third would be seen.  `answers` has one, which keeps the refinement
  small: without a free uuid a query waits, and what TypeOK and Lifecycle say
  does not depend on how many there are, as the theorems show.
* `Timeout` and `TTL`: 0 makes every tick matter; the runs about answers that
  come in time use 1, so that "in time" is not empty.
* `MaxWd`: watch descriptors; a directory needs a new one only after it was
  replaced, so the bound never keeps a goroutine waiting.
* `MaxEvents` = 1, the smallest queue, so that drops happen.
* `MaxEnv`, `Faults`: how many and which changes the environment makes.
* Symmetry in the command uuids is used in safety runs only.  The constraint
  OneAtATime is used only to reach a violation sooner: the behaviour it leaves
  is one of the full specification.
* Comms has no bound besides its endpoints: it has finitely many states.
* `Bounds`, `MaxCount`: the bounds of the buckets of a reported histogram and
  the greatest count in one.  MetricsLossless is about all histograms within
  them: four buckets with counts up to 2, so that a bucket is first, last, empty,
  or equal to another.
* `PortCount` = 4 (the code's 2^16): the four ports, with numbers one below and one beyond, give
  every order of start and end, the full range and the wraps; gossip files
  have up to three texts, which is what a repetition that is not adjacent needs,
  out of four: two ways to write one IP, another IP, and one that is no address.
* `MaxRuns`, `MaxOther`: starts of the lookout, and times another process takes
  the port.

Deadlock is checked in the `Lookout` runs, whose only end is the exit of the
process (Halted), and in the `Comms` runs, where Serf never stops.  The `Startup` runs do not check it: they end, as they should,
in the monitoring loop or in an exit.

### Fairness

FairSpec asks strong fairness of the three goroutines and weak fairness of the
clock.  The Go
scheduler runs every goroutine that can run, and `sync.Mutex` hands a lock over
to a waiter that has starved for a millisecond, so a goroutine that finds the
mutex free again and again gets it in the end.  Nothing is assumed of the
monitored processes.  ResponsiveSpec, used where the property is about processes
that answer, adds that a running process builds its directory and answers the
commands it finds, and `Prompt` that it does so within the timeout.  In Startup
every goroutine is weakly fair.  In Comms an operation that has begun and a
change that is decided end (weak fairness); SetTags, a loop with a sleep of ten
seconds, gets `epc.mutex` in the end (strong fairness).  Of Serf PeersConverge
assumes that it does not refuse the tags for ever, and that it brings them to
the other lookout in the end; without the first the status at the other lookout
may stay wrong, and the code only logs it.

## 4. What a property would break on

Each property of a passing run has a mutant in `PROJECT.json`: a plausible slip
in the code (a queue limit taken from the unused constant maxPendingCmdsEP, a
command not deleted when it is handed out, a generation test off by one, a
forgotten entry in `wmap`, an inverted test of the error, CleanEPs taking down a
running endpoint for its generation, SetCtlIfOut's stores in another order, a
query without the mutex, a status that is only written when it is running, a
loop over the buckets that ends early, a range without its end) under which TLC finds
the property violated.

## 5. Proofs

Checked with TLAPS, for every value of the constants that satisfies the
assumptions of the modules: NcsiEPAssumption and LookoutAssumption (types, `NoEP`
and `NoCmd` fresh, `Timeout <= TTL`, which in the code is 60 s against 5
minutes), CommsAssumption (`None` is no endpoint, every endpoint runs a known
application), ReportAssumption (the bounds of a histogram are finitely many
naturals) and StartupAssumption (bounds and PortCount are positive, a gossip file
that can be read has a line of texts, at least one, each in the domain of
ParseIP, and a line of integers).

| theorem | says | inductive invariant |
|---|---|---|
| LookoutProofs!TypeInvariant, TypeCorrect | Spec => []TypeOK | TypeInv |
| CleanProofs!PendingIsBounded | Spec => []PendingBounded | TypeInv, PendInv |
| CleanProofs!AnswersActedOnOnce | Spec => []AnsweredOnce | TypeInv, LiveInv |
| ControlProofs!ControlInvariant | Spec => []ControlInv | TypeInv, ControlInv |
| LifecycleProofs!LifecycleImplemented | Spec => ImplementsLifecycle | TypeInv, ControlInv |
| CleanProofs!RemovalInvariant | Spec => []RemovalInv | TypeInv, ControlInv, RemovalInv |
| CleanProofs!NoEndpointRemovedFalsely | Spec => NoFalseRemoval | the same |
| WatchProofs!WatchInvariant, WatchTableConsistent | Spec => []WatchTable | TypeInv, WatchInv |
| WatchProofs!EpWatchRemoveNeverFails | Spec => []WatchRemoveSafe | TypeInv, ControlInv, WatchInv, RemoveInv |
| WatchProofs!AssertNeedsOverlap | Spec and []~Overlap => []NeverWatchAssert | TypeInv, ControlInv, AssertInv |
| CommsProofs!CommsInvariant, CommsTypeCorrect | Spec => []TypeOK | CommsInv |
| CommsProofs!CoreIsLifecycle | Spec => LcSpec: what the readers see of the core is a behaviour of the Lifecycle that Lookout implements | CommsInv |
| CommsProofs!RepliesShowState | Spec => []ReplyState | CommsInv |
| CommsProofs!NisdNeverPanics, DoneScrapeIsComplete | what a scrape may rely on, for any mix of applications | CommsInv |
| CommsProofs!NisdScrapeSurvives, NisdScrapeReportsAll | Spec => []ScrapeSurvives, Spec => []AllActiveReported, where every endpoint is a NISD | CommsInv |
| CommsProofs!ReportsAreLossless | Spec => []MetricsLossless | Lossless, a lemma about GenericPromDataParser |
| CommsProofs!PmdbNeverReported | no scrape reports a PMDB | CommsInv, PmdbInv |
| StartupProofs!StartInvariant, TypeCorrect | Spec => []TypeOK | IInv |
| StartupProofs!ListenErrorIsFatal | Spec => []ListenErrorStops | IInv |
| StartupProofs!TagsSetAfterSerf | Spec => []TagsNeedSerf | IInv |
| StartupProofs!PortRangeCorrect | Spec => []PortRangeRight | IInv, MakeRangeRight |
| StartupProofs!NodeList | Spec => []NodeListInOrder | IInv, DuplicatesRemoved |
| StartupProofs!OwnPortUnlessTaken | Spec => [](others = 0 => ServesOwnPort) | IInv, PortInv |

* **TypeInv.**  TypeOK alone is not inductive: `ep[th[t].ep]` is only meaningful
  where the goroutine has an endpoint.  ThreadOK says which locals are set at
  which program counter, and FilesOK that a command with a file has an endpoint.
* **PendInv.**  "At most two" is not inductive, since a goroutine past
  mayQueueCmd may add to two.  The invariant counts those goroutines: if both
  the monitor and the inotify goroutine are past the test the map is empty, if
  one is it holds at most one command, and the lsof goroutine never is.
* **LiveInv.**  Every pending command was submitted to this endpoint and neither
  completed nor flushed.  It holds because flushing and completing delete under
  `ep.Mutex`, and a new uuid is not one in use.
* **ControlInv** says what is implicit in the code's structure and everything
  below needs: at which program counters each goroutine holds `epc.mutex`
  (ThreadCtl), with which targets it may be in ChangeState and where it returns
  to (AddEp with init, or with the State of its first look); that a goroutine
  only works on endpoints that are in `epMap`, which keeps them (Known); that the
  monitor, about to write `down`, does not meet an endpoint that is being removed
  (DownFromWatched); and that what AddEp has looked at is still State, or State
  was written by Complete, which never writes removing (LooksAgree).
* **LifecycleImplemented** goes step by step (NextRefines): a call of
  ChangeState by the holder of `epc.mutex` is Reappears, LosesTouch or Vanishes,
  AddEp's first look is Looks, a call of ChangeState by Complete is Identified or Answered, the assignment of State is Finish,
  and every other step leaves state, App and both goals alone.  What makes a step
  belong to one abstract writer is ControlInv: while a goroutine is inside
  ChangeState the lock neither comes to it nor leaves it.
* **RemovalInv** ties the ghost `up` to `lag`: an endpoint that was there since a
  scan began and is not still awaited by it has lag 0, one that was there for
  two scans has at most 1; and while the monitor is on its way from
  LsofGenIsStale to the assignment of State the endpoint it removes is not one
  of those, because `epc.mutex` keeps a scan from getting past it.  NoFalseRemoval
  is an action property: it follows from the invariant at the step that writes
  `removing`.  It is about CleanEPs, that is about the monitor's steps under
  `epc.mutex`: AddEp may put back a `removing` that it read before an answer came.
* **WatchInv.**  When no directory is replaced: kernel watches of different
  directories are different and older than the next one (KernelInv), and `wmap`
  and `wid` are inverse to each other and name a kernel watch (TableInv).
  `ep.wid` is read outside `inotify.mutex`; what carries the proof is the test
  of `wmap[wid]` inside it.
* **RemoveInv.**  EpWatchRemove's two FATALs are out of reach because a watched
  endpoint has a descriptor, except between the removal of the watch and the
  reset of `watched`; and because no goroutine has just added a watch while
  another is about to remove one.  With the re-reads of AddEp each of the three
  goroutines may be the one that removes a watch, but only the holder of
  `epc.mutex` (RemoverHolds): Complete's own targets are watched states.
  Complete may be in ChangeState at the same time: the proof rests on who may set
  `watched`, and when.
* **AssertInv.**  watch_assert shows that ensureWatchedState's FATAL is reachable;
  AssertNeedsOverlap says that two goroutines in ChangeState for one endpoint at
  once (Overlap) are the only way there.  Behaviours without an overlap are still
  those of three goroutines with all their calls, so what a lock over ChangeState
  would have to exclude is exactly that.  `watched` and State agree except between
  their assignments, where `watched` agrees with the state to come.  Faults do not
  matter: the theorem has no condition on them.
* **CommsInv** has three parts.  About the core, which no reader disturbs: a
  NISD's SysInfo is there only with niorq and the root entry, since
  NisdSetCtlIfOut stores it last (NisdFillInv, SysInfoLast), and an endpoint that
  has taken an answer has it (ReadyHolds).  About a scrape: every steady endpoint
  is reported, to come, or the one it is at (ScrapeCovers), and what the rest of
  Parse takes from a NISD is there unless its App was replaced (ScrapeReads).
  About a reply: while JsonMarshal holds `epc.mutex` the container has nothing
  under way and Complete writes only identified and running (ReplyInv,
  CompleteAims).  That the endpoints are NISDs is a hypothesis of two theorems
  and not an assumption: with a PMDB the properties are false (pmdb_metrics), and
  an NCLIENT whose SysInfo has not arrived makes a scrape panic too.
* **IInv of Startup.**  The value in `errs` is the one ServeHttp returned, so
  main gets past the channel only with "nil", whoever receives; Serf is asked
  again only while attempts are left; and a start that has not written the target
  file leaves room for its line.  MakeRangeRight proves makeRange right in
  arithmetic modulo PortCount, for any two ports.

* **PmdbInv.**  pmdb_metrics shows one scrape that a running PMDB cuts short; in
  general no scrape ever reports a PMDB.  Its SetCtlIfOut never takes over
  SysInfo and a new App has none, so LoadSystemInfo never returns its labels.
* **PortInv.**  The same for own_port: without another process on the port,
  whoever answers the liveness probe is this process, so a main that goes on owns
  the port.  The disagreement is about that process alone, not about restarts or
  the order of ServeHttp and main.

**Folds and reports** (FoldLemmas).  removeDuplicateStr is a fold over a list and
a histogram's count is a fold over its buckets; the community modules define both
by recursion over data.  The library's induction theorems have an operator as
parameter, which no installed prover can instantiate.  What is needed of
induction is therefore proved in first-order form: NatInduct from the least
element of a set of naturals, SubsetInduct from the well-foundedness of strict
inclusion on finite sets, both about a set of the data instead of an operator.
FoldExists and TotalExists say that the recursive function by which the fold is
defined exists, that is, satisfies its own equation.

* *NodeList.*  DuplicatesFold gives removeDuplicateStr's list after each prefix
  of the file's; by induction it has the texts of the prefix, ordered by their
  first place (DuplicatesRemoved); the entries of the node list are what they
  parse to.  Nothing is said of ParseIP: two texts of one IP are two entries.
* *ReportsAreLossless.*  The bounds of the buckets that are not empty can be put
  in ascending order (AscendingExists, AscendingOrder); the count is the sum of
  all buckets, because a sum does not depend on the order it is taken in
  (TotalSplit) and the discarded buckets are zero (CountIsSum); and the samples
  of the three fields are told apart by their names (Lossless).

Each inductive invariant was checked with TLC, as an invariant of the instances
above, before it was proved.

Only model-checked are the liveness properties (PollsResume,
DeadEndpointRemoved, RespondingIsRunning, WaitingMainProceeds, PeersConverge),
which rest on fairness and are out of TLAPS's reach.  The properties that are
expected to be violated are what TLC refutes.

## 6. Not modelled

* LookoutsHandler and JsonMarshalUUID: they copy what they find.
* The request to PMDB and the UDP reply of getConfigNSend, the text of tags,
  replies and reports, LO-Time: data that change no state of the program.
* Tasks, chunks, buffer sets and merges of an answer, which reports only range
  over; answers of a NISD or a client that leave out sections.
* More than one peer: entries of Lookouts are independent of each other.
* Command-line parsing, logging, type declarations.
* endpoint fields that are only shown (names, port; EPInfo is Comms' `obj`).
* A torn read of the two-word interface value `ep.App`, and the interleavings
  inside ChangeState's tests, which are taken as one step.

## 7. Plan

1. Every safety property of a passing run is proved, and for three of the
   violated ones what the violation needs (AssertNeedsOverlap, OwnPortUnlessTaken)
   or how general it is (PmdbNeverReported).  What could follow: what a scrape meets of an NCLIENT that
   has taken its first answer.
2. What remains without a property is listed, with the reason, under "hazards" in
   `PROJECT.json`.
