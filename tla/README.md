# OmniFocus-CLI in TLA+

OmniFocus-CLI reads and writes an OmniFocus database over WebDAV. The database
is a *bundle*: a directory with one baseline ZIP, delta ZIPs that form a DAG
(each names the tails it is attached to and the tail it produces) and one
`.client` file per device that advertises how far that device has read.
OmniFocus itself, on other devices, writes to the same directory. There is no
lock and no server logic: everything the program promises rests on file names
and on the order in which it reads and writes them. On top of that, a service
behind HTTP and MCP servers and a command line read the merged model, check a
request against it, and write whole objects back. Both layers are modelled
here: the bundle with its deltas as opaque transactions, and the transactions
with their contents as they are published one after the other.

## Inventory

| Component | State | Operations | Interacts with | What makes it correct |
|---|---|---|---|---|
| `sync/protocol.py` | none | parse and sort a listing | graph, store | names and order round-trip |
| `sync/graph.py` | none (stacks of one call) | frontier, selection, topological order | store | exactly the deltas of the frontier, parents first, on any graph |
| `store.py` | model cache, writer state, writer identity files | `load`, 13 mutating methods | WebDAV, parser, writer, every transport | no lost write, no torn read, faithful cache, stable identity |
| `sync/webdav.py` | connection | PROPFIND, GET, PUT with retries | server | a retry changes nothing |
| `sync/client_state.py` | none | `.client` documents | store | advertises only what exists |
| `writer.py` | none (one plan) | transaction elements, delta chains, XML | store | a chain is rooted, ordered, complete; what is rendered is read back |
| `parser.py` | element index of one call | merge transactions into a model | store | an update keeps what it does not mention; a skeleton is not shown |
| `api_service.py`, `api_common.py` | none | read, check, write; review queue | store, transports | no hierarchy cycle, inbox and project apart, done is dated |
| `http_api.py` | failure buckets | REST, middlewares, auth limiter, time-outs | API service | the window limits, only the right client, and not for ever |
| `mcp_server.py`, `mcp_http.py`, `launcher.py` | none | tools | API service | same requests, same answers |
| `cli.py` | none | commands with checks of their own | store | agrees with the service |
| `review.py` | none | intervals, review state, marking | API service | calendar arithmetic, what was just reviewed is not due |
| `recurrence.py` | none | repetition tokens | writer | not modelled |
| `crypto/` | none | bundle encryption | store | not modelled |
| `formatting.py` | none | trees and tables | CLI, MCP | every object is shown once |
| `dateparse.py`, `fuzzy.py` | none | typed dates, queries | CLI | a word for a day is never past |

Hard behaviours: several processes and requests share one cache directory and
one bundle; every `await` is a place where another writer, the app or a
cancellation gets in; the listing a call works from ages while it works; a
write is many PUTs; there are crashes between any two of them; files carry
time stamps of one second, some of them in the future. A request holds a model
from its load to its last delta; a new task is several deltas; deltas replace,
update and delete elements, and the reader's rules for repeated tags, empty
children and missing names are subtle.

## Modules

| Module | What it models |
|---|---|
| `BundleGraph` | What `graph.py` should answer: reachability, frontier and selection as closures over a listing; the order of file names. No state. |
| `GraphWalk` | What `graph.py` does: its three depth-first loops and its search with an explicit stack, one action per branch of an iteration, over arbitrary listings. |
| `SyncStore` | `OFocusStore`: `load()` and the common path of the mutating methods, by any number of processes against a bundle that OmniFocus also writes. |
| `TxLog` | What the store promises, abstractly: one log of transactions that only grows, callers that work from the log of one instant, and acknowledged writes that are in it. |
| `SyncLog` | `SyncStore` with the model of the bundle kept in a history variable `log`, and the statement that it implements `TxLog`. |
| `WriterIdentity` | The two files that keep the client identity, their non-atomic saves, and the writers that use them. |
| `Elements` | The elements of a transaction, and what `parser.py` makes of them: index, merge, model. No state. |
| `Plans` | The deltas `writer.py` publishes for each operation. No state. |
| `Views` | The folder tree of `formatting.py` and the lists beside it. No state. |
| `Entities` | Every mutating request of `api_service.py`: its checks against a loaded model, its deltas, others in between, stops. |
| `Commands` | The same for `cli.py`, beside the service, on the same bundle; the properties of both. |
| `Hierarchy` | What folders and tags promise, abstractly: moves that look at the forest as it is. |
| `AuthLimiter` | The middlewares of `http_api.py` that refuse requests, and the sliding window of failed authentications. |
| `Calendar` | Dates, `_add_months`, and the typed dates of `dateparse.py`. No state. |
| `Review` | Review intervals and dates, marking, and the review queue. |
| `MCSyncStore`, `MCSyncLog`, `MCGraphWalk`, `MCCommands`, `MCReview` | Small instances for TLC. |
| `BundleGraph_proofs` | Lemmas about the closures of `BundleGraph`: what they contain, and how they change with the bundle. |
| `SyncStore_proofs` | Theorems about `SyncStore`, and that it implements `TxLog`. |
| `GraphWalk_proofs` | Theorems about `GraphWalk`: the loops answer what `BundleGraph` says. |
| `Commands_proofs` | Theorems about `Entities` and `Commands`, and that folders and tags implement `Hierarchy`. |
| `Review_proofs` | Theorems about `Calendar` and `Review`. |
| `WriterIdentity_proofs`, `AuthLimiter_proofs`, `Hierarchy_proofs` | Theorems about the modules they are named after. |

Definitions marked `Mutant` are wrong versions of the definition below them.
Nothing uses them: substituting one for its neighbour must break the property
that `PROJECT.json` names, which shows that the property depends on that code.

### SyncStore and the code

A process is one CLI command, tool call or HTTP request. Its `pc` says at which
await it stands.

| Action | Code |
|---|---|
| `Load`, `ForcedLoad` | `load()` up to the listing; with and without `force_refresh` |
| `ReturnCached`, `MissCache` | the fingerprint test |
| `FetchClient` | `_load_remote_client_documents`, one file; three 404s skip the file |
| `FetchBaseline`, `FailBaseline` | frontier and selection, then GET of the baseline, or the exceptions of the two |
| `FetchDelta`, `FailDelta` | one GET of `_sync_and_build`, or its 404 |
| `SaveModel` | parse, save the cache under the names of the listing, return |
| `Write`, `CheckBaseline` | `_prepare_writer` up to the client files |
| `PlanWrite` | accepted tail, writer state and the `WritePlan`, all without an await |
| `PutDelta`, `PutClient`, `FinishDelta` | `_upload_transaction`: two PUTs, then the cache is dropped |
| `Fail` | any await raises or is cancelled, or the process is killed |
| `AppPush`, `AppAdvertise`, `AppCompact`, `AppSweep` | OmniFocus, external |
| `Tick` | a second passes |

A transaction is identified with the tail it produces and a model with the set
of transactions it was built from, so that a lost or torn write is a missing
element. Delta files are immutable (their names contain 64 random bits); a
`.client` file is overwritten by one of the same second and client.

The app is not in this repository. It is modelled as the code in `src/` assumes
it: it adds deltas that merge parts of the frontier, it registers the frontier
it has seen, and it folds into the baseline what *every* registered client has
advertised. `Compaction` says when: `"never"`, `"quiescent"` (no write of ours
is under way), or `"anytime"`.

A GET of the file a process listed returns the contents as of the GET. What
`got` holds is the baseline's set of transactions at that moment; the listing's
baseline is compared with the one on the server because a new baseline has a
new name.

### SyncLog and TxLog

`TxLog` has three steps: a transaction takes effect (`Commit`), a call begins
(`Ask`), a call ends (`Reply`). Under `SyncLog` the log is what a load of the
bundle as it stands would return, `CurrentView`; `Commit` is then `PutDelta` or
the PUT of the app, `Ask` the listing, `Reply` the end of a call, and all else
(forks, merges, advertisements, baselines, sweeps, the cache) must stutter.
What a caller reads is tied to `asOf` by `LoadIsSnapshot`, which says that a
load returns the log of its listing. `log` is a history variable, it never
restricts a step; it is there because TLC evaluates a primed `CurrentView` many
times per step.

### WriterIdentity and the code

`TruncateState`/`FillState` and `TruncateIdentity`/`FillIdentity` split the
`write_text` calls of `_save_writer_state`, which truncate and then fill. A file
that is absent or does not parse is `NoId`. `Crashes = "spaced"` allows a crash
or a deleted state file, and another one only after a save was completed in
between. The variables `OF_CLIENT_ID` and friends override the identity and are
not modelled.

### GraphWalk and the code

`walk` names the loop that runs, `stack` is its stack, `onPath`, `selected`,
`memo` and `visited` are the code's own. `resolve` goes on to `sort`, as
`transaction_filenames_for_frontier` does. In `sort` a frame is a pair, as in
the code.

### Elements, Plans, Entities, Commands and the code

An element is a record of its kind, id, `op` attribute and body, which gives
for each tag the values of the children with that tag, in their order (the
order of children with different tags makes no difference to a reader).
`Elements` is `parser.py` from `_index_elements` to the
builders: deletions, the old way to delete by omitting the name, updates and
references merged through a dictionary by tag, `<project>` merged one level
deep, a task's project found on the way up. `Plans` is `writer.py` down to
the children each builder renders. Of the many scalar fields that are rendered,
merged and read alike, `note` and `due` stand for all.

A request is one action, `AddTask` for `add_task` and so on: the load, the
checks, the object that is built, all without a write. It leaves a plan in
`call`, whose deltas `Publish` puts out one by one; `Abandon` drops the rest
(an upload failed, the server's time-out struck, the process ended). A request
that is refused changes nothing and is no step. `model` is what a reader makes
of `index` after each delta.

**The order of application.** That the model has every delta is the matter of
`SyncStore` and `SyncLog`; in which order they are applied, of `GraphWalk`: a
depth-first walk over the deltas by name, which begins with a date to the second,
parents first. Two deltas commute unless they are about one object. A delta is
dated when its call begins to write, except that the second to last of a new
task are dated a second later each, ahead of the clock, and are uploaded when
their turn comes. So deltas that are not part of an addition are applied in the
order they were published, and so are those of one addition; between the two
sorts the order is open where one does not descend from the other. A write is
attached to one tail only, the first of the frontier (`store.py:798`), so once
two writes overlapped a later delta need not descend from an earlier one.
`forked` says that two writes overlapped. `log` holds, per task that was added,
its deltas as readers apply them. A publication takes the last place
(`AppliedLast`), or, if the bundle may have forked, any earlier one behind the
skeleton that keeps the order of each sort and stays behind deltas it descends
from (`AppliedEarlier`, `EarlierPlaces`); `index` is then what the deltas make in
that order (`Reread`). `forked` is set whenever another call has deltas to
publish, also when that call turns out to be attached in one line, and it is
never reset by a merge of the app: the model has more orders than the code.
Left out are names given within one second, which sort by random identifiers, and
clocks of several machines that disagree: these are the cases in which single
deltas too, those on folders and tags among them, may be applied against the order
of their publication.

| Actions | Code |
|---|---|
| `AddTask`, `UpdateTask`, `CompleteTask`, `AddProject`, ... | the methods of `api_service.py`, which the HTTP routes and MCP tools call |
| `AddCmd`, `DoneCmd`, `TaskUpdateCmd`, ... | the commands of `cli.py`; `DoneCmd` is also the MCP tool `complete_task` |
| `Publish` | `_upload_transaction` of `store.py`, one delta, applied by `build_model` at its place in the order of `graph.py` |
| `Abandon` | an exception, a time-out, a cancellation |
| `AppEdit` | OmniFocus, external; it edits what is there |

`call[c].fresh` says whether anybody published an element of the same kind since
the load, and `tainted` collects the kinds that were written from a stale model:
history variables, in terms of which the properties say what holds always and
what only as long as nobody got in between. `Half` are the tasks whose `log` is
the skeleton alone.

Things the model shows that a reader of the code may not expect, beside the
findings below:

* A full snapshot overwrites what changed since the load, brings back an object
  that was deleted, and drops fields the program has no attribute for.
* An update of a task that was acknowledged and that nobody wrote after may be
  lost to readers. Two overlapping `add_task` calls fork the bundle; an update of
  one of the two tasks that follows within seconds is attached to one branch and
  dated now, while the last deltas of the other branch are dated ahead. If the
  task is the other branch's, its name and note as they were added are
  applied behind the update and overwrite it. So `PublishedAsPromised` and
  `PartialUpdateKept` are about deltas that readers apply last; without the
  condition TLC finds this. `HalfAddedHidden`, `InboxApart`, `DoneIsDated` and the
  rest hold in every order.
* `add_task` with `parent_task_id` set to a project, or to a task in one, does
  not look at the project's status; with `project_id` it does. Its docstring
  (`api_service.py:168`) speaks of projects that are not done or dropped.
* An update with an empty name removes the object from every reader's model, but
  not from the bundle. A folder without a name keeps its parent there, and the
  walk of `validate_folder_parent_change` ends at it. So a folder above it can
  be moved below it; if OmniFocus names it again they form a cycle, without any
  write from a stale model. The instance for TLC has no such request, the
  theorems about trees exclude it by a hypothesis (`NamesKept`).
* `update_task` ignores `inbox=False`.
* An update by the app with several tags keeps, of the new ones, only the last
  if there was a tag before, and of the old ones all but the last.
* The service dates a done project anew at each update; the command line only
  when `--status done` is passed. A project that is made active again keeps the
  date.
* Marking a project reviewed whose interval does not parse leaves a past
  `next_review` in place, so that it stays due; so does an interval of 0 days.
  A project that was never reviewed comes last among those that are due.

### Hierarchy

`Hierarchy` has a parent for each node and two steps: a node moves, goes or
appears such that the new parent is not below the node, or somebody works from
a stale model, after which nothing is promised. `Commands` with `up` taken from
its model's folders implements it, and so it does with its tags.

### AuthLimiter and the code

`RefuseHost` and `RefuseBody` are the middlewares before the limiter; `TooMany`,
`Fail`, `CompareRaises` and `Pass` the four ways through
`RateLimitedBearerAuthMiddleware`, in which nothing is
awaited between the look at the bucket and the record of the failure, so that
each is one step. The code keeps time stamps, the model ages; beyond the window
all ages are alike. `recent` is what the promise is about, kept without pruning:
the tries of a client that were answered 401 within the window since it was last
let in. The sweep of empty buckets changes no answer; an absent bucket is an
empty one.

`CompareRaises` is a token that is not all ASCII. `hmac.compare_digest`
(`http_api.py:902`) takes strings only if they are, and raises `TypeError`
otherwise; the request is answered 500 by the handler for unexpected errors and
`record_failure` is not called. Such tries are therefore not limited, although
`docs/http.md:23` says that "invalid Bearer attempts are rate-limited in-memory"
and `docs/http.md:286` gives 401 as the answer to a "missing or invalid bearer
token". `BoundedTries` is about tries that are answered 401.

### Calendar, Review and the code

Dates are days of the proleptic Gregorian calendar as `datetime` and `calendar`
count them; times of day are left out, so that "due now" is "due today".
`Review` takes the read and the write of `mark_project_reviewed` as one step
(`Entities` is about what gets in between), and sorts the queue as
`project_review_sort_key` does, with projects numbered in the order that breaks
ties.

## Runs

| Run | Question | Result |
|---|---|---|
| `SyncNever` | Two overlapping calls, chains of up to two deltas refreshed at the end, a clock that ticks, failures everywhere, no compaction: does every uploaded delta count, in order? | holds; 107,684 states |
| `SyncQuiescent` | Two overlapping calls, the client file refreshed after each delta, an app that pushes, merges, advertises, compacts and sweeps: are acknowledged writes visible, is the bundle loadable, are loads snapshots, is the cache faithful? | holds; 197,215 states |
| `SyncLog` | The same calls, the client file refreshed once per write: does all this look like one log that only grows (`TxLog`)? | holds; 141,488 states |
| `SyncStaleAdvert` | `SyncQuiescent`, but the app compacts at any time: is an advertised tail that counts as reachable really so? | violated, see below |
| `GraphWalk` | All listings of up to three deltas with up to two parents each, with cycles and missing parents: do the loops answer what `BundleGraph` says, and end? | holds; 585,405 states |
| `WalkByName` | Are deltas applied in file-name order? | violated, see below |
| `IdentitySerial` | One writer at a time, spaced crashes: one identity, always found again? | holds; 87,080 states |
| `IdentityConcurrent` | Two writers overlap, no crash: one identity? | violated, see below |
| `Entities` | Two callers, each at the service or the command line, two requests of any kind, one edit by the app, stops between any two deltas: is what was asked for what readers see, do half-made tasks stay hidden, are inbox and projects apart, is done dated, are folders and tags forests that are shown whole, in every order in which readers may apply what forked? | holds; 269,479 states |
| `FolderCycle` | Two folder moves at a time: is there never a cycle? | violated, see below |
| `AuthLimiter` | Two clients, all kinds of requests, a limit of 2 and a window of 3: does the window limit, only whom it should, and not for ever? | holds; 3,721 states |
| `Review` | Three projects with different intervals over the ends of months in leap years and others, one edit by the app: are dates right, is what was reviewed no longer due, is the queue in order? | holds; 26,594 states |

**Bounds.** `MaxCalls = 2` with two processes gives every overlap of two calls
and two calls in sequence. `MaxChain = 2` is the smallest chain with a middle,
in which a plan can be half uploaded. Three or four new tails are what two such
calls, or one and a push of the app, can issue. `MaxApp = 1` delta of the app
is enough for a fork and a merge, after which the app can still compact and
sweep. `MaxClock` is 0 or 1: within a second names collide and sort by
identifier, and chains are dated ahead anyway. `IssuedInOrder` numbers
identifiers in the order of their issue: without it every run would repeat
under each renaming of tails. It fixes how names of the same second sort; the
other order arises from chains dated ahead. In `GraphWalk` three deltas are the
smallest diamond, and the smallest graph with a cycle beside a path.
`IdentitySerial` has two writers, three identifiers, and two deltas per write,
so that a crash can hit each of the saves. In `Entities` two requests are what
a stale write needs: one to load, one to get in between; they also make one
sequence of two. The baseline has a chain of two folders and one beside it, two
tags, a project and two tasks, one of them in the inbox, so that each kind can
be moved, filled, emptied and closed; callers are interchangeable and declared
so. An update of a new task before the task's addition is done is made by the
app or the other caller, so that two requests and one edit also give the
orders of application that differ. In `AuthLimiter` a limit of two is the smallest with a failure in the
middle, a window of three leaves room for failures of different ages. `Review`
looks at five days, of which each has a month behind or ahead of it that is
shorter, and at intervals in all units. Deadlock is not checked in these runs
but `AuthLimiter`, whose clients never cease: with calls, pushes, requests and
seconds bounded, or at the last of the days, the system may stop.

**Fairness.** `GraphWalk` assumes weak fairness of its next step: a loop runs
within one call without an await, so nothing can hold it up, and `WalkEnds` is
termination. `AuthLimiter` assumes weak fairness of `Tick`: time passes whatever
clients do; `EventuallyFree` needs nothing else, in particular no pause of the
client. `SyncStore`, `WriterIdentity`, `Commands` and `Review` assume none and
state no liveness: a call may be abandoned at any await, and nobody has to ask.

## Findings

1. `tail_reachable_from_baseline` (`sync/graph.py:182`) answers `True` for every
   tail when the listing has no deltas, although its docstring says "Return
   whether *tail_id* can be walked back to the baseline tail." A write that is
   under way while the app folds all deltas advertises, in its `.client` file,
   the tail it was attached to. Once its own delta is folded or removed too, or
   if the advertised tail is a folded one, the tail is taken as frontier:
   loading raises, and the next write is attached to a tail that is gone.
   (`SyncStaleAdvert`.)
2. `_prepare_writer` (`store.py:795`) reads the identity files, awaits the
   network and then saves what it chose. The changelog says that "the same cache
   directory reuses the same OmniFocus registered client identity across
   restarts and repairs"; two first writes that overlap register two.
   (`IdentityConcurrent`.) One writer at a time, two crashes without a completed
   save between them also lose the identity; that is outside the runs that pass.
3. `build_model` (`parser.py:515`) asks its callers to sort transactions by
   file name. They are in DAG order, which differs as soon as a delta is attached to
   one dated ahead of the clock, as the later deltas of `add_task` are.
   `ChronologicalIfDated` shows that this is the only way they differ. DAG
   order is the right one, the comment is not. (`WalkByName`.)
4. `validate_folder_parent_change` (`api_common.py:166`) walks the folders of the
   model its request loaded; the write comes some awaits later and nothing looks
   again. `docs/http.md:404` says that "folder and tag moves validate parent
   existence, self-parenting, and cycles". Two moves at a time, A into B and B
   into A, are both accepted; both folders then vanish from the tree, with all
   that is in them. (`FolderCycle`.) `FolderTreeSpec` shows that a stale write is
   the only way.

## Proofs

All checked by TLAPS, for every value of the constants (numbers of processes,
callers, tails, clients and deltas per plan, listings and frontiers, arguments
and edits, limit and window, nodes of a forest, days and intervals), from the
named assumptions of the modules, which the instances of the runs satisfy:

| Assumption | What it says |
|---|---|
| `ConstantsOK`, `IdentityOK`, `LimiterAssumption` | bounds are numbers, special values are apart |
| `ListingsAssumption`, `FrontiersAssumption` | a name has a tail and a sequence of parents, a frontier is a sequence of tails; no two deltas of a listing have the same tail. Cycles and missing parents are allowed |
| `CallersAssumption`, `IdAssumption` | a caller is somebody; `generate_id` returns what was not in use |
| `BaselineAssumption`, `AppAssumption` | what OmniFocus has written or writes is sound: inbox and container exclude each other, done is dated, and a partial update says enough to keep this so |
| `ArgsAssumption` | what is passed as tags is a list, and a flag of a new task is a truth value, as the servers' schemas and the options of `cli.py` have it |
| `IntervalsAssumption`, `DaysAssumption`, `EditsAssumption` | intervals are not negative, each project has one; days are dates, and before the date that stands for none |

### The bundle: `BundleGraph_proofs` and `SyncStore_proofs`

* `TypeCorrect`: `[]TypeOK`. Not inductive as it stands: `TypeInv` adds that a
  process is inside its plan while it uploads it (`PlanInRange`). Lemmas show
  that every frontier consists of tails (`FrontierType`) and every view of
  transactions (`ViewType`).
* `ParentsAreFirst`, `AdvertsAreUploaded`, in every compaction mode. `OrderInv`
  says of each place that can name a tail (the server's files, the listings and
  client files a process holds, its accepted tail, its plan) that what it names
  was uploaded once, or comes later in the same plan. Uploaded is *in the
  listing or folded*, which only grows.
* `CacheIsFaithful`, `LoadsAreSnapshots`, in every compaction mode. A load reads
  its files one by one and may miss some `.client` files, so why does it return
  the model of one instant? Because the model does not depend on them.
  `Topped` says that whatever is attached to a delta that leads to the baseline
  leads there too; then all sinks together select every such delta
  (`ReachableTailsAre`), and any frontier with them does (`ToppedSelects`). Each
  step of a writer or of the app keeps the bundle `Topped` (`ToppedGrows`,
  `ToppedSwept`, `ToppedCompacted`); this is `BundleInv`. `SnapInv` says that
  there is a table of what each baseline, by the number of its snapshot,
  contains, and that every listing in the hands of a process, and the one behind
  the cache, was `Topped` and has the model the table gives. Equal fingerprints
  are then equal models (`SameNames`), although a `.client` file may have been
  overwritten under its name.
* `NothingLost`, `AckedNeverLost`, `NeverStuck` and the refinement `StoreIsLog`
  (`LogSpec => ImplementsLog`), under the hypothesis `Compaction # "anytime"`:
  the app compacts only while no write of ours is under way, or never. Without
  it they are false, which is finding 1. `QuietInv` says that what a writer has
  in its hands (its accepted tail, the deltas it has uploaded, the listing it
  works from) and what `.client` files advertise still leads to the baseline,
  and that no delta outside the baseline has been cut off. The log is then
  exactly the set of uploaded tails (`ViewIsUploads`); a PUT adds a fresh tail
  (`FreshInv`), hence is a `Commit`; the listing is an `Ask`; a call that ends is
  a `Reply`, whose tails are in the log by `AckedInv`; a compaction moves tails
  from deltas to the baseline and stutters.
* No induction over the DAG is needed anywhere: closures are intersections of
  closed sets, so each lemma exhibits a closed set.

### The walks: `GraphWalk_proofs`

`ResolvesRight`, `ParentsApplied`, `AppliedInOrder` and `AnswersAreRight`: the
loops of `graph.py` answer, on every listing and from every frontier, what the
closures of `BundleGraph` say. `SyncStore` calls those closures where the code
runs the loops, so this is what entitles it to. They follow from `WalksKeep`, the
invariant `Inv`, which has a part for each loop.

* `Path` is about the stack of the walks that enter and leave a tail (`resolve`
  and `reach`). A tail under way has each parent settled, waiting above it on the
  stack, or, for `reach`, on the path to it; and whatever is above it was met
  walking up from it. Hence to meet a tail of the path again is to have found a
  real cycle, and to leave a tail is to know all of its parents. The same delta
  may be on the stack several times, which is why this is said of positions.
* `ResolveInv`: what is selected is closed under parents and acyclic, so that a
  walk that ends has selected exactly `Selected`, and one that raises has
  met a tail that is missing or closes a cycle.
* `Frames` and `SortInv`: a frame that waits for its parents has each of them
  emitted or above it. If no delta is named before its parent, one root is
  under way at a time (`RootInv`): all its parents come before it in the order
  of names, were roots before, and are emitted. So the order in
  which deltas are emitted is that of their names (`DatedInv`).
* `ReachInv`: the remembered answers are right, in the middle of a cycle too. An
  answer is remembered only when a tail is left, by then its parents have
  answers or are on the path, and a tail on a cycle is not walkable
  (`WalkableIsAcyclic`). `DependInv`: what was looked at or waits for it
  consists of ancestors, and is closed but for what waits.

### The contents: `Commands_proofs` and `Hierarchy_proofs`

* `TypeCorrect`, `HalfAddedIsHidden`, `InboxStaysApart`, `DoneStaysDated`. The
  properties are about the model, the deltas write the index, and a caller holds
  deltas made from a model of another time. `Inv` therefore says of every index
  entry, and of every element that is yet to be published, that it is sound by
  itself (`SoundTask`, `SoundGroup`): it depends on no other element, so that any
  order of application keeps it. Partial updates are why this is not obvious: they
  merge with what is there, so they must say enough (`SoundElement`). The same is
  said of the deltas in `log` (`SoundLog`): a delta that is applied earlier makes
  readers begin again at the skeleton, and each delta from there on keeps its task
  sound (`RereadEffect`). A task that is half made has no name in the index
  (`HalfNameless`), and what names it, its second delta, ends its being half made.
* `UpdatesKeepTheRest` (`Spec => PartialUpdateKept`). What an update does not
  name stays, although the reader merges by tag, several children may bear one
  tag, `<project>` is merged one level deep and an empty one is not merged at
  all. `MergedValue`, `KeptValue` and `KeptNested` say what the merge makes of
  one child, `TakenTags` of a list of tags; that the last new tag is taken needs
  lists of tags to be sequences and their empty children to be left out
  (`FilledEffect`). A task's project is not written in the task but
  found by walking up its parents: `KeptProject` says that a task that keeps its
  parent, and is no project before or after, keeps the project it is in.
* `WritesAreReadBack` (`Spec => PublishedAsPromised`): what was asked for is what
  readers see. Three arguments meet.
  *Rendered is read back*: `TaskRead`, `ProjectRead`, `FolderRead` and `TagRead`
  say that the builders of `parser.py` undo those of `writer.py`, although absent
  values are not rendered, empty tags and empty values are skipped, and defaults
  are filled in.
  *A plan leads somewhere*: `Leads(f, plan, g)` says that publishing `plan` one
  delta after the other takes the objects of a kind from `f` to `g`. For a new task
  these are up to five deltas, of which the later ones are merged into the
  skeleton (`NewTaskLeads`); what is left of a plan after a delta leads to the
  same end (`LeadsRest`).
  *The project is where the task says it is*: a task's project is what a walk up
  the bundle finds, the service computes it from its model. `ResolvesBelow`,
  `ResolvesToParent`, `RootResolves` and `ResolvesAlike` say that the two agree
  for a task that is new, moved, taken out, or left where it is, in
  any bundle, with tasks that hang in a circle too. A new task needs an
  id that nothing in the bundle names yet.
  The invariant `KeepsPromises` says of every caller that is fresh that what is
  left of its plan leads to objects of which readers see its own as it was asked
  for, and that ids yet to be given out are in no delta. A publication of the
  same kind by another caller ends the freshness, one of another kind
  changes nothing of it. Of the deltas of a task that is being added by a fresh
  caller it says that they are all of the addition (`Alone`), so that the
  next one has no earlier place to go. No such thing is true of a caller that is
  stale.
* `FoldersAreAForest`, `TagsAreAForest`: `Spec => FolderTreeSpec` and
  `TagTreeSpec`, under the hypothesis `Orderly` for the kind. It says that the
  baseline is a forest, that the app does not rearrange it, and that nobody takes
  the name of an object that keeps its parent (see above). `TreeInv` says
  that, as long as a caller's model is fresh, the parent it is about to write
  lies in a set closed under parents that the object is not in (`Free`), which is
  what a walk up the tree that ends establishes (`LeadsOutIsFree`). A publication
  of another caller of the same kind ends the freshness.
* `ForestStaysForest` (`Hierarchy_proofs`): a cycle is a set of nodes each of which
  has its parent in the set; a step whose moved nodes hang from above leaves no
  such set. `NoFolderCycle` brings it back to folders: without a write from a
  stale model there is no cycle, so that the cause `FolderCycle` shows is the only
  one. `AllIsShown` (`[]TreeShowsAll`) follows: the walk up from any folder ends
  at a root, hence its place in the tree is reached from above.

### Dates: `Review_proofs`

* `AddMonthsIsExact`: the month so many months on, the same day or the last one,
  and a real date. `AddDaysIsExact`: `AddDays` is a recursion day by day, the
  theorem relates it to the number of a day in the calendar, which is arithmetic.
* `TypeCorrect`, `MarkedGoesAway`, `MonthsAreKept`, `TypedIsAhead`, from the two.
* `UrgentComesFirst` (`[]UrgentFirst`). The queue is the sequence of the listed
  projects that is in order; `ComesBefore` orders any two projects one way
  (ties are broken by number), so that each has a rank, and the place of
  a project in the queue is its rank. A project that is due comes before all that
  are not; hence the queue of what is due is the beginning of the queue of all, and cut off
  anywhere it holds the most urgent ones. That there is such a sequence
  (`CanBeSorted`) follows because the ranks are as many as the members, so that
  every place is the rank of exactly one of them.

### The rest

* `WriterIdentity_proofs`: `TypeCorrect`; and, with one writer at a time and
  spaced crashes, `SerialOneIdentity` and `SerialRemembered`. `SerialInv` says
  which of the two files holds the identity at each step of a save, and that at
  most one of them is ever damaged between two completed saves.
* `AuthLimiter_proofs`: `TypeCorrect`, `TriesAreBounded`, `LimitedHasTried`,
  `LimitedByOwn`. The limiter prunes from the front, only when asked, and up to
  the first age within the window; that this finds all of them rests on the
  ages being sorted. The invariant says so, and that what pruning would leave
  is at any time exactly `recent`, the tries answered 401; `TooMany` and
  `CompareRaises` only prune. Ageing keeps the order, and pruning after
  ageing is ageing and pruning what is left (lemmas about sequences).

Facts about recursive functions (`AddDays`, `Walk`, `Without`, `Filled`) are proved by the smallest
counterexample: that a function with the equations exists, and that it has the
property, each by taking the least index where it fails.

Only model-checked: liveness (`WalkEnds`, `EventuallyFree`), which the prover
has no rules for. Every invariant and every action property of a passing run is
also a theorem, and so are the three refinements.

## Plan

Done: the bundle (`BundleGraph`, `SyncStore`, `TxLog`, `SyncLog`, `GraphWalk`,
`WriterIdentity`), the contents (`Elements`, `Plans`, `Views`, `Entities`,
`Commands`, `Hierarchy`), the limiter (`AuthLimiter`), and the calendar
(`Calendar`, `Review`), with their proofs.

Next, in this order:

1. A weaker hypothesis than `Orderly` for `FoldersAreAForest`: an app that
   moves folders, as long as what it writes keeps the forest it sees.
2. The other ways a project's contents are listed (tag and project trees), and
   the repetition of tasks, should the program come to compute it.

## Not modelled

* Encryption (`crypto/`): its state is a key per call, its correctness one of
  ciphers.
* The bytes of transactions (XML, ZIP), and fields that are rendered, merged and
  read like `note` and `due`.
* `recurrence.py`: tokens are turned into a rule string, nothing recurs here.
* Requests that only read: list and search filters, fuzzy matching, and the
  debugging commands (`fetch_latest_deltas`, `decrypt_latest_delta`,
  `sync_status`). The review queue and the folder tree are the exceptions.
* Routing, schemas, headers, TLS, logging, tool schemas, the launcher, the wording
  of tables and labels.
* Builders and upserts that nothing calls (`add_deletion`,
  `add_delete_snapshot`, `upsert_task`, `upsert_project`).
* Device metadata in client documents, HTTP back-off delays, and the variables
  that override the identity.
