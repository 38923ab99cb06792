# Buzzard Agent: TLA+ models and proofs

This directory holds formal models of the code this repository owns: the web
extension of the agent (`extensions/web-access`) and the control command of
Agent Web (`packages/web`). The vendored trees under `vendor/` (Pi, Pi Web,
pi-web-access, youtube-transcript-api) are pinned upstream copies and are not
modelled, with one exception: Pi's replacement and forking of sessions
(`vendor/pi/upstream/packages/coding-agent/src/core/agent-session-runtime.ts`)
decides when the extension's handlers run, so it is the environment of `WebStore`.

`PROJECT.json` is the index: components, runs, the source lines behind each
definition, findings, hazards and theorems. All paths below are relative to
the repository's root, and `index.ts`, `crawl.ts`, ... are files of
`extensions/web-access`.

## 1. The system

### Components, state, operations

| component | state | operations | modelled in |
| --- | --- | --- | --- |
| stored web content (`storage.ts`, `index.ts`, `session-generation.ts`) | per process a `results` map; per instance a session id and a generation; entries in the session log | `fetch_content`, `crawl_content`, `get_web_content`, `session_start`, `before_agent_start` | `WebStore` |
| content database (`database.ts`) | one SQLite file shared by all processes: responses and their documents; its permissions and schema version | `persistStoredContent`, `loadStoredContent`, `deleteExpiredStoredContent`; `db`, `schema` | `ResponseTable`, `ContentDatabase`, `DatabaseOpening` |
| service control (`packages/web/libexec/control.mjs`, launcher, two user units) | `state.json` and `environment` in the runtime directory; what the units run on | `start`, `restart`, `enable`, `stop`, `disable`, `status`, `plugins` | `ServiceControl` |
| crawler (`crawl.ts`) | queue, level, seen, emitted, cached robots policies, byte and redirect totals, stop reason; per origin a queue, a delay and the time of the next request | one `crawlWithGecko`; `parseRobots`, `robotsAllows`, `parseSitemap`, `fetchRaw` | `Crawl`, `Robots`, `Sitemap`, `Pacing` |
| helpers (`github.ts`, `youtube.ts`) | child processes, timers, pending error; scratch directories shared by all agents of a user | `extractGitHub`, `extractYouTubeCaptions`, `cleanupStaleDirectories`, `deduplicateCues` | `Helper`, `ScratchDirectories`, `Captions` |
| browser client (`wildbuzzard-cli.ts`, `gecko-client.ts`) | a child per call | `callBrowserTool` | `BrowserCall` |
| page rendering and fallbacks (`extract.ts`, `index.ts`) | the tasks of one operation | `fetch_content`, `fetchWithGecko` | `FetchContent` |
| page answers (`page-answer.ts`) | none | passage selection, model call | the operation's side only, in `FetchContent` |
| declared links (`declared-web-links.ts`) | none between pages | `discoverDeclaredWebLinks` | `DeclaredLinks` |
| text extraction (`pdf-extract.ts`, `rsc-extract.ts`), redaction (`safe-output.ts`), `activation.ts` | none | text in, text out | no |
| capability discovery, agent launcher, packaging, CI, skills, docs | none | sequential scripts and prose | no |

### How they interact

- Pi loads the extension once per process; every session start makes a new
  instance with its own `SessionGeneration`, while the module-global `results`
  map is shared by the instances of a process. Pi aborts the running operation
  before it shuts a session down, with one exception: an in-memory fork renames
  the live session first.
- A fetch or a crawl begins (`SessionGeneration.begin`), awaits, checks
  `assertCurrent` and stores: purge, insert into `results`, commit to the
  database, append an entry to the session log, answer with a handle. That tail
  is synchronous.
- `get_web_content` looks in `results`, then in the database; a restore drops the
  session's results and loads those its log refers to.
- All agent processes of a user share the database file. Stores run in one
  `BEGIN IMMEDIATE` transaction; loads run their statements in autocommit mode.
- `crawl_content` and `fetch_content` render pages through the browser CLI;
  `fetch_content` may run `git` or `yt-dlp` first, up to four URLs at a time. One
  signal ends helpers, browser calls and answers; the first task that rejects
  settles the operation, and the others go on behind it.
- Every agent process that extracts a repository removes the stale scratch
  directories of all agents first, in the common temporary directory.
- The control command writes the two files, then asks systemd to start, stop or
  restart two units, the second of which requires the first; the units read the
  environment file when their process starts.

### What is hard

Sessions that are left and revisited during an await; processes trimming one
table between each other's statements; deaths between commit and log entry,
between the two renames, or in a transaction; robots policies that fail;
budgets divided among fetches in flight; several stop reasons; signals, timers,
exits and `close` of child processes in any order with process ids coming back
into use. `PROJECT.json` lists each at its line, with the property that covers it
or the reason none does.

### What makes each component correct

- Stored content: a handle answers only in the session it was issued to and
  only for an hour; it is lost only by eviction or expiry; an operation stores
  nothing after its visit to the session has ended.
- Database: never beyond its two bounds, no response without its documents,
  stores atomic, loads and purges remove expired rows only, every call returns.
  What is opened is private and has the whole schema, whoever creates or
  migrates it at the same time.
- Service control: the two files agree unless a command was cut off or
  overlapped; a command that reports ready has the service running on what it
  reports.
- Crawler: within its budgets at all times, nothing twice, only what robots.txt
  permits, complete unless it says partial, breadth first, and it ends. A robots
  or sitemap file means what its text says; the declared delays are kept.
- Helpers: nothing is removed under a running helper, signals hit only the
  intended process group, an aborted call returns no content, the first error
  is the one reported, every call returns. No agent removes another's live
  directory. Captions lose nothing and repeat nothing.
- `fetch_content`: one URL's failure does not cost the others, but for stated
  reasons, and ends the agent only where a process had no descriptors or after a
  cancel; nothing cut off becomes a document; a cancel ends everything.

## 2. The modules

| module | what it is |
| --- | --- |
| `ResponseTable` | the `responses` table and `trimDatabase` as operators: the results a trim may have (ties in `last_accessed` are broken freely), insert, touch |
| `HandleStore` | abstract: handles are issued to a session and answered to it until they expire |
| `WebStore` | instances, processes, sessions and the database (each database call one step) |
| `AtomicTable` | abstract: a table on which a store is one step and anything else removes only expired rows or touches one |
| `ContentDatabase` | `database.ts` statement by statement |
| `ServiceControl` | commands, files, units |
| `DatabaseOpening` | `db` and `schema`: several processes create or migrate one file |
| `Crawl` | one crawl |
| `Robots`, `Sitemap` | the two parsers, line by line and token by token, each beside a reference that reads the same text without a parser |
| `Pacing` | the queues and delays of `fetchRaw` |
| `Helper` | calls, their runs, processes and timers |
| `ScratchDirectories` | the directories of several agents' extractions, and their age |
| `Captions`, `DeclaredLinks` | the cues of a track, and the links a page declares, as they are folded into lists |
| `BrowserCall` | `callBrowserTool` |
| `FetchContent` | `fetch_content`; extends `Helper`, instantiates `BrowserCall` |
| `ContentDatabaseParts`, `HelperParts`, `CrawlParts` | models of a part of the system that share no state, side by side for one run; they name the properties of each |
| `*Proofs` | the theorems: `ResponseTableProofs` (lemmas about a trim), `WebStoreProofs`, `ContentDatabaseProofs` (with `DatabaseOpening`), `ServiceControlProofs`, `FetchContentProofs` (with `Helper`), `CrawlProofs`, `HelperPartsProofs`, `CrawlPartsProofs` |
| `MC*` | the instances |

`WebStore` and `ContentDatabase` share `ResponseTable`: what `WebStore` takes as one
step, `ContentDatabase` shows to be one (`ImplementsAtomicTable`).

Correspondence, beyond what the `map` of `PROJECT.json` gives:

- **WebStore.** JavaScript runs a handler to its next await, so the synchronous
  tail after `assertCurrent` is one action with three outcomes (`FinishStored`,
  `FinishUnpersisted`: the insert threw after `results.set`; `CrashBeforeLogging`:
  the process died after the commit). `sel`, `gen` and `op` are
  `SessionGeneration` and the operation's captured pair; `host` is what
  `getSessionId()` returns. `left`, `issued`, `evicted` and `answer` are history.
  Contents of documents are left out; sizes are a monotone function of the set of
  handles.
- **ContentDatabase.** `call[p].at` is the statement about to run; `draft` is the
  uncommitted view of the one writer. `Busy` is the busy timeout, `Fail` any other
  failure of a statement, or the death of the process.
- **ServiceControl.** Settings are an abstract function from names to values, of which
  `Address` make up the URL `status` probes. `Killed` may take a command at any
  await. `said` is what the last command printed.
- **Crawl.** The site is a constant (links, canonical names, robots rules, sitemaps);
  what a request comes back with (failure, redirect, size) is chosen freely
  within the budgets the browser is given. Aborts fire only where the code awaits.
  Progress reports and the error list are left out; delays are in `Pacing`.
- **Robots, Sitemap.** A line is its directive and its value, a token its kind and its
  local name. What a value is worth (how specific an agent name is, what a pattern
  matches) is a constant. A name that ends in a colon has an empty local name; the code
  takes `root` for unset then, so that a sitemap's kind is the name of the first
  element that has one, and the reference says so (`KindIn`). The policy is a set of operators over the parser's
  state, so it is checked after every line, as if the file ended there. Lines
  that are refused whole (control characters, size) end the parse with an error
  and are the policy `unavailable` of `Crawl`. The reference says whose a line is by
  quantifying over the text before it.
- **Pacing.** `originLimits`, `originNextRequest` and `originDelays` per origin. A timer may
  be late; the system clock is not set. `AnswerRobots` is `fetchRaw`'s default and the
  policy's delay in one step, since no other request of the origin is served
  between them.
- **Helper.** A process of the helper's own is a `worker`: in the process group or
  not, holding the pipes or not. `close` is the exit of the child with no worker
  on its pipes. SIGTERM only permits an exit that may happen anyway, so what it
  leaves behind is the timer. A worker that left the group and holds the pipes is
  excluded by an assumption: nothing in the code could end it.
- **ScratchDirectories.** Git's commands are the time they take, `Timeout` at most. The
  directory's `mtime` changes only when git touches the directory itself, so a long
  extraction may look old; what keeps it is that its commands fit into an hour.
  `Jump` is a suspend or a change of the clock.
- **BrowserCall.** `listening` says whether the listeners of the child are in place. A signal
  that has already fired rejects before they are (line 72), and so does a child
  without pipes (`starved`): on EMFILE and ENFILE Node's `spawn` returns before it
  makes the streams, and the use of `child.stdout` (line 77) throws before line 93
  has a listener for `error`. The event of a spawn that failed then finds none,
  which ends the agent (`lost`). A `spawn` that throws is a starved child whose
  event does not come. SIGTERM leaves no trace: the child may go on.
- **FetchContent.** A URL of `GitHub` or `Captions` is its own helper call. The continuation
  of an awaited promise runs in the turn of the event that settles it, so the
  end of a helper and the start of the browser call that replaces it are one
  step. `Malformed` are github.com URLs at which `parseGitHubUrl` throws, outside the
  `try` of `extract`. A browser call that rejects at once is an error document unless the
  signal has fired. The helpers use `child.stdout` before they listen to `error` as well
  (github.ts:296 and 298, youtube.ts:316 and 318): `HelperErrorUnheard` is the event that ends the
  agent. `Helper` says of a child that could not be spawned only that it has no pid, so
  that any of them may be one without descriptors, and its call returns as after
  any other error of spawn. In the code the event follows within the turn of the spawn;
  here it may come later, which only adds behaviours. `ReadPdf` is the end of the PDF extraction, which takes turns of
  its own and does not listen to the signal.
- **DatabaseOpening.** Statements commit one by one. `file` is what
  `validateExistingDatabase` looks at. `Fail` is a busy timeout, another error or a
  death, at any statement.

## 3. The runs

| run | what it asks | bounds, and why they are enough |
| --- | --- | --- |
| `shared` | Is the table bounded, is no handle lost unnoticed, and is every answer legitimate, with two agents in two processes? | 2 sessions, 2 handles that exceed the count together (1 row): every store evicts; time 1 with a lifetime of 1: expiry happens; one generation per agent. Each process, agent and session must meet one other |
| `sessions` | Does an operation store only in its own visit? | 1 agent, 2 sessions, 3 generations: leave and return during one operation, and once more; one handle exceeds the byte bound alone |
| `oversized` | Does a handle last its hour? | one handle, larger than the bound: **violated** |
| `calls` | Are committed tables bounded and whole, are stores atomic, does every call return? And is an opened database complete, and openable? | 2 processes, 3 responses, room for 1 row, a byte bound that one response exceeds alone: both trims run, their order of eviction matters, and a store may evict itself; time 0 to 2 with a lifetime of 2, so that rows of different ages meet and then expire. Opening: the same 2 processes over no file, one of version 1 and one of version 2, 2 failures |
| `commands` | Do the files agree, does `restart` bring up what it was given? | 2 overlapping commands, 1 setting with 2 values; unit failures, logins and deaths at will |
| `start` | Does `start` reconfigure, as the README says? | 1 invoker, 2 settings, one of them outside the URL: **violated** |
| `crawl` | Budgets, no duplicates, completeness, order, robots.txt, stop reasons, the end | 7 URLs on 2 origins with a cycle, a canonical name across origins, a redirect and a sitemap index that lists itself, in each of the 6 modes; limit 4, 8 bytes, 2 redirects, rounds of 2: each budget can run out first |
| | Do the parsers read what the file says? | robots.txt of 5 lines out of 11 kinds: groups, ties of two names of ours, another's rules, discarded values; at most 2 rules and 1 sitemap, so that both bounds are met. Sitemaps of 8 tokens out of 10, empty names among them, 3 deep, 3 elements, 1 location |
| | Are delays kept, and left at a cancel? | 2 origins with delays of 0, 1 or 2, 2 pages waiting, 4 units of time |
| `redirect` | Is every document one robots.txt allows? | an allowed page redirects to a refused one: **violated** |
| `comments` | Are the paths a robots.txt disallows refused, comments aside? | the files of `crawl` with lines of comment for empty ones: **violated** |
| `runs` | Removal, signals, aborts, first errors | a caption call and a GitHub call of at most 2 commands over 2 process ids, at most 2 kill timers each: ids come back into use while old timers are set |
| | Does a live directory stay? | 2 agents, 3 directories, 3 commands of 2 units against an age of 6: an extraction can be as old as the bound |
| | Is anything lost or said twice? | 3 cues of 4 texts, one of which starts with another, at times 0 to 2, ends before starts included |
| | Are the declared links those of the page? | 4 elements, 3 URLs, 2 relations, a bound of 2 |
| `fetch` | Does `fetch_content` fail only for a reason, and does a cancel end it? | a GitHub URL alone and beside a page, a caption URL, a malformed one before two pages, and three pages, 2 URLs at a time: the queue, every fallback, spawns that fail with and without pipes, and the leftovers of a rejection occur; one helper and one worker that may never exit, 2 commands, 2 kill timers |
| `languages` | Is a missing caption reported as one? | one caption call: **violated** |

Three runs (`calls`, `crawl`, `runs`) check parts that share nothing, put side by side
in `ContentDatabaseParts`, `CrawlParts` and `HelperParts`: a variable `part`, chosen at the
start, says which of them the behaviour is one of.

Symmetry is used only where the permuted values are interchangeable: sessions,
process ids, invokers, and in `shared` the two agents together with their
processes. No run with symmetry checks a liveness property. `CHECK_DEADLOCK
FALSE` is set everywhere because every model may come to rest: calls have
returned, the crawl is done, time, handles, lines or tokens have run out.

Each property of a passing run has a mutant in `PROJECT.json`: a plausible slip in
one definition (a dropped guard, an off-by-one, a swapped order) that breaks it.

### Fairness

- `ContentDatabase`: a database call is synchronous, so its process takes its next
  statement (`WF(Step(p))`). Nothing forces a failure, and a lock holder's own
  steps are what ends another's wait.
- `DatabaseOpening`: `WF` of each process's next statement, and of opening again: every
  storage operation calls `db()`.
- `Pacing`: the signal's listeners run (`WF(Reject(o))`); time need not pass, and nothing
  need answer.
- `Crawl`: `WF(Next)`. Every wait of a crawl is for its own code or for a fetch, which
  has a timeout of its own in the browser call.
- `Helper`: due timers fire and events are delivered (`WF` of `TimedOut`, `KillTimer` and
  the handling of `close`); the event loop stays alive because of the child,
  although the timers are unref'd. Nothing is assumed of the helper: it need
  never exit. `HelpersReturn` is checked under it in `fetch`.
- `FetchContent`: the above for helpers; queued tasks start, a PDF is read, and an
  answer comes once its signal has fired. Nothing is assumed of the browser,
  whose calls have no timeout: only the signal ends one that hangs, and the
  liveness properties begin with it.

### Findings

1. **A response can be evicted by its own store** (`database.ts:210`). It is reported as
   `stored`, and lost when the next restore drops the copy in memory, although the
   tool's description speaks of a one-hour response. A payload within the limit
   of one response can count for more than the bound, which counts content in
   several columns. (`HandlesLastTheirHour`)
2. **`start` does not reconfigure a running service** (`control.mjs:246`), though
   `packages/web/README.md:33` says so; it reports the new configuration as ready.
   (`StartReconfigures`) `restart` does reconfigure, and is checked to.
3. **A redirect reaches pages robots.txt refuses** (`crawl.ts:1337`): only the scope of
   the final URL is checked. (`DocumentsAllowed`)
4. **A comment ends a robots group** (`crawl.ts:428`). The line is empty once the
   comment is cut off, so rules behind it belong to no agent and are skipped: a
   disallowed path is allowed. (`DisallowIsHonored`)
5. **"No captions" is reported as an age restriction** (`youtube.ts:385`): "languages"
   contains "age". (`NoCaptionsIsReported`)

## 4. What is proved

Every theorem holds for all values of the constants that satisfy the assumption
of its module (`TableAssumption`, `StoreAssumption`, `DatabaseAssumption`, ...). TLC evaluates
these assumptions in the runs; what they ask is a type, that the `No...` values are
distinct from what they stand in for, and what is named below. Nothing else is
assumed. Each inductive invariant is a conjunction of named parts, each part with
a lemma that a step preserves it, one case per action. The actions of `Parts` are those of the models they
put side by side, so a theorem is about the model's own specification
(`Opening!Spec`, `Pace!Spec`, ...), and the run checks the same property in its part.
For `CrawlParts` this is a theorem itself (`PartsAreTheirOwn`).

### WebStore

`WebStoreProofs`, for any number of agents, processes, sessions and handles, any
bounds and any monotone size function:

| theorem | property |
| --- | --- |
| `TypeCorrect` | `TypeOK` |
| `AlwaysBounded` | `TableBounded` |
| `NothingLostSilently` | `NoSilentLoss` |
| `StoresInOneVisit` | `StoresOnlyInItsVisit` |
| `Refinement` | `ImplementsHandleStore` (refinement of `HandleStore`) |

`TableAssumption` asks for a finite set of handles and a size that grows with the set
of rows and is 0 for none, `StoreAssumption` that every agent runs in a process.

The inductive invariant is `IInv == TypeOK /\ Book /\ Generations /\ Kept`:

- `Book`: every handle found in the table, a results map, a log or the issued set
  has a content; the content's scope is that of its owner; a row agrees with its
  content. Needed because a read compares scopes, while the promise is about
  owners.
- `Generations`: an operation's generation is at most its instance's, and
  smaller once the instance has left the session it began in. This is what makes
  `assertCurrent` stronger than comparing session ids; without it nothing excludes
  a return to the same id.
- `Kept`: the table is within its bounds, and each named or logged handle is in
  the table, evicted, or expired: `TableBounded` and `NoSilentLoss` themselves, which
  become inductive beside the other parts.

Each part has a lemma that a step preserves it, with one case per action. The
steps that touch the table go through two lemmas on their effect (`LoadEffect`:
only expired rows go, the others keep scope and expiry; `PersistEffect`: a row is
added, what is pushed out is recorded as evicted), which rest on
`ResponseTableProofs`: a trim keeps a subset of the rows, ends within both
bounds, and removes nothing but expired rows from a table that is within them.
The refinement follows step by step: a finish that names a handle is `Issue`, a
successful read is `Answer`, `Tick` is `Tick`, and everything else is quiet.

### The database

`ContentDatabaseProofs`, for any number of processes, handles and documents:

| theorem | property |
| --- | --- |
| `DatabaseTypeCorrect` | `TypeOK` |
| `CommittedBounded` | `CommittedWithinBounds` |
| `CommittedWhole` | `WholeResponses` |
| `DatabaseRefinement` | `ImplementsAtomicTable` (refinement of `AtomicTable`) |
| `OpenedDatabase` | `OpenedIsComplete` of `DatabaseOpening` |
| `OnlyFailuresClose` | `UnopenableByFailureOnly` of `DatabaseOpening` |

`CommittedWithinBounds` and `WholeResponses` say nothing of the uncommitted draft, so they
are far from inductive: the bounds hold at the commit because of what five
statements have made of the draft before it. `Transaction` says what that is,
statement by statement, always compared with the committed rows: the full
table, then without the expired rows, then within the count, then an eviction
loop under way (`Evicting`), and at `commit` a result that `TrimDatabase` may have.
`Locking` makes the comparison stable (while one process writes, nobody else
changes what is committed) and keeps a load from evicting: it gets to `count` and
`size` but finds a table within its bounds. `Fresh` keeps the writer's handle apart from
the rows. The refinement then maps the commit to `AStore`, the DELETE of a load to
`AExpire`, its UPDATE to `ATouch`, and every other statement to a stutter.

For `DatabaseOpening`, `Passed` says that a process past a step of `db()` finds the effect
of that step in place, because no step of another process undoes one.

### Service control

`ServiceControlProofs`, for any number of commands at once, settings, unit failures,
deaths and logins: `ServiceTypeCorrect` (`TypeOK`), `FilesAlwaysAgree` (`FilesAgree`) and
`RestartAlwaysReconfigures` (`RestartReconfigures`). Both properties are about commands that
nobody overlapped, so the invariant says what that gives: a command that counts
as alone is the only one (`Alone`); between its two renames the environment file
holds its configuration, and two commands there at once are `torn` (`Renaming`); a
`restart` by itself has its configuration in the environment file from the first
rename on, and no unit runs on another from its `systemctl` on (`Restarting`).

### Helpers and `fetch_content`

`FetchContentProofs`, for any number of calls, commands, process ids, timers and kinds
of worker, and for any number of URLs, pages and concurrency:

| theorem | property | of |
| --- | --- | --- |
| `DirectoriesRemovedAfterClose` | `RemovedAfterClose` | `Helper` |
| `KilledForAReason` | `KillsOnlyItsOwn` | `Helper` |
| `AbortedNeverReturns` | `AbortedReturnsNothing` | `Helper` |
| `FirstErrorAlwaysStands` | `FirstErrorStands` | `Helper` |
| `FetchTypeCorrect` | `FetchTypeOK` | `FetchContent` |
| `OperationFailsForAReason` | `FailsForAReason` | `FetchContent` |
| `OperationIsWhole` | `WholeOrNothing` | `FetchContent` |

`HelperInv` adds that a call without a process holds no pipe (`NoChild`), that an id
answers for one run under way (`OwnPids`), and that a timer or an abort of a run leaves
an error pending (`Pending`). The last two are why a SIGKILL set by one run cannot end the
child of another whose error is not pending. `HelperAssumption` excludes the one
kind of worker named in section 2.

`FetchInv` ties what `fetch_content` believes to what its parts do: a URL is with its
helper exactly as long as the helper's call runs, and a helper's document is
what the call returned (`TasksFollowHelpers`); a page is being rendered exactly as long
as its browser call is unsettled, and was read to its end (`TasksFollowRenders`); the
operation goes on only when every URL has settled (`OperationFollowsTasks`); a
child with pipes whose spawn failed lacks its listener only if its operation was
cancelled and has failed (`Unheard`), so that any other death of the agent is one for
want of descriptors. Each step of `FetchContent` contains one of `Helper` or leaves the
helpers alone, so `HelperInv` is preserved by the same lemmas.

### The crawl

`CrawlProofs`, for any site (links, canonical names, robots rules, sitemaps), any
answers, modes and budgets that satisfy `CrawlAssumption`:

| theorem | property |
| --- | --- |
| `CrawlTypeCorrect` | `TypeOK` |
| `BudgetsHold` | `WithinBudgets` |
| `NothingIsTwice` | `NothingTwice` |
| `OnlyWelcomeRequested` | `OnlyWelcomeRequests` |
| `ExactBreadthFirst` | `BreadthFirst` |
| `CompleteLeavesNothingOut` | `CompleteIsExhaustive` |
| `FirstReasonAlwaysStands` | `FirstReasonStands` |

The parts of the invariant:

- `Budgets`: the limit covers the candidates of a round that are not counted yet.
  Bytes and redirects hold because a round divides what is left: the shares sum
  to no more than it (`SharesFit`, by a smallest counterexample in the position of
  the job), whatever each fetch uses of its share.
- `Requested`: a URL is seen before it is requested, and is in one round once.
  Without it nothing keeps two jobs of a round from requesting one URL.
- `Verdicts`: the policy behind a verdict is known, and a known policy does not
  change, so what was welcome when it was judged is welcome when it is requested.
- `Frontier`: the crawl is at some depth `d`. `Layered` puts every item of the level at `d`,
  every addition at `d + 1` and no document deeper than `d`; `Linked` puts what an expanded
  document links to no more than one level below it, wherever it waits.
- `Accounted`: what was queued waits or was seen, what was seen is in the round or
  settled (requested, out of scope, refused, or represented by its canonical
  name), and a crawl that ends without being partial has nothing left. This is
  what makes the end of the loop mean completeness.
- `Early`, `Reasoned`, `Round`: nothing is known before the first level; a reason sends the
  crawl to its end; how far jobs are in each phase. The others need them.

### The parts that stand by themselves

`HelperPartsProofs` and `CrawlPartsProofs`:

| theorem | property | of |
| --- | --- | --- |
| `CleanupSparesTheLive` | `LiveDirectoriesStay` | `ScratchDirectories` |
| `LinksAreThePages` | `LinksFollowThePage` | `DeclaredLinks` |
| `TranscriptSaysItAll` | `TranscriptIsFaithful` | `Captions` |
| `DelayAlwaysKept` | `DelayKept` | `Pacing` |
| `SitemapsReadAsWritten` | `SitemapsFollowTheFile` | `Sitemap` |
| `PolicyIsTheFiles` | `PolicyFollowsTheFile` | `Robots` |
| `PartsFollowTheirFiles` | the last three | `CrawlParts`, the specification of the run |

- `CleanupSparesTheLive` rests on `Commands * Timeout <= Stale` (9 commands of 45 s against an
  hour). Its invariant bounds the age of a live directory by the commands so far
  (`Young`: at most `(command - 1) * Timeout + spent`) and gives each extraction a
  directory of its own, without which one extraction's end could remove
  another's.
- `LinksAreThePages` needs that the list never grows past `MaxLinks`: that the list was
  full when looking ended early is then the exact reason for what is missing.
- `TranscriptSaysItAll`: `CaptionsAssumption` asks of `Extensions` ("starts with") what holds
  of any strings: it is reflexive and transitive, and of two beginnings of one text one
  starts with the other. The last is needed for a line that grows by a longer
  text to still not repeat the line before it. `Started`: no line starts after the
  cues read so far.
- `DelayAlwaysKept`: the next request of an origin is due a delay after its last
  answer, and one that waits for its delay waits for just that, since no other
  of the origin is answered meanwhile (`Due`).

The two parsers read a file of any length, of any lines or tokens, under any
bounds. What they gather is a fold over the text, and the reference reads the
text by positions; each invariant says from which positions of the text every
piece of the parser's state came.

- `SitemapsReadAsWritten` (`TagsInv`): the names on the stack are those of the opening
  tags still open, each found by the depth it opened at (`Nested`, `Opened`); nothing
  read so far is wrong whatever follows (`Sound`); there is one root at most, and
  the parser knows whether it has ended (`OneRoot`); `locations` are those the text has
  so far, and the text at hand is that of the *innermost* open `loc`, since the
  code keeps one text for all of them and a nested `loc` discards what came before it
  (`Reading`). A parser that has thrown is right to (`Rejected`), whatever follows, which
  needs that no later token mends the text: depths, openings and the texts of
  elements that have ended never change (`DepthGrows`, `OpeningKept`, `OwnKept`).
- `PolicyIsTheFiles` (`RobotsInv`): there is a *home* for every directive of the text, the
  group it went to, or none. A line's addressees, which the reference finds in the text
  before it, are the agents of its home (`Homes`); homes follow the order of the lines,
  two directives share one exactly if no agent line or empty line is
  between them, and a group holds just the rules of its lines, in order, and the
  last of their delays (`Holds`). The agents of the group being read are those called
  since the last directive or empty line (`Speaking`), and the agents of all groups
  are those the file names (`Everyone`): without the last, the best specificity found
  in the groups need not be the strictest in the text. From it: the groups
  selected are the homes of the lines that are ours (`OursAre`), their rules joined
  are the rules of those lines in the order of the text (`RulesAre`), the first
  `MaxRules` of the joined are the first `MaxRules` of those lines, and the one that
  the loop over them ends with is as strong as the reference asks (`StrongestIs`).
- The recursive functions of the model (`found` of `PolicyRules`, `chosen` of `Allowed`) are shown
  to have the values claimed by a least counterexample (`Smallest` in `CrawlProofs`), which
  needs no induction theorem.

### Only model-checked

- Liveness: `EveryCallReturns`, `OpensAtLast`, `ChosenCrawlEnds`, `CancelEndsDelays`,
  `CancelEndsEverything`, `HelpersReturn`. They need fairness and ENABLED, which the
  installed provers do not handle.
- The five findings are violations, each with the counterexample of its run.

## 5. What is not modelled

- Text: URL canonicalisation, the wildcards of a robots pattern, XML attributes and
  entities, HTML, PDF and caption files, redaction, formatting of answers.
- Passage selection of page answers: one pass of text arithmetic.
- Paging of a stored response: a slice of a constant text.
- The Link header branch of `declared-web-links.ts`: no caller passes a header.
- Corruption of the database file, links in its place, other owners.
- Wall clock jumps, but for `ScratchDirectories`: time is one counter that never goes
  back. A jump moves expiry and delays, and the documents promise nothing then.
- Limits that no document promises anything about: that a read from memory does
  not count as a use for eviction, that overlapping control commands lose each
  other's settings, that a logout removes the service's configuration, that a
  crash leaves a caption directory behind.
- An agent that runs out of descriptors in the browser calls of a crawl: it dies as in
  `FetchContent`, and the crawl with it.
- The browser itself, and the model behind page answers.
- Packaging and the vendored upstreams.

## 6. Plan

Done, in this order: `ResponseTable`, `HandleStore`, `WebStore` with proofs;
`AtomicTable`, `ContentDatabase`; `ServiceControl`; `Crawl`; `Helper`; then `Robots`,
`Sitemap`, `Pacing`; `BrowserCall`, `FetchContent`; `DatabaseOpening` and
`ScratchDirectories` with proofs; `Captions`, `DeclaredLinks`.

Then proofs for `ContentDatabase` and `DatabaseOpening`, `ServiceControl`, `Helper` and
`FetchContent`, `Crawl`, `Pacing`, `Captions` and `DeclaredLinks`; last, for `Sitemap` and `Robots`.
With them, every safety and action property that a passing run checks is a theorem.

What could follow: the passage budget of page answers and the selection of a
GitHub tree's entries, if a property of them is worth more than a unit test.
