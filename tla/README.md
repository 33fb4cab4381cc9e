# Zapdos in TLA+

Zapdos is a search and recommendation server: records of users, tags, categories,
items and places in a key-value store (LevelDB or RocksDB), an index (Xapian), a web
interface, and replication from one master to slaves that can take its place. This
directory holds a TLA+ model of the parts that decide whether the data survives
concurrency, crashes and failures: the commit pipeline, replication, election, the
handlers that write records and the nodes that send writes on, the cache in front of the
records, sessions, the search index, the end of the process, and the functions that merge
fields, make terms of words and rank what is found.
Paths below are relative to `src/`.

1. [The system](#the-system) · 2. [Modules](#modules) · 3. [What is checked](#what-is-checked) ·
4. [What is proved](#what-is-proved) · 5. [Where the code does otherwise](#where-the-code-does-otherwise) ·
6. [Assumptions](#assumptions) · 7. [What is not modelled](#what-is-not-modelled) · 8. [Plan](#plan)

Everything is run in this directory: `tlc -config StoreTrans.cfg MCStoreTrans`,
`tlapm StoreTransProofs.tla`.

## The system

One process is a node. It has one *io thread* (`m_io_whatever->run()` in
`src/main/DefaultServer.cc`), which serves and makes all calls between nodes and handles
signals, a *pool* of threads (async++) in which the handlers of requests run, and, on a
slave, a *sync thread*. They share one object, `SharedTable`
(`include/utils/SharedTable.hpp`), whose members each have their own lock; no lock is
held from one operation to the next.

| Component | State it keeps | Operations | Interacts with |
|---|---|---|---|
| Commit pipeline (`src/store/StoreTrans.cc`) | `logdb` (records by log id), `maindb`, `logcounter` | `Commit` = `CommitLog` (take an id, write the log), `CommitData`, push to the last slave, `AddToCache`; `ReadLog`, `ReadOne` | called by the handlers of a master and the sync thread of a slave; read by `R_TRANSLOG`, `R_READONE` |
| Replication (`src/hrpc/SyncServer.cc`, `RemoteEndpointService.hpp`) | `master`, `is_ready`, `lastslave`, `transactions` (pushed ones) | `SyncFirst` (catch up before serving), `SyncFromMaster` (poll for ever), `CompareLog`; handlers `R_TRANSLOG`, `R_READONE`, `R_BUFFTRANS` | calls the master, commits what it gets |
| Election, host list (`src/hrpc/RemoteKeeper.cc`) | `remotes` (who is there and how long its log is), `is_master`, failcount | `HostUpdate` (tell the others), `MasterUpdate` (elect), `R_REGISTER`, `R_SETINFO` | driven by failed polls of `SyncFromMaster` |
| Name reservation (`src/store/TempNameCache.cc`) | `tmpcache` | `CheckLocal`, `ReserveName`, `MultiTypeLock`, destructor | handlers; the end of the process waits for it |
| Data services (`src/store/*DataService.cc`, `CategoryService.cc`, `include/store/StoreTable.hpp`) | records, unique index, `maincounter` | `ManageDataAction`, `ResetPassAction`: read, reserve, allocate an id, `AddRecord`, `Commit` | pool threads of the master, side by side |
| Record cache (`src/store/*CredService.cc`, `CacheContainer.cc`) | `dbcache` | `Get`, `ValidateUserCategories`; `AddToCache` deletes | readers in the pool against writers |
| Start and end (`src/main/DefaultServer.cc`, `WorkServer.cc`) | `is_ready`, servers | handler of SIGTERM, join of the pool | all threads |
| Sessions (`CredServiceBase.cc`) | none: a session is a time encoded with the signkey of a record | `GetSession`, `CheckSession`; a new signkey (`PrepareData`), a new password (`ResetPassAction`) | records, record cache, the clock of each node |
| Write forwarding (`include/query/*Service.hpp`, `MasterEndpointService.hpp`, `HrpcClient.cc`) | calls that wait, threads they hold | `SendToMaster` from a pool thread of a slave, `SendToRemote` from one of the master, `set_timeout` of a connection | pool of a slave and pool of the master |
| Search index (`src/search/WriteIndex.cc`, `IndexBase.cc`, `src/tools/XapIndex.cc`) | Xapian databases, what is not yet committed of them, `force_commit`, `no_xapian` | `AddToCache` for each record of a commit, commands, searches; `zpds_xapindex` makes it anew | commit pipeline, records |
| Search (`SearchBase.cc`, `SearchLocal.cc`, `SortHelpers.hpp`) | none | terms of a query, rules of a profile, order of the answer | index, records, profile of the caller |
| Merging of fields (`HandleTagData.cc`, `HandleStringData.cc`, `UserDataService.cc`, `CategoryService.cc`) | none | the fields of a request into those of a record | data services |

What is hard in it:

* **Interleaving.** Handlers run side by side, and what must be one step for them is
  several: the id of a log record and its write, the log and the data, the test and the
  setting of a reservation, the reading of a record and its writing.
* **Failure.** A process may die between any two of these; nothing is replayed when it
  starts again. Calls fail, or their answers are lost.
* **Ordering.** Slaves apply the log in the order of ids, masters their data in any order.
* **Time.** A master that does not answer, and a link that is cut, look alike; the end of
  the process sleeps 500 ms and then trusts `tmpcache`.
* **Waiting.** A call holds a thread of the pool until it is answered, and the answer needs
  a thread of another pool, which may wait for the first.
* **Stale state.** The cache, `maincounter`, the host list and the record a handler has
  read are all used after somebody may have changed what they stand for.

What makes each component correct:

* *Commit pipeline:* a log id is used once; a reader gets the log without gaps and in
  order; "in sync" means all that was acknowledged; the data is what the log says; what
  was acknowledged reaches a slave that keeps polling.
* *Replication:* a slave has a beginning of the master's log, whatever fails; a node
  serves when it has caught up, and follows the master; commits reach every slave.
* *Election:* one master, with everything any slave left has; there is one again.
* *Data services:* one record for a name, a unique key that leads to it; all or nothing
  of a request; requests as good as one after the other; nothing stays reserved.
* *Cache:* an answer was true at some moment while the handler ran; nothing stale stays.
* *Write forwarding:* what a client is told of a write is so; every handler ends.
* *Sessions:* who has one had the password; a new signkey ends those before it; they live as
  long as configured, whatever the clocks.
* *Search index:* it has the last version of every record; what is found can be read.
* *Search, merging:* a text is found by its words; the answer is the best there is; merging
  is the union with the request on top.
* *End:* writes that were received have ended; no commit is cut in half; it ends.

## Modules

| Module | Models | Checked with |
|---|---|---|
| `StoreTrans` | `StoreTrans::Commit` step by step for any number of threads; `R_TRANSLOG` as begin, scan, reply; a failed write; a crash and `WorkServer::init` | `MCStoreTrans` |
| `Replication` | master and slaves, `SyncFirst`, `CompareLog`, `SyncFromMaster`, the push; failed calls, lost replies, crashes, lost ends of logs | `MCReplication` |
| `ReplicatedLog` | abstract: one log, replicas that copy its next entry | implemented by `Replication` |
| `Election` | registration, failure counting, `HostUpdate`, `MasterUpdate`; deaths, returns, cut links | `MCElection` |
| `ManageData` | the `Manage` handlers and `ResetPass` with reservation, unique index and ids | `MCManageData` |
| `RecordStore` | abstract: every request changes the records it names at once | implemented by `ManageData` |
| `RecordCache` | readers and writer of `dbcache` for one user and its categories | `MCRecordCache` |
| `Shutdown` | the handler of SIGTERM, the pool, the sync thread | `MCShutdown` |
| `Forwarding` | writes to any node, the pools of master and slaves, the calls between them, deaths of slaves, the time limit of connections | `MCForwarding` |
| `Sessions` | a user's record on a master and slaves, with caches and clocks; the handlers that give and check sessions; changes of password and signkey | `MCSessions` |
| `SearchIndex` | records, documents in hand and on disk, searches, commands, crash, `zpds_xapindex` | `MCSearchIndex` |
| `Merging` | `HandleUserTags`, `HandleStrings`, `HandleUserCategories`, `HandleQueryProfiles`, fields of a category | `MCDataFunctions` |
| `Ranking` | `SearchByProfile`, `RuleSearch`, `MakeSortKey` | `MCDataFunctions` |
| `Words` | `IndexFullWords`, `IndexWithPart`, `StemQuery`, `SplitMerge`, `GetQueryString` | `MCDataFunctions` |
| `DataFunctions` | each function of the last three, once, to any input | `MCDataFunctions` |
| `StoreTransProofs`, `ReplicationProofs`, `ElectionProofs`, `ManageDataProofs`, `SessionsProofs`, `DataFunctionsProofs` | theorems and proofs about the module of that name | `tlapm` |
| `PoolProofs` | theorems and proofs about `Forwarding` and `Shutdown`, the pools of threads | `tlapm` |
| `CopiesProofs` | theorems and proofs about `RecordCache` and `SearchIndex`, the copies of records | `tlapm` |

The components meet at a few operations, and each module says which of them it takes as
one step: `Commit` is several steps in `StoreTrans` and one in the others, except where
its halves matter (`Shutdown`). A poll is several steps in `StoreTrans` and
`Replication` and one in `Election`. `Forwarding` takes a commit as one step up to its push and
adds the threads that wait for it; `SearchIndex` takes up where `CommitData` ends. The cache of
`Sessions` is that of `RecordCache` with one reader at a time on a node.

How state and actions correspond to the code:

**StoreTrans.** `task[w]` is the call of `Commit` by thread *w*; its `pc` is where the
thread is: *begun*, *numbered* after `logcounter.GetNext()`, *logged* after
`logdb->Write`, *stored* after `maindb->Write`. `Begin` is a call with a transaction
(`Exclusive`: the caller has reserved the keys, as the Manage actions do), `WriteFails`
a bad status, which `Commit` turns into an exception without undoing anything. `poll[p]`
is one `R_TRANSLOG`: the counter is read (`PollBegin`), the log scanned over a snapshot
up to the first id that is missing and at most `Limit + 1` records (`PollScan`, the loop
of `ReadLog` tests the limit after adding), the counter is read again (`PollReply`).
`copy[p]` is what the slave took, in order. `CrashRestart` drops the calls and reads the
counter back from the last log id. `acked` and `poll[p].seen` are history.

**Replication.** `pc[n]` is where the sync thread of *n* is: *comparefirst*, *first*,
*register* are `SyncFirst`, *comparemaster*, *follow* (head of the loop), *poll*, *apply*
are `SyncFromMaster`, *dead* is the thread after an exception. `CompareFirst` has no step for a
slave with a log: `SyncFirst` compares with a client that waits for `io_whatever`, which `main` runs
only when `init` has returned (`DefaultServer.cc` 250 and 280), so the call never ends (`Stuck`).
The same client is why a poll of `SyncFromMaster` waits for `ready`. `Apply` commits one
transaction of a reply. `Drain` takes the pushed transactions out of the buffer, and
loses them, as the code does. `goal` is history.

**Election.** `fails` is failcount, `cutoff` is faildetected, `remotes[n]` the host list
of *n*. `PollFails` counts; at `FailOne` the thread enters `Tell` (`HostUpdate`, one call
after the other), at `FailTwo` `Elect` (`MasterUpdate`): the longest log of those heard of
since the cutoff, ties by URL. `Join` and `JoinFails` are its retries. `Register` is `SyncFirst`:
the node that *n* was started with is a master or names one; a node with a log does not come so far.
Its comparison with the master (`SameLog`, that is `CompareLog`) is in `BecomeReady`. `Return(n, t)`
starts a dead process again, with `--master` *t* or, for the first master, with its own
configuration. Every node has a clock: `clock` is the time in intervals between polls, and the clock
of *n* shows `clock + Offset[n]`. What a node tells of itself has its own time (`Self`), and the
cutoff it is compared with is by the clock of the one that elects. `clock` goes on with the slave
that has failed most often (`Leads`), and with `TimePasses`; within an interval the order is open, so
the cutoff may be one more. `split` is history.

**ManageData.** `pc[w]` is the next step of the handler: *check* (`CheckLocal`,
`CheckAssoc`), *claim* (`SetAssoc`), *read*, *add* (`GetNext`, `AddRecord`), *commit*,
*release* (destructor of `TempNameCache`, one name at a time). Tag and category handlers
go check, claim, read, add; the others read, check, claim, add; `ResetPass` read, add.
`raced` is history: two handlers were between the test and the setting for one name.

**RecordCache.** `entry` is the record in the cache, `stamp[c]` the entry of a category,
`versions` all that the record was. `Look`, `GetOne`, `Put`, `PutStamp`, `Validate` are the
operations of a reader, `Change` and `Forget` those of a commit. `crowded` is history: two
of them were at work at the same time.

**Shutdown.** `main` is the io thread: *run*, *signal* (500 ms), *check* (waits for an empty
`tmpcache`), *stopped*, *exited*. Steps that need the io thread (`Accept`, `Answered`,
`Polled`) are possible while `main = "run"` only. `late` and `resets` are history.

**Forwarding.** `at[w]` is the node a client sent write *w* to, `handler[w]` the task on a slave,
`service[w]` the one on the master. Those that wait (*waiting*, *pushing*) hold a thread of the pool
of their node (`Waiting`), a task begins when one is `Free`. `calls` are the HTTP requests between
nodes in the order they were made; those without an answer are the `Pending` ones, which the tasks
that wait for them say. `TimesOut` is the timer that
`HttpServerBase` sets when it has read a request: 300 s, which is longer than any step, so it
acts only when nothing else can (`Stuck`). It closes a connection and not the task behind it.
`PushFails` is the `catch` in `Commit`, which forgets the last slave; `PollInSync` makes a slave
the last one again. `logged` and `committed` are what `CommitLog` and `CommitData` have written. An
exception of `CommitData`, or of `AddToCache` at the end (`EndCommit`), is answered as a refusal of
what is logged, committed or pushed by then; `threw` is the history of them. `told` is what the
client heard.

**Sessions.** `versions` is the record after each change, `at[n]` how far node *n* has come in the
log, `entry[n]` what its cache holds. `Commit` and `Follow` write the database (`Apply`), `Forget`
is `AddToCache`, which deletes the entry. A handler begins (`Login`, `Present`) with `GetAssoc`,
goes on with `Read` and `Put` if there was nothing, and ends with `Give` or `Check`. `BeginReset`
and `EndReset` are the read and the commit of `ResetPassAction`. `born` and `by` in a session, and
`crowded` and `since`, are history. `skew[n]` is fixed.

**SearchIndex.** `writer[l]` is Xapian's writable database of language *l*, `disk[l]` what was
committed of it. `Store`, `Index` and `Flag` (read, clear, obey `force_commit`) are the steps of a
commit, `Open` and `Populate` those of a search. `IndexThrows` is an exception of
`replace_document`: the task ends without a look at `force_commit`, the record stays without its
document, and Xapian may drop what it had in hand of that language. `ToolDies` is the same in a thread of
`zpds_xapindex`, which ends the process. `Down` is the end of a process. `tool` and what follows it is
`zpds_xapindex`: `Read` puts a record into the queue unless that is full, `Pop` and `WriteDoc` are its
threads, `Drain` is the main thread that waits for an empty queue and stops them, `Merge` joins
them and puts their databases together. `missed` and `asked` are history.

**Merging, Ranking, Words.** An operator has the name of the function. A loop over a list is a fold;
what the loop keeps (`kmap`, `idset` and `idmap`, the words so far) is its accumulator. The stemmer
is a constant: the vendored Krovetz stemmer for the code, one that takes off a plural for TLC.
What a `std::map` is used for, to go through its keys in their order, is `Sorted`. Scores are whole
numbers of a step `Grain` times finer than that of a sort key, which `Round` makes of them as `llround`
does: scores that are near each other tie.
`DataFunctions` chooses an input in `Init` and applies one function to it.

## What is checked

| Run | States | What it shows |
|---|---|---|
| `StoreTrans.cfg` | 487 000 | Two threads with transactions on two keys, one poller that takes one record per poll, log of 3, one crash, one failed write. `LogAppendOnly`, `CopyIsPrefix`, `CaughtUpHasAcked` hold throughout; `GapsAreInFlight` and `DataFollowsLog` hold until a crash or a failed write; `AckedIsReplicated` (liveness) holds unless the log has a gap. |
| `Replication.cfg` | 124 000 | Master and two slaves, the second pointed at the first, two commits, one failed call, one crash anywhere, slaves that may lose the end of their log, one entry per reply. `SlaveLogIsPrefix`, `FollowsMaster`, `ReadyHasCaughtUp`; it implements `ReplicatedLog` (`ReplicatesTheLog`); every commit reaches every slave that stays up, unless its sync thread died or it was started again with a log and hangs (`EveryCommitReplicates`). |
| `ElectionSafe.cfg` | 482 000 | Three nodes, started one by one, the clock of one an interval ahead, three commits, intervals that pass before or between failures, one death at any moment after the start, ties broken by URL: `OneMaster`, `LogsAgree`, `WinnerHasMost`. |
| `ElectionFaults.cfg` | 759 000 | Three nodes, the clock of one ahead, a death at any moment, also of a node that starts, the return of the dead with any master, a cut link: every branch of the election is taken. `MasterComesBack`: after one death, with no link cut, there is a master again, or no slave is left whose sync thread lives and that has not elected one whose thread does not (`Misled`). |
| `ManageData.cfg` | 2 480 000 | Tags and categories, or users and exters with `ResetPass`; two threads, three requests of up to two payloads on two names: `ReservedIsHeld`, `IndexIsSound`, `RefusedChangesNothing`, `NewIdIsFree` always, `OneRecordPerName` as long as not `raced`, and until then tags and categories implement `RecordStore`. |
| `RecordCache.cfg` | 580 000 | Two readers, a writer with two changes of two categories. `StampIsTrue` always; `AnswerAloneIsCurrent` and `CacheAloneIsFresh` until two handlers are at work together. |
| `Shutdown.cfg` | 60 000 | Three pool threads, a master with and without a slave in sync, and a slave with two transactions per reply. `WritesHaveEnded`, `CommitsWhole`, `Exits`. |
| `Forwarding.cfg` | 656 000 | Three writes to any of a master with two threads and two slaves with one each, one of which may die, and one commit that throws after its log, its data or its push. `AnswersAreTrue`, that commit excepted; `StuckIsAJam`: nothing waits for ever but a slave full of handlers that wait for the master, which waits for that slave; `EveryHandlerEnds` (liveness). |
| `Sessions.cfg` | 3 190 000 | A master and a slave whose clock is up to 1 ahead, two passwords, two changes of password or signkey, one session with a lifetime of 2, restarts at any moment. `SessionIsEarned`, `KeyEndsSessions`, `LivesItsLifetime`. |
| `SearchIndex.cfg` | 2 090 000 | Two workers, two records, two languages, three changes, two commands, a crash, an exception of Xapian, one run of `zpds_xapindex` with two threads and a queue of one. `IndexIsCurrent`, `FoundIsStored`, `CommandIsObeyed`. |
| `DataFunctions.cfg` | 862 000 | Every input of two tags or categories in request and record; two rules of two weights over three items whose scores tie or differ after they are rounded, with the query as it was typed or corrected; every text of up to three words of up to four letters of an alphabet of two, one of them the plural. `TagsAreMerged`, `CategoriesAreMerged`, `BestFirst`, `TextIsFound`, each against a definition without the steps of the code. |

Why the bounds are enough. Two threads make every order of two commits, three log ids a
gap with something after it. One crash shows what is lost at each point; more crashes
only repeat it for `StoreTrans`, whose restart depends on the last log id alone, and the
theorems hold for any number. A limit of 0 gives one entry per reply, so that catching up
takes several. Three nodes are what a chain of pointed slaves needs. In `Election` three
nodes leave two slaves that elect one of them when the master dies; four, where two lose to a third, were
checked once without error (`MCFourNodes`, `MaxCommit = 2`, `MaxTime = 1`, 2 650 000 states), and the
theorems hold for any number. Two payloads and two names give a request
that names one name twice, one that fails at its second payload, and two requests that
meet at one name and not at the other; three requests let one come in between the read
and the write of another. In `Forwarding`, two slaves with one thread each and a master with two
are the smallest pools in which one jam leaves a thread to the rest, and three writes fill them. In
`Sessions` two changes are a signkey and a password in either order, with a reset read before
both; the lifetime is more than the difference of the clocks, so that a session can be too young,
alive and too old; two handlers at once on one node are in `RecordCache`. A queue of one in
`SearchIndex` makes the reader wait; three changes give a record two languages and come between
two of another. In `DataFunctions` the words are on both sides of every limit of the code (a stem
from four letters on, words joined up to one letter in a query and two in a text), and the third
rule, the third item and the fourth word repeat what two, three and three have. Threads, names, pollers and workers are alike, and symmetry is
used where there is no liveness.

`TypeOK` of each module is proved where it says so below; those of the others were checked with the
same constants and are not part of the runs.

Fairness is only ever that of threads which do not wait: a handler or a sync thread that
can go on does so (`CommitStep`, `PollStep`, `SyncStep`, `Step`, `Handle`), since the code has
no lock that is held while waiting and the loops of the sync thread have no way out but
those modelled. `Forwarding` adds the timer of a connection (`TimesOut`), which runs on the io thread
and waits for nobody. Nothing is assumed of clients, of signals, of failures, or of a process
that is down: it need not be started again (the unit `scripts/zapdos.service` does not
restart it), which is why `EveryCommitReplicates` speaks of slaves that stay up.

## What is proved

For every value of the constants (any number of threads, slaves, keys, crashes, failed
calls, every limit), from the assumptions on the constants in the modules:

`StoreTransProofs`

* `SpecTypeOK`, `SpecCopyIsPrefix`, `SpecCaughtUpHasAcked`, `SpecLogAppendOnly`. The
  inductive invariant `IInv` adds what the properties rest on. `IdsAreFresh`: ids handed
  out are at most the counter, belong to one thread, and are in the log only after the
  write of that thread. `AckedIsLogged`: what was acknowledged is in the log.
  `PollsAreSound`: a scan in progress has found records that are in the log. Without the
  first, a write could overwrite a record; without the last two, a reply that ends at the
  counter would not say that everything acknowledged before is there.
* `SpecDataFollowsLog`. `DataInv`, on top of `IInv`: the keys of commits under way are
  disjoint, so of two log records with one key whose data is missing there is at most
  one, and it is the last with that key (`LastWriter`). Hence writing its data is what a
  replay of a log with one more record at its end of that key gives. `ReplayedSame`,
  `ReplayedLast`, `ReplayedEmpty` are the facts about the replay.
* `SpecGapsAreInFlight`, from `NumberedOrLogged`: until a crash or a failed write, every id
  up to the counter is in the log or in the hands of a thread that has yet to write it.

`ReplicationProofs`

* `SpecTypeOK`, `SpecFollowsMaster`, from `TInv`: a thread that runs has somebody it is
  pointed at, a reply being applied is not empty.
* `SpecSlaveLogIsPrefix`, from `LogInv`: the transactions of a reply that are not yet
  committed carry ids and time stamps of the master's log (`ChunksAreFromMaster`), also
  when they came from another slave. The master's log only grows as long as its machine
  keeps it, so a reply stays true however late it is applied, and the slave may have died,
  lost its end and started again before.
* `SpecReplicatesTheLog`: if the master's machine keeps its log, the initial states map to
  the initial state of `ReplicatedLog`, and each step is `Write` (`Commit`), `Copy`
  (`Apply`), `LoseEnd` (`Crash` of a slave) or a stutter.
* `SpecReadyHasCaughtUp`, from `CatchesUp` of every slave: until it registers it reads from the
  node it was pointed at, the transactions of a reply are the next of its log
  (so none ends the loop of `Apply`), and a reply that ends at the counter of that node is what
  was missing. The goal is never more than that node has, because a crash that shortens its log
  takes the goal with it.

`ElectionProofs`

* `SpecTypeOK`, for any number of deaths, returns and cut links. The CHOOSE of `Best` is one of
  them: that a finite set of nodes has one which no other beats (`LargestExists`) is shown by taking
  the smallest set that has none.
* `SpecOneMaster`, `SpecLogsAgree`, `SpecWinnerHasMost`, if `OneDeath`: slaves start one by one,
  one process dies, whichever and whenever, no link is cut and nothing is started again, and
  `Skew < FailOne` and `Skew < FailTwo - FailOne`; and if `ClocksAgree`: no two clocks differ by
  `FailOne - Skew` intervals or more. The number of nodes, which is finite, and of
  writes, and the two fail counts are any. The properties say nothing of what a slave decides by,
  so they are far from inductive; `EInv` is. It has two eras. While the first master lives
  (`FirstEra`) no poll fails, the log of every slave is where the master's begins, and every slave that
  runs is on every list of hosts. After its death (`SecondEra`):
  - `Polling` and `Decided`: a slave still counts failures, and has told its length if it has
    counted to `FailOne`; or it has elected, and then the master, the node it registers with or the
    node it polls is the one that no other beats (`Longest`) by the lengths that were told;
  - `Paced`: from the cutoff of a slave, an interval passes with each further failure of any of
    them, the first `Skew` excepted;
  - `Heard`, `InTime`: what anybody has heard is what was told, and has a time stamp that is not
    before the cutoff of anyone who has yet to elect, although the one is of the sender's clock and
    the other of the receiver's, so `MasterUpdate` leaves nobody out;
  - `MostIsKept`: every log is where the log of that one begins, and if it is a master
    already, all have told it, so the list it sends to all when others register is not older than
    what they have heard.

  `ClocksAgree` comes in at `InTime`: `FailOne - Skew` intervals are what a clock that is behind can
  lose between a cutoff and `HostUpdate`. `ElectionClocks.cfg`, with a difference of 1 where less than
  1 is allowed, breaks `OneMaster` and `WinnerHasMost`. `Skew` comes in twice: nobody tells before
  all have noticed the death, else a later cutoff would leave it out, and nobody elects before all have told (`InStepFacts`). With `Skew = 2`,
  `FailOne = 2`, `FailTwo = 5` TLC finds a behaviour that violates `WinnerHasMost`. TLC
  finds none with three deaths of three nodes or two of four, and for more nodes and deaths the
  question is open: a slave whose new master dies counts again with a new cutoff, while
  others may still be at the election before, and `InTime` does not hold between those two.

`ManageDataProofs`

* `SpecReservedIsHeld`, `SpecHeldByOne`, from `ReserveInv`. That two requests do not hold one
  name is not inductive: it needs that what is held is in `tmpcache`, and that a name between
  its test and its setting is free and is claimed once (`ClaimedIsFree`), which is what
  `raced` records the end of. `ReservedIsHeld` needs none of it.
* `SpecTypeOK`, `SpecIndexIsSound`, from `DataInv`: what a request is about to write is a record
  of the name it has in the database, or has an id that is in no other batch (`TransAgrees`), and
  what it has read does not become a record of another name (`FoundIsRecord`). Otherwise a commit
  could take a record from under its key.
* `SpecNewIdIsFree`, if `Replicated = {}`, since then no id is above the counter
  (`IdsAreCounted`).
* `SpecRefusedChangesNothing`, from `ChangesInv`: two handlers work on two requests, and records
  and what was read of them are made of requests that were done.
* `SpecOneRecordPerName`, from `UniqueInv`: until `raced`, the index leads to every record, and who
  has a new record in its batch holds the name, which has no key yet and no second new record. A
  name stays held to the end of its request, so nobody else can write it between the read and the
  commit of the handlers that read first.
* `SpecImplementsRecordStore`, from `StoreInv`: who reserves first has in its batch what is in the
  database with its own request added (`BatchIsCurrent`), so `Commit` is `Write` of `RecordStore`
  and every other step a stutter. `BatchIsHeld` says why that stays true: others commit other
  names. For handlers that read first `NoLostUpdate` fails, and this is where the proof needs
  `ReserveFirst`.

`CopiesProofs`, on `RecordCache`

* `CacheSpecTypeOK`, from `TInv`: time stamps grow with the changes (`StampsCount`), and what the
  cache or a reader holds was the record at some moment (`CopiesAreVersions`).
* `SpecStampIsTrue`, `SpecAnswerAloneIsCurrent`, both if no two changes have one time stamp
  (`~SameMs`). No category has a time stamp from the future (`StampsAreOld`), so a change
  does not make an old stamp true by accident.
* `SpecCacheAloneIsFresh`, from `AloneInv`: with one handler at a time (`OneHandler`) the
  entry is the record (`EntryIsCurrent`) and has the stamps of its categories
  (`StampsAreThere`).

and on `SearchIndex`

* `SpecTypeOK`, `SpecFoundIsStored`, `SpecCommandIsObeyed`, `SpecIndexIsCurrent`. `IInv` adds that the
  version a worker has in hand is the last of its record (`TasksAreLast`), that documents are made
  of versions that were stored (`DocsAreVersions`), that what there was at a command is not lost from the
  writer (`AskedIsHeld`), and for `zpds_xapindex` that each record is unread, in the queue, in the
  hands of a thread or in a database (`ToolHasAll`), which is why joining the threads before
  merging leaves none out. `DownIsIdle`: the tool runs where no server does.

`SessionsProofs`

* `SpecTypeOK`, `SpecSessionIsEarned`, `SpecLivesItsLifetime`. `IInv` adds that a handler which
  answers has a version of the record (`AnswersFromCopy`), that the cache is not ahead of the
  database (`CacheIsBehind`), and that a session is signed with the time of some clock when it was
  given (`SignedWhenBorn`), without which its age says nothing about its birth.
* `SpecKeyEndsSessions`, from `QuietIsCurrent`: on a node where no handler ran while a change was
  on its way, the cache has the record of the database and a handler the one there was when it
  began. This is what `crowded` records the end of.

`PoolProofs`, on `Forwarding`

* `SpecTypeOK`, `SpecAnswersAreTrue`. `PartsAgree` ties the two tasks of a write: the master takes
  it after the slave's handler has sent it, and that handler waits until the master has answered.
  `CommittedOnce`: a write is committed before it is pushed and not before the master takes it, so
  neither a failed push nor a dead slave turns an answer round. What `AnswersAreTrue` excepts is in
  `threw`, where only an exception after the log was written puts it.
* `SpecStuckIsAJam`: when no handler can go on and a call waits, there is a thread of the master
  that pushes to a slave, and every thread of that slave waits for the master. The argument goes along the
  guards that are false: a call that waits has no thread at its other end, so a pool is full.

and on `Shutdown`

* `ShutdownSpecTypeOK`, `SpecWritesHaveEnded`, `SpecCommitsWhole`, from `ShutdownInv`: a handler that
  writes has its name in `tmpcache` (`WritesAreReserved`), after the sleep only slow ones can still
  get there (`OnlyLateReserve`), and the process ends after the pool was joined (`PoolIsJoined`).

`DataFunctionsProofs`, for lists, texts and profiles of any length

* The inductive invariant, `Answered`, is that a request is as it came and its answer what the function
  makes of it; this holds by the actions, and what is proved is about the functions. A function is a fold over a list,
  and a fold has stages, what it has made of the list after each element
  (`FoldExists`, then `StringStages`, `TagStages`, `JoinStages`, `KeepStages`, `PassStages`). A fact
  about the loop goes from each stage to the next. The induction is by a least counterexample
  (`InductionUpTo`): the theorems of the library take the statement as a parameter.
* `SpecCategoriesAreMerged`, `SpecTagsAreMerged`. After *i* elements the list has the places of the
  record and of the elements that may be used, each once, with the last value (`TagsMerged`). The
  request sent again finds a place for each element with its value in it (`PutTagsTwice`).
* `SpecTextIsFound`. Where no two neighbours have one stem, what a query has joined is each time two of its words
  (`JoinedOnce`), and the index has made a term of the same two (`JoinedIsTerm`); the rest are
  words, whose terms the index has (`WordIsTerm`). That they are the same two rests on
  `2 * MergeLimit < MinStem`: a word that is joined is shorter than what is stemmed.
* `SpecBestFirst`. After *i* rules, what is found is all that the first *m* rules find, and the pass has tried
  *i* = *m* or has stopped with enough, every rule after the *m*-th being lighter than that
  (`IsPassed`). An item weighs what the first rule that finds it weighs, since rules are sorted
  (`WeightOfNew`), so what is left out weighs less than all that was found (`PassEnds`). The keys of
  two items differ, and have the order of weight, rounded score and id (`BeforeIsAhead`); a score that
  is higher by `Grain`, a ten-thousandth, is higher when it is rounded. Nearer scores may tie, and then
  the larger id goes first, also where the list is cut (`HigherGoesFirst`). It assumes
  that ids are at most `MaxKey` and that scores are not negative and fit into their half of the key
  (`Fitting`); with negative ones it is false (`DataFunctionsFails.cfg`).

Only model-checked: the liveness properties (`AckedIsReplicated`,
`EveryCommitReplicates`, `MasterComesBack`, `Exits`, `EveryHandlerEnds`), which are out of the prover's reach,
and `Election` when a second process dies, a link is cut or a process comes back, where only its types
are proved. Every other invariant and action property of the runs is proved, under the assumptions
named above, and so are both refinements.

## Where the code does otherwise

Each of these properties fails, and the configuration gives the behaviour. `ReplicationDead.cfg`
is a run of the project, the others are kept to be run by hand: TLC stops at the first property of
a configuration that fails, and shows the next one once that is taken out.

| Configuration | Property | What happens |
|---|---|---|
| `ReplicationDead.cfg` | `EverySlaveReplicates` | One failed `R_READONE` in `SyncFromMaster` ends the sync thread; the node goes on serving an old copy. |
| `ManageDataFails.cfg` | `NamesAreUnique` | `ReserveName` is a test and a setting: two handlers pass the test, two records of one name. |
| | `NoLostUpdate` | Users, exters and items are read before their name is reserved: an update committed in between is undone. |
| | `NewIdIsFree` | `maincounter` does not follow what a slave copies; once it is master, new records get ids that are taken and are refused. |
| `ShutdownFails.cfg` | `AlwaysExits` | The handler of SIGTERM waits, on the io thread, for a commit that waits for an answer by the io thread. |
| | `ResetsHaveEnded` | `ResetPass` reserves nothing: the servers stop in the middle of its commit. |
| | `SyncCommitsWhole` | Nothing joins the sync thread, which frees its lock between two transactions: the process can end in the middle of the next. |
| `StoreTransFails.cfg` | `LogHasNoGap` | A crash after `GetNext` with a later id written leaves a gap; `ReadLog` stops at it, so no slave gets anything after it. |
| | `SlaveDataMatches` | A crash between `CommitLog` and `CommitData`: slaves apply what the master never does. With `MaxCrash = 0` instead: two commits that reserved nothing (`ResetPass`) write log and data in opposite orders. |
| `ReplicationFails.cfg` | `PushedIsApplied` | `SharedMap::Swap` takes its argument by value: pushed transactions are thrown away (they come by the poll). |
| | `ComparisonIsRight` | `CompareLog` asks for `logcounter - 1`: a different last entry is not seen. |
| | `EverySlaveServes` | A slave that is started again with a log hangs in `CompareLog` of `SyncFirst`: its answer needs the io thread, which `main` runs after `init`. |
| `ElectionGone.cfg` | `MasterAlwaysComesBack` | The elected node dies before the others registered: failcount is past the value that elects. |
| `ElectionClocks.cfg` | `OneMaster` | A slave whose clock is ahead has a cutoff that the time stamp of another does not reach, leaves it out and promotes itself, as the other does, which has more. |
| | `WinnerHasMost` | The same: the slave that promotes itself lacks what the other has. |
| | `NobodyIsMisled` | With `Calm = FALSE`: a slave whose sync thread has ended tells nothing after the death, but the time stamp it registered with is ahead, so it is elected and polled for ever, and no master comes back. With equal clocks (`MCSame`) all three hold. |
| `ElectionCut.cfg` | `OneMaster` | A slave that cannot call the master makes itself one. With `MaxCut = 0` and one death and one return instead: the first master, started again with its configuration, is a master next to the elected one. |
| `ElectionStart.cfg` | `OneMaster` | The master dies while a slave has registered and is not ready: it is told nothing and counts for nothing, two slaves promote themselves. |
| `RecordCacheFails.cfg` | `CacheIsFresh` | A reader puts an old record in the cache after the commit has deleted the entry. |
| | `AnswerIsCurrent` | The record is in the cache before its categories are: another reader answers no. |
| | `AnswerAloneIsCurrent` | Two changes with one time stamp: a category that was taken away is valid. |
| `ForwardingFails.cfg` | `FailedIsNotDone` | The connection of a slave's handler is closed after 300 s: its client is told that the write failed, and the master commits it. |
| | `RefusedIsNotDone` | `AddToCache` throws after the write is logged, committed and pushed, or `CommitData` after it is logged: the client is told of a refusal. |
| | `ReasonIsTold` | The master's endpoint catches `LocalException` alone, and sets an `ecode` that is not the one it sends: a slave's client learns only that the write was refused. |
| `SessionsFails.cfg` | `ResetEndsSessions` | A new password leaves the signkey as it was, and so the sessions (`ExterDataService.cc` 522). |
| | `OldKeyIsGone` | `ResetPassAction` writes the record it read: a signkey that was changed in between is undone, and the sessions it had ended are valid again. |
| | `FreshIsAccepted` | A node whose clock is behind takes a session that was just given for one from the future. |
| `SearchIndexFails.cfg` | `NothingIsMissed` | `replace_document` throws at a record that is stored: it has no document, and nothing notes it. With `MaxCrash = 1` and `MaxThrow = 0`: after a crash the documents in hand are gone, and nothing at the next start looks for them. |
| | `OneLanguage` | The document in the former language of a record stays, and is found. |
| `DataFunctionsFails.cfg` | `BestFirst` | With scores below 0 (`MakeSortKey<double>` makes a large unsigned number of them) the last comes first. |
| | `HigherGoesFirst` | Two scores that `llround` makes one (`SortHelpers.hpp` 109): the item with the lower one goes first, and at the end of the list the better one is left out. |
| | `BlankKeeps` | With merge, `is_deleted` and `cansee_price` of a category are tested the other way round: what the request leaves blank is taken, what it sets is not. |
| | `ProfileIsReplaced` | With merge, a profile of a type that the record has already is passed over. |
| | `EveryLanguageIsFound` | Every query is stemmed, texts only in English: others are not found by words the stemmer changes. |
| | `RepeatedIsFound` | A query joins all of a word's repetitions to one term, the index two of them at a time. |

## Assumptions

* `StoreTrans`: a batch is written wholly or not at all; a snapshot is consistent (the
  store's promise). A process that dies keeps what was written; loss of unsynced writes is
  in `Replication` (`Lossy`).
* `Replication`: the master is the node whose configuration names none and is down for
  less than the election needs. Entries are compared by time stamp, taken as unique.
  Theorems about prefixes assume the master's machine keeps its log (`Master \notin Lossy`);
  `ComparisonIsRight` shows what happens if not.
* `Election`: slaves poll every 100 ms and a call that fails does so at once, so of two
  slaves that lost their master neither is `Skew` failures ahead, and `Skew` is less than
  `FailOne` and than `FailTwo - FailOne`, which are both 10 in the code. Nothing in the code
  guarantees it: the HTTP client has no time limit. The clocks of two nodes differ by less than
  `FailOne - Skew` intervals (`ClocksAgree`), with the constants of the code about 0.9 s: `MasterUpdate`
  compares the time of the sender (`RemoteKeeper.cc` 98, 64) with a cutoff of its own (138), and
  nothing in the code sets or checks the clocks. In the run they differ by one interval,
  where less than two are allowed; in `ElectionClocks.cfg` by one where less than one is. `Calm` (slaves start one by one and nothing
  dies in between) is assumed by `ElectionSafe.cfg` and by the theorems of `OneDeath`;
  `ElectionStart.cfg` shows why. Nodes are finitely many. A node that comes back as a slave with a
  log never registers (`CompareFirst` of `Replication`), so what returns with one is the first master.
* `ManageData`: rights and validity of data are a choice; `Commit` is one step;
  `Replicated` are records copied before the node became master.
* `RecordCache`: one writer, since the name is reserved or there is one sync thread. The
  properties that hold until `crowded` are those of a pool with one thread
  (`LIBASYNC_NUM_THREADS=1`, README.md). Time stamps of two changes differ, except with
  `SameMs` in `RecordCacheFails.cfg`.
* `Shutdown`: the destructor of the default pool joins its threads, the sync thread is
  detached (async++). Calls are answered when the io thread can bring the answer.
* `Forwarding`: roles are fixed; a step between two waits takes less than 300 s, so a connection
  is closed only when no handler can go on; the master does not die (`Election`); the database or
  Xapian may throw at any write, up to `MaxThrow` times.
* `Sessions`: the difference of two clocks does not change; one handler at a time on a node; a
  session decodes under its own signkey alone.
* `SearchIndex`: the name of an item is reserved while it is committed; a document replaces the
  one of the same id, and a commit of a Xapian database is whole (Xapian's promise); a command
  that commits all databases is one step. When it throws, it keeps what it had in hand or loses that
  of the language, which Xapian does not say.
* `Words`: a text and a query are split into words by one function (`SplitWith`), and no word
  of a query has its spelling corrected in the first pass. `WordsAssumption` is what the code
  defines: `XAP_MERGE_LIMIT` 1, `XAP_MIN_STEM_LEN` 4, `XAP_MAX_SHIN_LEN` 2. `TextAssumption`
  says of the vendored stemmer that the stem of a word of `MinStem` letters or more is longer than
  `MergeLimit`.
* `Ranking`: an item has one score in a search, whichever rule finds it.

## What is not modelled

* *Vendored and third-party code*, more than half of the lines under `src/`: `nlohmann.hpp`,
  `sparsepp`, the Krovetz stemmer and its dictionary, JamSpell with its hash maps,
  Simple-Web-Server, async++. What the program relies on is modelled where it is used: tasks start
  in any order, a call succeeds, fails, loses its answer or is cut after its time, a word has a
  stem. The share of lines the model covers is small for that reason, and because a service is a
  long list of fields and checks around the few steps that can go wrong.
* *Rights of the caller* (`CheckSession` to `WriteActionFilter`): which level may write which field
  is a table of bits, read in one step. A handler is refused or not. `CheckSession` does not
  look at `is_deleted`, `locked` or `expired` of the record, so they are no state of `Sessions`;
  the reset by a one-time password needs `last_otp`, which nothing sets.
* *Documents' values, tags, categories and places* are copied field by field. A record with
  `is_deleted` keeps its document. `R_ADDHOST`, which no node sends, and the administrator's
  record that `WorkServer` creates.
* *Two threads that commit one Xapian database*: `WriteIndex::CommitData` does not take the lock
  that `Update` takes. What Xapian does then is not said by this code.
* *Ids above 2^31* have one sort key (`DR_BUFF_MAX`): `Ranking` has the bound, the run no such ids.
* *Keys of the database*: the kind of record and fields of fixed width in hexadecimal, in the
  order of the numbers; the models have the tuple. The scan of secondary keys
  (`GetKeysFromIndex`) is called by nothing.
* *Encryption, conversions of strings, the configuration* are pure functions or calls into
  libraries. The web services that only read parse a request, call one service and write the
  answer. The tools but `zpds_xapindex` read one file and write another.

## Plan

Done, in this order: `StoreTrans` with its proofs, `Replication` over it with `ReplicatedLog`
and its proofs, `Election`, `ManageData` with `RecordStore`, `RecordCache`, `Shutdown`, and the
proofs about the last three (of `ManageData` with its refinement); then `Forwarding`,
`SearchIndex` and `Sessions` with their proofs, `Merging`, `Ranking` and `Words` with
`DataFunctions`, the return of a node in `Election`, the proofs about the election after one
death, and those about the functions of `DataFunctions`; then clocks that differ in `Election`, the
exceptions of a commit in `Forwarding` and `SearchIndex`, and the hang of `SyncFirst`.

Next: `Election` composed with `Replication`, so that polls read the log in chunks. Next theorem:
`OneMaster` after a second death. The modules declare no RECURSIVE operator and keep their invariants as
conjunctions of named parts, so that they can be proved about.
