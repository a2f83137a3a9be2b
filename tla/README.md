# argusd: a TLA+ model of the inotify watcher daemon

argusd runs on every node of a Kubernetes cluster. A controller tells it over
gRPC which paths of which containers to watch; for each container and subject
it runs one thread that watches the directories below `/proc/<pid>/root` with
inotify and reports every event. This directory models it in two halves: one
watcher thread against a file system that changes under it (`ArgusNotify`), and all
threads together with the gRPC handlers that start and kill them (`ArgusdImpl`),
which implement an abstract specification of the service (`WatchService`). TLC checks
both on small instances; the safety properties of a thread and of the daemon, and the
daemon's refinement of the service, are proved for every instance.

## 1. Inventory

| Part | State | Operations | Interacts with |
|---|---|---|---|
| Event loop, `lib/argusnotify.c` | `struct arguswatch` (fd, eventfd, epoll fd, slot, flags), the read buffer | `start_inotify_watcher`, `reinitialize`, `process_inotify_events`, `process_next_inotify_event`, `send_watcher_kill_signal` | kernel (inotify, epoll, eventfd), tree walk, cache, log function |
| Tree walk, `lib/argustree.c` | root paths and their `stat`s; `watch_`, `rootstat_`, `foundpath_` (static) | `watch_subtree` (nftw), `watch_path`, `rewrite_cached_paths`, `remove_subtree`, `remove_root_path`, `find_replace_root_path` | kernel (lstat, nftw, inotify_add_watch, inotify_rm_watch), cache |
| Watch cache, `lib/arguscache.c` | `wlcache` (process wide), `wd[]`/`paths[]` of each watcher | find, add, remove, grow, mark empty, check consistency | every watcher thread and RPC thread |
| gRPC service, `src/argusd_impl.cc` | `watchers_`, `doneMap_`, `mux_`, `cv_`, `kMetricsWriter` | `CreateWatch`, `DestroyWatch`, `GetWatchState`, `RecordMetrics`, cleanup threads | watcher threads (start, kill), controller |
| Event log, `src/argusd_impl.cc:425-481` | none | `logArgusWatchEvent` | called by the event loop |
| Health service, `src/health_impl.cc` | `statuses_` under `mux_` | `Check`, `SetStatus`, `SetAll`, `ClearStatus`, `ClearAll` | gRPC |
| Server main, authentication | none | set-up | - |

What is hard in it:

* *The tree changes while it is read.* The container creates, removes and renames
  directories between any two system calls of the walk; the walk, the queue of
  events and the cache must agree in the end.
* *Events are late.* An event carries a descriptor that is translated to a path
  when the event is processed; the directory, its name or the whole inotify
  instance may be gone by then.
* *Limits and failures.* The event queue overflows; the number of watches is
  limited; `inotify_rm_watch`, `inotify_init1` and `eventfd` fail on a rebuild.
* *Threads without locks.* `wlcache`, the static variables of the tree walk,
  `watchers_` and `doneMap_` are shared by threads that take no lock.
* *Killing and restarting.* An update kills the threads of a container through an
  eventfd, waits up to two seconds and starts new ones in the same slots.

What makes each part correct: the event loop and the walk cover exactly the
directories the subject asks for, report each event under the path at which it
happened, and survive a rebuild without mixing two instances; the cache gives a
slot to one watcher at a time; the service ends a watcher when it is asked to and no
other, returns from every call, and `GetWatchState` lists what is watched; the health
service is a map.
The hazards are listed, with their lines, in `PROJECT.json`.

## 2. Modules

| Module | Models |
|---|---|
| `Paths` | path strings as sequences of components, with the empty component of a doubled slash (`rewrite_cached_paths` produces one) |
| `Inotify` | external: directories with inodes, the operations of the container, one inotify instance (descriptors, queue, merging, overflow, watch limit) |
| `ArgusCache` | `arguscache.c` and the list functions of `argustree.c`, as operators on their values |
| `ArgusNotify` | one watcher thread, composed from the three above; its properties |
| `Subjects` | `getEventMaskFromSubject`: the event names of a request and the inotify events they stand for |
| `WatcherThreads` | the life of all watcher threads, `start_inotify_watcher` and `reinitialize`, and what they share: `wlcache`, the static `watch_`, the structs on each other's stacks |
| `ArgusdImpl` | the gRPC handlers and cleanup threads on top of `WatcherThreads`; its properties |
| `WatchService` | abstract: what the daemon promises its controller |
| `MCArgusNotify`, `MCArgusdImpl` | constants for TLC |
| `ArgusNotifyProofs`, `ArgusEventProofs`, `WalkProofs` | theorems about one thread: types; events, instances and reported paths; the walk and the caches it fills |
| `ArgusdProofs`, `ThreadProofs`, `ListProofs`, `ServiceProofs` | theorems about the daemon: types; which thread ends and whom an update waits for; what is listed; the refinement |
| `LookupLemmas` | what a search loop returns, for the proofs |

### State and steps of `ArgusNotify`

A step is one system call of the thread, or one pass of a loop over such calls:
between two system calls the thread shares nothing with the container.

| Variable | In the code |
|---|---|
| `cache` | `wd[]`, `paths[]`, `pathc` of `struct arguswatch`, as one sequence of pairs |
| `rootpaths`, `rootpathc`, `rootstat` | the fields of the same name; a removed root is `NULL` and the array keeps its length, as in `remove_root_path` |
| `follow` | `AW_FOLLOW` in `flags` |
| `slot`, `wlcache` | the field; the global array, each slot `"self"`, `"other"` or `"empty"` |
| `polled` | whether the epoll set contains the inotify descriptor |
| `rooti`, `todo` | `i` of `watch_subtree`; the directories nftw has open or still to visit |
| `idx`, `rpath` | the loops of `check_cache_consistency` and `remove_subtree` |
| `buf`, `atStart` | the events read and not yet processed, and whether the next one is the first of the buffer |
| `logged`, `leaked` | the last event handed to the log function; whether an inotify descriptor was overwritten without `close` |
| `tree`, `kwatch`, `queue`, `inst`, `lost`, `ops` | the kernel's side (`Inotify`) |

| Actions | In the code |
|---|---|
| `WalkRoot`, `WalkVisit`, `WalkSkip`, `WalkAbort`, `WalkList`, `WalkDone`, `WalkDoneNoEventfd` | `watch_subtree` and nftw with `traverse_tree` and `watch_path`; what its caller does next |
| `CheckEntry`, `CheckDone` | `check_cache_consistency` |
| `Reinitialize` (used by four actions) | `reinitialize` up to `watch_subtree` |
| `RemoveEntry`, `RemoveFailed`, `RemoveDone` | `remove_subtree` and what its two callers do on -1 |
| `ReadEvents` | the first `read` of `process_inotify_events` |
| `ProcessUnwanted`, `ProcessOverflow`, `ProcessCreate`, `ProcessDeleteSelf`, `MovedFrom*`, `MoveSelf*`, `ProcessOther` | the branches of `process_next_inotify_event`; together they are exhaustive |

Three details of the code that are easy to overlook and are in the model:

* `find_watch_checked(-1)` never finds a slot, so the rebuild of the overflow
  branch is not reached.
* `event + evtlen` (line 328) is arithmetic on `struct inotify_event *`: the "next"
  event is 16 times too far away, beyond what `read` wrote. Whether the bytes there
  look like a matching `IN_MOVED_TO` is a free choice (`MovedFromMatched`,
  `MovedFromUnknown`, `MovedFromOut`).
* After a lone `IN_MOVED_FROM` the loop resumes one byte before the buffer. The
  events of the second `read` are lost; what is decoded instead is a free choice,
  of one event at most (`MovedFromHanging`).

Abstractions: only directories have names of their own (a file's event is the kind
`MODIFY`, which is logged and nothing else); opening a directory and adding its watch
is one step of nftw; `FTW_SKIP_SIBLINGS` skips each sibling by the same rule, since
they have the same level; the search of `find_replace_root_path` for a moved root is one
step; a directory that is removed loses its watch at once, even
if the walk still has it open; no rename replaces an existing directory; allocation
never fails.

### State and steps of `WatcherThreads` and `ArgusdImpl`

Here the inotify side of a thread is reduced to what threads can do to each other:
a walk adds one entry to the paths of a struct, the key (pid and sid) of the subject
whose directories it walked. A thread is named by its stack, because that is where
its `struct arguswatch` lies and what `wlcache` points to, during its life and after.

| Variable | In the code |
|---|---|
| `pc`, `key`, `local` | where a thread is; the pid and sid it was started with; its local variables |
| `watch` | its pointer to a struct: its own, or the one it found in `wlcache` |
| `struct` | the struct on each stack: `pid`/`sid`, `slot`, the counter of its eventfd, who made its epoll instance and which instances have the eventfd, its paths |
| `wlcache`, `walker` | the global array; the static `watch_` of `argustree.c` |
| `watchers`, `doneMap` | `watchers_` (a handle is its list of pids), `doneMap_` |
| `subjectLen` | what each cleanup thread has captured |
| `op` | the call each gRPC thread is serving, and its next step |
| `churn`, `calls` | bounds: events of containers that do more than log, calls still to come |
| `asked` | auxiliary: whether a kill for its pid was *sent* since the thread was started, delivered or not |
| `robbed` | auxiliary: pids of threads whose struct was overwritten by a thread on the same stack, or closed under them by another thread on its way out |
| `contested` | auxiliary: pids that two calls were about at a time |

| Actions | In the code |
|---|---|
| `Begin` | `start_inotify_watcher`: find the struct of this pid and sid or make one; `reinitialize` closes and clears what it found |
| `Walk`, `Visit` | `watch_path_recursive` sets `watch_`; nftw calls `traverse_tree`, which uses it |
| `AlreadyCached`, `PickSlot`, `Put` | the second half of `reinitialize`; `find_empty_cache_slot`; `add_watch_to_cache`; then the epoll instance |
| `ReadEventfd`, `Out` | the epoll loop reads a kill; the code behind `out:` |
| `Rewalk`, `PutBack` | a directory was created: the thread walks again, then writes its struct back to its slot (`argusnotify.c:230-237`) |
| `Removal`, `RemoveEntry`, `RemoveDone`, `RemoveFailed` | a directory or root was moved away: `remove_subtree`, whose `mark_cache_slot_empty(i)` empties slot `i` of `wlcache`, whoever has it (`argustree.c:538`), for any number of entries; it ends, or fails and the thread rebuilds |
| `Follow`, `Inconsistent`, `Rebuild` | a followed root was moved (this sets `watch_` too), or a descriptor is not found where it must be: `reinitialize` from the event loop |
| `EpollClosed` | `epoll_pwait` fails because another thread with the same struct has closed its epoll instance |
| `CreateWatch`, `DestroyWatch` | the handlers up to their first effect: look up the handle |
| `KillNext`, `WaitDone`, `WaitTimeout`, `StartNext`, `Push`, `Erase` | their further steps; one access to shared state each |
| `Cleanup` | the cleanup thread of a watcher thread |

`GetWatchState` changes nothing: what it returns is the operator `Listed`.

Details of the code that are in the model:

* A struct is found by pid and sid, so a thread started while its predecessor is
  alive takes over the predecessor's struct and closes its descriptors.
* The predicate of the wait looks at the flags of *all* pids, so with any other
  container watched an update always waits the full two seconds.
* An eventfd adds up what is written to it: two kills make 18, and
  `18 & ARGUSNOTIFY_KILL` is 0, so the thread does not stop (`IsKill`).
* `findArgusdWatcherByPids` goes by the last pid of the request only.

Nothing is assumed about the scheduler. Threads start, walk and register while others
do, a stack is given to the next thread as soon as it is free, a kill may be sent to a
thread that is starting or rebuilding, and reaches nobody then, a cleanup thread may be
late, and the container may have slots emptied at any time. What a thread takes for its
own is therefore not its own in general, and the properties say what holds all the same;
what does not is in the violation runs. The constant `Serial` (TRUE in `stack_reuse` only)
keeps two threads from initialising at the same time. It only takes behaviours away: the
counterexample found with it is one without it, and shows the reuse of a stack by itself.

The auxiliary variables are read by properties only. *Asked* means that
`send_watcher_kill_signal` was called for the pid: that is what the service does to stop a
watcher, and whether the thread hears of it is another question, answered in the negative
by `second_watcher`.

Abstractions: making the eventfd is one step with looking for a slot, and entering it in
the epoll set one step with registering the struct (neither touches what other
threads use before the struct is registered);
an index of `remove_subtree` beyond the end of `wlcache`, written outside the block, is left out;
the end of a thread and the release of its stack is one step with its cleanup;
locals that are not read again are reset; a walk visits one directory; a closed
descriptor number is not reused by another thread; a handle is compared by its pids,
where the code compares pointers (they differ only if two calls are about the same pod at
a time, and of such a pod nothing is claimed); stacks and gRPC threads are interchangeable, so the
first unused one stands for all.

## 3. Runs

`notify_*`, `overflow`, `create_after_delete` and `slot_clobbered` are of `MCArgusNotify`, the
others of `MCArgusdImpl`. Deadlock is not checked: a thread whose container has
spent its operations waits in `epoll_pwait` for good, a thread that was killed by
an invalid access has stopped, and in the daemon the calls are bounded and the threads
that are left wait to be killed.

| Run | Question | Distinct states |
|---|---|---|
| `notify_mkdir` | Are directories that appear while the thread walks, reads or walks again all found? (`Coverage`, `NothingUnknown`, and `EventuallyCovered` under fairness) | 177,461 |
| `notify_rmdir` | Two roots, removal and reuse of names and inodes, full `wlcache`: is every event reported under the right path (`ReportedPath`), no descriptor cached twice (`NoDuplicateWd`), every count in range (`TypeOK`), no other watcher's slot taken (`OtherSlotsKept`)? | 1,071,443 |
| `notify_rename` | Renames of directories and roots, with and without following, with failing system calls: does a rebuild ever mix two instances? (`CacheOfInstance`, `EventsOfInstanceUnlessFollowing`) | 2,555,320 |
| `daemon` | Calls for two pods while their threads start together, walk, rebuild, empty slots of each other, share structs and reuse stacks: does a watcher end that nobody asked to (`OnlyAsked`), is `GetWatchState` exact (`ListExact`), does an update wait for a pod that has no thread left (`NoWaitForNobody`)? | 1,652,168 |
| `daemon_calls` | One pod created, updated and destroyed, under fairness: does every call return (`CallsReturn`), and is `WatchService` implemented, its promise to settle the list included (`ServiceSpec`)? | 226,524 |

The bounds. `OpBudget` (2 to 4) bounds the operations of the container; each race of
the list of hazards needs at most three of them. In the passing runs `Inode` has one more
element than the initial tree at least, so that an inode is reused after a removal; `Name`
includes the name of a root, so that a directory below a root can be called like one.
`QueueLimit` is smaller than the events that `OpBudget` operations can cause in
`notify_rmdir` and `notify_rename`, so that overflow happens there; in `notify_mkdir`
it is large enough for `Coverage` to be about the code and not about lost events.
`ReadMax` of 2 or 3 makes a buffer end between any two events and hold several;
the real buffer of 272 bytes holds 1 to 17. `MaxWatches` = 2 in `notify_rename` makes
`inotify_add_watch` fail. In `daemon` and `daemon_calls`, `MaxCalls` = 3 is create, update and
destroy of one pod, or two of these and a call for the other pod in between. Each call
starts one thread at most, so `Stacks` = 3 are always enough and are reused as soon as
one is free; with fewer a call would wait for a stack, which it does not in the code.
`MaxChurn` = 1 puts one event of a container, and with it any number of emptied slots,
at any moment of it; `AllocInc` = 2 makes `wlcache` grow twice. A request without pids (the
container is gone) is among the calls of `daemon_calls`. One call is served at a time in
both runs; with two at a time the invariants of `daemon` hold as well (12,638,378 states),
but that takes too long to be repeated with every change, and the theorems
cover it.

Fairness of `ArgusNotify`: `FairSpec` is weak fairness of `Thread`, the disjunction of all steps of the
thread. It is a thread of its own that only waits in `epoll_pwait`, which returns when
the queue is not empty. Nothing is assumed of the container.

Fairness of `ArgusdImpl`: weak fairness of each handler, and of the own steps of each
watcher thread together with its cleanup thread. They are threads of the
operating system; a handler waits only in `cv_.wait_until`, which has a limit
(`WaitTimeout`), a watcher thread only in `epoll_pwait`, which returns when
the eventfd has a kill. Neither calls nor events of the container are fair, nor is
`EpollClosed`: a thread that already waits on an instance goes on waiting when it is closed.

### The service and its refinement

`WatchService` has the set of containers with a watcher nobody has asked to stop (`watched`),
the set that `GetWatchState` returns (`listed`) and the set of those nothing is promised
about any more (`exempt`). A watcher starts, and leaves `watched` only by being asked to
stop; a container is put on the list only while it is watched, and is taken off only
when it is not; and none stays on the list without a watcher: it gets a new one or is taken
off (`Settle`, weakly fair). The promise is for each container by itself.

The refinement mapping of `ArgusdImpl`: `Watched` is read off the threads that live and
were not asked, `Listed` is the union of the handles in `watchers_`, and `Exempt` is
`contested \cup robbed`. Both exemptions are needed. Two calls about the same pod at a time
find the same handle, or none, and store or erase it twice, because no lock is held across a
call (`contested`). A thread whose struct is overwritten on a reused stack, or closed by
the thread before it, ends or goes deaf unasked (`robbed`). Neither
spreads: of every other container the service keeps its promise, however
many kills were lost.

### Where the code departs from its comments and documents

Seven runs expect a violation. Each states what a comment or document of the
repository says, and TLC finds a behaviour of the code that contradicts it.

| Run | Said | Done |
|---|---|---|
| `overflow` | `docs/TECHNICAL_DETAILS.md:21`: "In the event of an overflow, the tree is rebuilt" | nothing is rebuilt (`argusnotify.c:384-387`); a directory whose `CREATE` was dropped is never watched |
| `create_after_delete` | `docs/TECHNICAL_DETAILS.md:21`: the data structure "is kept up-to-date based on create, delete, and move events" | the `IN_IGNORED` of a removed directory discards the `CREATE` behind it in the buffer |
| `slot_clobbered` | `argustree.c:493`, `arguscache.c:187`: the entry of the path is marked unused | the slot of `wlcache` with the same index is overwritten, whoever owns it (`argustree.c:538`) |
| `done_flag` | `argusd_impl.cc:86`: "Wait for all inotify threads to be finished and cleaned up" | each cleanup thread counts in a copy of its own (`argusd_impl.cc:399`): with two subjects the flag is never set, and an update waits though every thread is gone |
| `start_race` | `argustree.c:363-364`: the walk "adds a watch for each directory in the tree"; `README.md:14`: "Handles multi-threaded operations of creating watches" | two threads that start together share `watch_`, and one gets the directories of the other |
| `stack_reuse` | `arguscache.c:205`: "Find a free slot in the cache" | the struct of a thread that has ended stays in `wlcache`; a thread on the same stack makes its slot look free |
| `second_watcher` | `argusd_impl.cc:83,86`: "Stop existing watcher polling.", "Wait for all inotify threads to be finished and cleaned up" | a kill sent to a thread that is starting reaches nobody, the wait gives up after two seconds, and the new thread takes over the struct of the first: two threads watch for one container and subject |

`OtherSlotsKept` and `QuietCovered` hold where those causes are absent; the passing
runs check the first without renames and the second, strengthened to `Coverage`,
without removals and overflow. `NoWaitForNobody` holds with one subject per pod, in `daemon` and
by a theorem.

Two departures are in the model and have no run, because one line of code shows them. The
events that `watch_path` requests "for keeping a consistent view of the filesystem tree"
(`argustree.c:309`) are discarded unless the subject asked for them as well
(`argusnotify.c:150`). And `remove_root_path` sets the entry to `NULL` and lowers the count, so
that the *last* root drops off the list (`argustree.c:167-169`).

## 4. Proofs

The theorems hold for all values of the constants that satisfy the named assumptions
of the modules and the hypotheses in the table: any tree, subject, number of
operations, queue and watch limits, buffer size and initial `wlcache`; any requests, number
of stacks, callers, calls and events of containers; `Serial` or not.

| Theorem | Statement |
|---|---|
| `TypeCorrect` | `Spec => []TypeOK` |
| `CacheIsOfInstance` | `Spec => []CacheOfInstance` |
| `EventsAreOfInstance` | `Spec => []EventsOfInstanceUnlessFollowing` |
| `ReportedPathRight` | without renames, `Spec => []ReportedPath` |
| `OtherSlotsStay` | without renames, `Spec => OtherSlotsKept` |
| `NoDescriptorTwice` | without renames and with `RootsApart`, `Spec => []NoDuplicateWd` |
| `EveryDirectoryCovered`, `NoEventUnknown` | with `RootsApart` and `Growing`, `Spec => []Coverage` and `Spec => []NothingUnknown` |
| `DaemonTypeCorrect` | of `ArgusdImpl`: `Spec => []DaemonTypeOK` |
| `DaemonOnlyAsked` | `Spec => []OnlyAsked` |
| `DaemonNoWait` | with `OneSubject`: `Spec => []NoWaitForNobody` |
| `DaemonListExact` | with `PodsApart`: `Spec => []ListExact` |
| `DaemonImplementsService` | with `PodsApart`: `Spec => Service!Safe` |

The hypotheses:

* *Without renames* is `"rename" \notin FsOps`. With renames the three properties do not
  hold: `slot_clobbered` shows it for `OtherSlotsKept`, and the other two fail because
  what follows `IN_MOVED_FROM` is decoded from bytes that `read` did not write.
* `RootsApart`: no path of a subject is at or below another one. The code does not
  check it; with `/a` and `/a/b` what is below the second is cached twice.
* `Growing`: the container creates directories and changes files but removes and renames
  none; the subject asks for `IN_CREATE`; there are as many watches as directories; and a watcher
  starts on a tree that has its roots. Removals, and masks without `IN_CREATE`, make
  the code miss directories (`create_after_delete`, and section 3); without a
  watch left `traverse_tree` stops the walk of its root; and nothing watches the place
  where a missing root would appear. Events may be lost, which the two properties allow
  for; `overflow` shows that they must.
* `PodsApart`: a container belongs to one pod, whose containers do not change. The
  requests come from a controller that lists the containers of a pod; what the code does
  when they change (an update keeps the old handle) is in section 5.
* `OneSubject`: a pod is watched for one subject. `done_flag` shows what two do.

TLC evaluates `RootsApart` and `PodsApart` on every instance, and `Growing` on those that
it is about, `notify_mkdir` and `overflow` (`ASSUME`s of the MC modules).

### One thread

*TypeCorrect.* `TypeOK` is not inductive: an event records the path of the directory
its watch is on, which is a path only if the directory exists. `Inv` adds
`LiveDirsExist`, that the kernel drops a watch together with its directory. That
`rootpathc` stays above zero rests on `FindRootPath`: a root that was found lies
within the count.

*CacheIsOfInstance* needs no more than types: an entry is appended with the descriptor
that `inotify_add_watch` returned, the number of descriptors of an instance only
grows, and the one step that empties `kwatch` empties the cache. Every other step
takes entries away or changes their paths.

*EventsAreOfInstance.* `InstanceInv` adds the queue: all of its events are of the
current instance, so that what `ReadEvents` moves to the buffer is. The rebuilds keep
no event, except when a root is followed or on an overflow; the first is excluded by
`~follow`, the second does not happen, because no cached descriptor is -1
(`CacheOfInstance` again).

*ReportedPathRight.* `ReportInv` relates pairwise the three things involved: an
entry of a live descriptor has the path of its directory (`CacheTrue`); an event of a
live descriptor was sent from where its directory is (`EventsTrue`); and an event and an
entry of the same descriptor agree (`EventsMatchCache`), which is what survives once
the directory is gone. It is needed that a descriptor is not reused within an
instance, and that without renames neither `remove_subtree` nor a rebuild happens
(`NeverRebuilt`, and the kinds in `EventsTrue`).

*OtherSlotsStay.* `SlotInv` adds that from its registration on the watcher has a slot
of its own, which is what the write at the end of a later walk rests on; at the
registration itself `find_empty_cache_slot`, growing the array if it must, returns an
empty one.

*NoDescriptorTwice.* Two entries with one descriptor are two visits of one directory.
`WalkInv` says why there are none: the paths nftw has still to visit are below the
current root and none is below another (`TodoApart`); no cached path is one it will
still come to, and each is below this root or one walked before (`CacheBehind`); so the
path of a visit is new to the cache (`CacheApart`). A directory that nftw lists was cached when
it was visited, and it passes it over from then on (`Ahead` makes the difference). That an equal
descriptor means an equal path is `CacheTrue` of the previous theorem: a descriptor
returned again is of a live watch, whose cached path is the path of its directory.
`check_cache_consistency` only takes entries away, and a root removed from the list is
`NULL` from then on (`RootsTrue`).

*EveryDirectoryCovered* and *NoEventUnknown*. `CoverInv` follows a directory that is asked for
(`Wanted`) from its creation to its entry. It is `Found` if it is cached, or if the walk
still has to come to it: below something on nftw's list, or below a root not yet walked.
The roots are always found; so is every directory with a watch (`WatchedFound`: a watch
outlives the entry when the cache is emptied for a new walk); and what is in a cached directory
is found, or a pending `IN_CREATE` announces it, or an event was lost (`ChildrenFound`). The
steps that could break this are

* a creation in a directory that was already listed: it was cached when it was visited,
  so its watch announces the new one; an equal event at the end of the queue announces it as well,
  since both are of the same directory;
* the listing itself: every name there is now is put on the list (`EveryNameListed`), and
  whatever is below the directory is at or below one of them;
* the event: it is of a cached descriptor (`PendingKnown`), so it is not discarded, and
  either its path is cached or all is walked again, which has everything ahead
  (`WalkAgain`);
* a directory passed over: then nothing at or below it is asked for (`SkippedUnwanted`),
  because the rule of `traverse_tree` is closed downwards; conversely what is
  visited is asked for (`VisitedWanted`), for which `WalkSound` says how deep each item is and that no
  component above it is ignored.

At rest nothing is announced or ahead. If a wanted directory were not cached, one
with a shortest path would be in a cached one (`AllCached`), against `ChildrenFound`. TLC checked
`CoverInv` before it was proved, on `notify_mkdir`, on two roots with a queue of 2
(145,173 states) and on a subject that is not recursive (18,552 states).

### The daemon

*DaemonTypeCorrect.* `DaemonTypeOK` is not inductive: a step uses pointers and list
elements that must be there. `ThreadInv` adds that a thread past `Begin` points
to a struct that has a key, and that the static `watch_`, once set, leads to one.
`HandlerInv` adds that a handler about to kill or to start has a pid left to do it
for, that the subject it is at is one of its request, and that the flag of a pid is in
`doneMap_` before its second subject is started, so that `doneMap_[pid]` is not read
before it was written. What goes wrong in the violation runs is whose struct a thread
uses, never that it uses one.

*DaemonOnlyAsked.* A thread leaves its loop because it read a kill, and an eventfd does not
say for whom a kill was. `AskInv` says for each thread that, unless it was robbed, its
struct has its own pid and sid, that kills it can still read from the eventfd were written
after it was started, and that nobody has closed the epoll instance it is to wait on. A
thread that takes over a struct closes the eventfd, with what was in it, before it listens
to a new one; that is the step the theorem rests on. A kill is written only to structs of its pid
(`OfPid`) and marks every thread of that pid as asked. Overwritten slots do not matter here:
they can keep a kill from a thread but bring it none.

*DaemonNoWait.* `FlagInv`: a flag of `doneMap_` that is not set belongs to a pid with a thread
that is not cleaned up yet, and each cleanup thread has captured 1, so that the last one
sets the flag. A flag that is set too early, by a late cleanup thread, does no harm here.

*DaemonListExact.* `ListInv` relates calls, handles and threads. A call kills what it found and
starts what it was asked for (`CallShape`); handles are those of pods (`HandlesOfPods`). Of
each pid that is not contested: one call at a time is about it (`Alone`), one handle has
it (`Once`), and the call knows whether there is one (`Knows`). Of each that is not exempt: at
every place in the call it is known whether the pid is watched (`Progress`), and between
calls it is listed exactly if it is watched (`AtRest`). That a thread leaves `Watched` only by
a kill is `AskInv`.

*DaemonImplementsService.* `DInv`, `AskInv` and `ListInv` give each step its counterpart:
`StartNext` is `Start`; `KillNext` is `Stop`; `Push` is `List` and `Erase` is `Unlist`, which are allowed
by `Progress`; a new call, or a `Begin` on a reused stack, is `GiveUp` of what becomes exempt; the
`Out` of a robbed thread is `Fail`; every other step changes nothing the service has. `Safe` is
`WatchService` without its fairness.

TLC checked `AskInv`, `FlagInv` and `ListInv` before they were proved, with two calls at a time on
one pod (1.7 million states) and on two (0.6 million).

Only model-checked: the liveness properties (`EventuallyCovered`, `CallsReturn`, the fairness
in `ServiceSpec`), which are out of the prover's reach. The properties that the code
does not have are refuted by TLC and stated by no theorem.

## 5. Not modelled

* Writes beyond the end of `wlcache` (`mark_cache_slot_empty` with the index of a path that
  has no slot), and the stack of a thread between its end and its next owner's first write.
* A realloc of `wlcache`, or a change of `watchers_` or `doneMap_`, torn by another
  thread: each access is one step. What a torn access leaves is not defined by the
  language, so no property could hold.
* `RecordMetrics`: it waits for good on a condition variable of its own; the stream
  it serves is output only.
* The health service: nothing in the repository calls its setters, so its map is
  always empty and `Check` is constant. (`SetAll` assigns to copies of the entries.)
* Pods whose pids change between two calls: the actions allow it (`FindWatcher` goes by the last
  pid), the instances do not. An update keeps the old handle, so that `ListExact` does not hold there;
  it is a hazard in `PROJECT.json`.
* Numbers of closed descriptors that another thread is given, so that a late `close` or `write` hits
  a descriptor that is not its own.
* Roots that are not directories, `AW_ONLYDIR`, and the start-up checks of
  `validate_root_paths` that only print.
* `IN_UNMOUNT`: `getEventMaskFromSubject` cannot produce it, so that line 149 discards
  the event before its branch.
* Failure of the first `inotify_init1`, `eventfd` or `epoll_create1`, which ends the
  thread or stops the process with an assertion.
* Formatting of log lines, flags and TLS set-up of the server, and `argusd_auth.cc`,
  which is not installed. The container look-up (libcontainer) and the protocol
  (argus-proto) are submodules outside the repository.

## 6. Plan

1. *Done:* one watcher thread (`Paths`, `Inotify`, `ArgusCache`, `ArgusNotify`).
2. *Done:* several threads (`WatcherThreads`), the service (`ArgusdImpl`), its abstract
   specification and the refinement, subject translation (`Subjects`).
3. *Done:* the proofs of section 4: the daemon's invariants and its refinement of
   the service; of one thread, types, instances, reported paths, slots, descriptors and
   coverage.
4. Renames: of the theorems about one thread only those on types and instances
   cover them. What holds of cache and events until the first `IN_MOVED_FROM` is
   processed is still to be stated.
