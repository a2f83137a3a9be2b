---------------------------- MODULE ArgusNotify ----------------------------
(***************************************************************************)
(* One watcher thread: start_inotify_watcher of lib/argusnotify.c, from the *)
(* first walk of its root paths to its event loop, with the tree walk of    *)
(* lib/argustree.c and the caches of lib/arguscache.c, against a container  *)
(* that changes the watched directories at any moment.                      *)
(*                                                                         *)
(* A step is one system call of the thread or one pass of a loop over such  *)
(* calls; everything between two calls is private to the thread.  pc says   *)
(* which loop the thread is in:                                             *)
(*   walk    watch_subtree; cont says who called it                         *)
(*   check   check_cache_consistency, at index idx                          *)
(*   remove  remove_subtree of rpath, at index idx                          *)
(*   loop    the epoll loop, or the events of buf that it has read          *)
(*   fault   the process was killed by an invalid memory access             *)
(***************************************************************************)
EXTENDS Inotify, ArgusCache

CONSTANTS
    RootPaths,    \* the subject's paths, a sequence
    EventMask,    \* the event kinds the subject asked for
    Recursive,    \* AW_RECURSIVE
    FollowFlags,  \* the values AW_FOLLOW may have
    MaxDepth,     \* max_depth, 0 for no limit
    Ignores,      \* base names to ignore
    ReadMax,      \* bound on the events one read returns (272 bytes hold 1 to 17)
    FdFailures,   \* whether inotify_init1 and eventfd may fail on a rebuild
    InitWlcache   \* wlcache when the thread starts

ASSUME RootAssumption == RootPaths \in Seq(Path \ {NULL})

\* No path of the subject is at or below another one of it.  The code does not ask
\* for this: with "/a" and "/a/b" it walks what is below the second one twice.
RootsApart ==
    /\ \A k \in DOMAIN RootPaths : RootPaths[k] \in Seq(Name)
    /\ \A j, k \in DOMAIN RootPaths : j # k => ~IsPrefix(RootPaths[j], RootPaths[k])

ASSUME MaskAssumption ==
    EventMask \subseteq Kind \ {"IGNORED", "Q_OVERFLOW"}
ASSUME FlagAssumption ==
    /\ Recursive \in BOOLEAN /\ FollowFlags \subseteq BOOLEAN /\ FdFailures \in BOOLEAN
    /\ MaxDepth \in Nat /\ Ignores \subseteq Name /\ ReadMax \in Nat \ {0}
ASSUME WlcacheAssumption == InitWlcache \in Seq({"other", "empty"})

\* The container creates directories and changes files, and removes and renames
\* nothing; the subject asks for IN_CREATE; there is a watch for every directory; a
\* watcher starts on a tree that has its roots.  This is where no directory is missed.
Growing ==
    /\ FsOps \subseteq {"mkdir", "modify"}
    /\ "CREATE" \in EventMask
    /\ IsFiniteSet(Inode) /\ Cardinality(Inode) <= MaxWatches
    /\ \A t \in InitTrees :
          /\ \A i, j \in DOMAIN t : t[i] = t[j] => i = j
          /\ \A i \in DOMAIN t : \A c \in 1 .. Len(t[i]) :
                \E j \in DOMAIN t : t[j] = SubSeq(t[i], 1, c)
          /\ \A k \in DOMAIN RootPaths : \E i \in DOMAIN t : t[i] = RootPaths[k]

VARIABLES
    pc, cont,
    rootpaths, rootpathc, rootstat,   \* struct arguswatch: the root paths
    follow,                           \* struct arguswatch: AW_FOLLOW in flags
    cache,                            \* struct arguswatch: wd and paths
    slot, wlcache,                    \* struct arguswatch: slot; wlcache
    polled,                           \* whether the epoll set has the inotify fd
    rooti, todo,                      \* watch_subtree's i, nftw's stack
    idx, rpath,                       \* the loops of check and remove
    buf, atStart,                     \* events read and not yet processed
    logged,                           \* the last event of this buffer given to logfn
    leaked                            \* an inotify fd was dropped, not closed

rootvars == <<rootpaths, rootpathc, rootstat, follow>>
regvars == <<slot, wlcache, polled>>
walkvars == <<rooti, todo>>
loopvars == <<idx, rpath>>
bufvars == <<buf, atStart>>
obsvars == <<logged, leaked>>
tvars == <<pc, cont, rootvars, cache, regvars, walkvars, loopvars, bufvars, obsvars>>
vars == <<fsvars, kvars, tvars>>

\* A directory nftw has to visit (dir = {}), or one it has visited and whose
\* open stream it has still to read (dir = {its inode}).
Item == [path : Path, level : Nat, dir : SUBSET Inode]

Entry == [wd : Int, path : Path]

LogRecord == [path : Path, kind : Kind, name : Name \cup {Empty}, src : Path]

\* An event decoded from bytes that read did not write; no instance sent it.
NoInstance == 0

----------------------------------------------------------------------------
(* watch_subtree: the walk over the root paths                              *)

StartWalk(caller) ==
    /\ pc' = "walk"
    /\ cont' = caller
    /\ rooti' = 0
    /\ todo' = <<>>

OpenDirs == UNION {todo[k].dir : k \in DOMAIN todo}

\* The events the cache is kept up to date with are asked for at all times.
TreeMask == {"CREATE", "MOVED_FROM", "MOVED_TO", "DELETE_SELF"}

WatchMask(path) ==
    EventMask \cup TreeMask \cup
    (IF FindRootPath(rootpaths, rootpathc, path) > 0 THEN {"MOVE_SELF"} ELSE {})

\* The next root path.  nftw reads through the pointer it is given; lstat in
\* watch_path only fails on a NULL one.
WalkRoot ==
    /\ pc = "walk" /\ todo = <<>> /\ rooti < rootpathc
    /\ rooti' = rooti + 1
    /\ LET root == rootpaths[rooti + 1] IN
       /\ todo' = IF root = NULL THEN <<>>
                  ELSE <<[path |-> root, level |-> 0, dir |-> {}]>>
       /\ pc' = IF root = NULL /\ Recursive THEN "fault" ELSE pc
    /\ UNCHANGED <<fsvars, kvars, cont, rootvars, cache, regvars, loopvars, bufvars, obsvars>>

Visiting == pc = "walk" /\ todo # <<>> /\ Head(todo).dir = {}

\* Slip: the depth is compared without the + 1.
SkippedOneLate(item) ==
    /\ Recursive
    /\ \/ Last(item.path) \in Ignores
       \/ MaxDepth # 0 /\ item.level > MaxDepth

\* traverse_tree returns FTW_SKIP_SUBTREE or FTW_SKIP_SIBLINGS.
SkippedByRule(item) ==
    /\ Recursive
    /\ \/ Last(item.path) \in Ignores
       \/ MaxDepth # 0 /\ item.level + 1 > MaxDepth

\* Slip: a descriptor the instance already had is not appended.
AppendNewOnly(wd, path) ==
    cache' = IF wd \in DOMAIN kwatch THEN cache
             ELSE Append(cache, [wd |-> wd, path |-> path])

\* The end of watch_path: the arrays wd and paths grow by one.
AppendEntry(wd, path) == cache' = Append(cache, [wd |-> wd, path |-> path])

\* traverse_tree and watch_path on a directory that is there.
WalkVisit ==
    /\ Visiting
    /\ LET item == Head(todo) IN
       \E i \in DirsAt(item.path) :
          /\ ~SkippedByRule(item)
          /\ ~NoSpaceFor(i)
          /\ AddWatch(i, WatchMask(item.path))
          /\ AppendEntry(AddedWd(i), item.path)
          /\ todo' = (IF Recursive THEN <<[item EXCEPT !.dir = {i}]>> ELSE <<>>)
                        \o Tail(todo)
    /\ UNCHANGED <<fsvars, queue, inst, lost, pc, cont, rootvars, regvars, rooti,
                   loopvars, bufvars, obsvars>>

\* Nothing to watch here: a rule says so, or the directory is gone.
WalkSkip ==
    /\ Visiting
    /\ SkippedByRule(Head(todo)) \/ ~Exists(Head(todo).path)
    /\ todo' = Tail(todo)
    /\ UNCHANGED <<fsvars, kvars, pc, cont, rootvars, cache, regvars, rooti, loopvars,
                   bufvars, obsvars>>

\* nftw gives up on this root: the directory vanished between its lstat and its
\* opendir, or inotify_add_watch failed with something else than ENOENT.
WalkAbort ==
    /\ Visiting
    /\ \/ ~Exists(Head(todo).path)
       \/ /\ ~SkippedByRule(Head(todo))
          /\ \E i \in DirsAt(Head(todo).path) : NoSpaceFor(i)
    /\ todo' = <<>>
    /\ UNCHANGED <<fsvars, kvars, pc, cont, rootvars, cache, regvars, rooti, loopvars,
                   bufvars, obsvars>>

\* nftw reads the directory it has open, in whatever order, and goes down.
WalkList ==
    /\ pc = "walk" /\ todo # <<>> /\ Head(todo).dir # {}
    /\ LET item == Head(todo)
           names == UNION {ChildNames(i) : i \in item.dir \cap DOMAIN tree}
       IN \E order \in SetToSeqs(names) :
          todo' = [k \in DOMAIN order |-> [path |-> FormatPath(item.path, order[k]),
                                           level |-> item.level + 1, dir |-> {}]]
                     \o Tail(todo)
    /\ UNCHANGED <<fsvars, kvars, pc, cont, rootvars, cache, regvars, rooti, loopvars,
                   bufvars, obsvars>>

\* watch_subtree returns.  After a new directory the watch is put back in its
\* slot; reinitialize goes on to register it and to check the cache.
WalkDone ==
    /\ pc = "walk" /\ todo = <<>> /\ rooti >= rootpathc
    /\ IF cont = "create"
       THEN /\ pc' = "loop"
            /\ wlcache' = ReplaceAt(wlcache, slot, "self")
            /\ UNCHANGED <<slot, polled, idx>>
       ELSE /\ pc' = "check"
            /\ idx' = 1
            /\ polled' = TRUE
            /\ IF FindCachedSlot(wlcache) = 0
               THEN /\ slot' = FindEmptyCacheSlot(wlcache)
                    /\ wlcache' = AddWatchToCache(wlcache)
               ELSE UNCHANGED <<slot, wlcache>>
    /\ rooti' = 0
    /\ UNCHANGED <<fsvars, kvars, cont, rootvars, cache, todo, rpath, bufvars, obsvars>>

\* eventfd fails: reinitialize returns before the descriptors are polled and the
\* cache is checked; what was read before the rebuild is still processed.
WalkDoneNoEventfd ==
    /\ FdFailures
    /\ pc = "walk" /\ todo = <<>> /\ rooti >= rootpathc /\ cont = "rebuild"
    /\ pc' = "loop"
    /\ polled' = FALSE
    /\ rooti' = 0
    /\ UNCHANGED <<fsvars, kvars, cont, rootvars, cache, slot, wlcache, todo, loopvars,
                   bufvars, obsvars>>

----------------------------------------------------------------------------
(* check_cache_consistency                                                  *)

StartCheck == pc' = "check" /\ idx' = 1

\* idx and rpath are locals: they end with the function.
LoopEnd == idx' = 1 /\ rpath' = <<>>

CheckEntry ==
    /\ pc = "check" /\ idx <= Len(cache)
    /\ IF Exists(cache[idx].path)
       THEN idx' = idx + 1 /\ cache' = cache
       ELSE cache' = RemoveItemFromCache(cache, idx) /\ idx' = idx
    /\ UNCHANGED <<fsvars, kvars, pc, cont, rootvars, regvars, walkvars, rpath, bufvars, obsvars>>

CheckDone ==
    /\ pc = "check" /\ idx > Len(cache)
    /\ pc' = "loop"
    /\ LoopEnd
    /\ UNCHANGED <<fsvars, kvars, cont, rootvars, cache, regvars, walkvars, bufvars, obsvars>>

----------------------------------------------------------------------------
(* reinitialize                                                             *)

\* Slip: pathc is not reset.
KeepPaths == cache' = cache

\* clear_watch
ClearWatch == cache' = <<>>

\* The part of reinitialize before watch_subtree returns; rest is what remains
\* to be processed of the buffer.  When inotify_init1 fails it returns at once.
Reinitialize(rest) ==
    /\ NewInstance
    /\ ClearWatch
    /\ polled' = FALSE
    /\ \/ StartWalk("rebuild")
       \/ FdFailures /\ pc' = "loop" /\ UNCHANGED <<cont, walkvars>>
    /\ buf' = rest /\ atStart' = (rest = <<>>)
    /\ LoopEnd
    /\ UNCHANGED <<slot, wlcache>>

----------------------------------------------------------------------------
(* remove_subtree                                                           *)

StartRemove(path) == pc' = "remove" /\ idx' = 1 /\ rpath' = path

\* The entry stays in the cache; the slot of wlcache with the same index is
\* overwritten, whoever owns it; beyond wlcache that is a write outside the heap
\* block, which may go unnoticed.
RemoveEntry ==
    /\ pc = "remove" /\ idx <= Len(cache)
    /\ LET wd == cache[idx].wd IN
       IF InSubtree(cache[idx].path, rpath)
       THEN /\ wd \in LiveWatches
            /\ RmWatch(wd)
            /\ inst' = inst
            /\ IF idx \in DOMAIN wlcache
               THEN wlcache' = MarkCacheSlotEmpty(wlcache, idx) /\ pc' = pc
               ELSE wlcache' = wlcache /\ pc' \in {pc, "fault"}
       ELSE UNCHANGED <<kvars, wlcache, pc>>
    /\ idx' = idx + 1
    /\ UNCHANGED <<fsvars, cont, rootvars, cache, slot, polled, walkvars, rpath, bufvars,
                   obsvars>>

\* Slip: the caller goes on with the events it has.
RemoveFailedGoesOn ==
    /\ pc = "remove" /\ idx <= Len(cache)
    /\ InSubtree(cache[idx].path, rpath)
    /\ cache[idx].wd \notin LiveWatches
    /\ Reinitialize(buf)
    /\ UNCHANGED <<fsvars, rootvars, obsvars>>

\* inotify_rm_watch fails: both callers rebuild and discard the buffer.
RemoveFailed ==
    /\ pc = "remove" /\ idx <= Len(cache)
    /\ InSubtree(cache[idx].path, rpath)
    /\ cache[idx].wd \notin LiveWatches
    /\ Reinitialize(<<>>)
    /\ UNCHANGED <<fsvars, rootvars, obsvars>>

RemoveDone ==
    /\ pc = "remove" /\ idx > Len(cache)
    /\ pc' = "loop"
    /\ LoopEnd
    /\ UNCHANGED <<fsvars, kvars, cont, rootvars, cache, regvars, walkvars, bufvars, obsvars>>

----------------------------------------------------------------------------
(* process_inotify_events and process_next_inotify_event                    *)

ReadEvents ==
    /\ pc = "loop" /\ buf = <<>> /\ polled
    /\ \E n \in 1 .. ReadMax :
          /\ n <= Len(queue)
          /\ buf' = SubSeq(queue, 1, n)
          /\ queue' = SubSeq(queue, n + 1, Len(queue))
    /\ atStart' = TRUE
    /\ logged' = <<>>
    /\ UNCHANGED <<fsvars, kwatch, inst, lost, pc, cont, rootvars, cache, regvars, walkvars,
                   loopvars, leaked>>

Cur == Head(buf)

CurPath == WdToPathName(cache, Cur.wd)

Consume == buf' = Tail(buf) /\ atStart' = (Len(buf) = 1)

DiscardRest == buf' = <<>> /\ atStart' = TRUE

Processing == pc = "loop" /\ buf # <<>>

\* The test on line 149: the descriptor is cached and the kind was asked for.
Accepted ==
    /\ Cur.wd # NoWd
    /\ FindWatch(cache, Cur.wd) > 0
    /\ Cur.kind \in EventMask

Log == logged' = <<[path |-> CurPath, kind |-> Cur.kind, name |-> Cur.name, src |-> Cur.src]>>

ProcessUnwanted ==
    /\ Processing
    /\ Cur.wd # NoWd /\ ~Accepted
    /\ DiscardRest
    /\ UNCHANGED <<fsvars, kvars, pc, cont, rootvars, cache, regvars, walkvars, loopvars, obsvars>>

\* find_watch_checked(-1) never finds a slot, so nothing is rebuilt.
ProcessOverflow ==
    /\ Processing
    /\ Cur.wd = NoWd
    /\ IF FindWatch(cache, Cur.wd) > 0
       THEN Reinitialize(Tail(buf))
       ELSE Consume /\ UNCHANGED <<kvars, pc, cont, cache, regvars, walkvars, loopvars>>
    /\ UNCHANGED <<fsvars, rootvars, obsvars>>

CurRoot == FindRootPath(rootpaths, rootpathc, CurPath)

\* Slip: only what is created directly below a root is looked at.
NewBelowRoot ==
    /\ PathNameToCacheSlot(cache, FormatPath(CurPath, Cur.name)) = 0
    /\ CurRoot > 0
    /\ Recursive

NewDirectory ==
    /\ PathNameToCacheSlot(cache, FormatPath(CurPath, Cur.name)) = 0
    /\ Recursive

\* Slip: pathc is not reset before the walk.
ForgetNothing == cache' = cache

\* pathc = 0
ForgetPaths == cache' = <<>>

\* A directory appeared: unless its path is cached, walk everything again.
ProcessCreate ==
    /\ Processing /\ Accepted
    /\ Cur.kind \in {"CREATE", "MOVED_TO"}
    /\ Log
    /\ Consume
    /\ IF NewDirectory
       THEN ForgetPaths /\ StartWalk("create")
       ELSE UNCHANGED <<cache, pc, cont, walkvars>>
    /\ UNCHANGED <<fsvars, kvars, rootvars, regvars, loopvars, leaked>>

DropRoot(k) ==
    /\ rootpaths' = RemoveRootPath(rootpaths, k)
    /\ rootpathc' = rootpathc - 1
    /\ UNCHANGED <<rootstat, follow>>

\* Slip: the count drops whatever directory was deleted.
CeaseAlways == DropRoot(CurRoot)

CeaseIfRoot == IF CurRoot > 0 THEN DropRoot(CurRoot) ELSE UNCHANGED rootvars

ProcessDeleteSelf ==
    /\ Processing /\ Accepted
    /\ Cur.kind = "DELETE_SELF"
    /\ Log
    /\ Consume
    /\ CeaseIfRoot
    /\ StartCheck
    /\ UNCHANGED <<fsvars, kvars, cont, cache, regvars, walkvars, rpath, leaked>>

\* `event + evtlen` counts in events of 16 bytes: nextevent lies beyond what
\* read wrote, and is within `event + len` unless this event is alone in buf.
Alone == atStart /\ Len(buf) = 1

CachedWds == {cache[k].wd : k \in DOMAIN cache}

MovedDir == FormatPath(CurPath, Cur.name)

ProcessingMovedFrom == Processing /\ Accepted /\ Cur.kind = "MOVED_FROM" /\ Log

\* The bytes at nextevent look like the matching event, on a cached descriptor.
MovedFromMatched ==
    /\ ProcessingMovedFrom /\ ~Alone
    /\ \E w \in CachedWds, n \in Name, k \in 1 .. Len(buf) :
          /\ cache' = RewriteCachedPaths(cache, MovedDir,
                                         FormatPath(WdToPathName(cache, w), n))
          /\ buf' = SubSeq(buf, k + 1, Len(buf))
          /\ atStart' = (k = Len(buf))
    /\ UNCHANGED <<fsvars, kvars, pc, cont, rootvars, regvars, walkvars, loopvars, leaked>>

\* They do, on an unknown descriptor: fd is overwritten, hence never closed.
MovedFromUnknown ==
    /\ ProcessingMovedFrom /\ ~Alone
    /\ leaked' = TRUE
    /\ Reinitialize(<<>>)
    /\ UNCHANGED <<fsvars, rootvars>>

\* They do not: the directory is taken to have left the tree.
MovedFromOut ==
    /\ ProcessingMovedFrom /\ ~Alone
    /\ Consume
    /\ StartRemove(MovedDir)
    /\ UNCHANGED <<fsvars, kvars, cont, rootvars, cache, regvars, walkvars, leaked>>

Garbage == [wd : CachedWds, kind : EventMask, name : Name, src : {<<>>}, inst : {NoInstance}]

\* "Tell caller to do another read".  The descriptor does not block; what the
\* second read returns lies where the loop, resuming one byte before buf, does
\* not find it.  Whether an event is decoded there, and which one, is up to the
\* bytes of the stack; the model decodes one at most.
MovedFromHanging ==
    /\ ProcessingMovedFrom /\ Alone
    /\ IF queue = <<>>
       THEN DiscardRest /\ queue' = queue
       ELSE /\ \E n \in 1 .. ReadMax :
                  n <= Len(queue) /\ queue' = SubSeq(queue, n + 1, Len(queue))
            /\ \/ DiscardRest
               \/ \E g \in Garbage : buf' = <<g>> /\ atStart' = FALSE
    /\ UNCHANGED <<fsvars, kwatch, inst, lost, pc, cont, rootvars, cache, regvars, walkvars,
                   loopvars, leaked>>

\* find_replace_root_path: the path that has the inode the root started with.
ReplaceRoot(k) ==
    LET found == rootstat[k] \cap DOMAIN tree
    IN rootpaths' = IF found = {} THEN rootpaths
                    ELSE ReplaceAt(rootpaths, k, tree[CHOOSE i \in found : TRUE])

\* A root moved, and is followed: the rest of the buffer is kept.
MoveSelfFollow ==
    /\ Processing /\ Accepted
    /\ Cur.kind = "MOVE_SELF" /\ CurRoot > 0 /\ follow
    /\ Log
    /\ ReplaceRoot(CurRoot)
    /\ Reinitialize(Tail(buf))
    /\ UNCHANGED <<fsvars, rootpathc, rootstat, follow, leaked>>

MoveSelfCease ==
    /\ Processing /\ Accepted
    /\ Cur.kind = "MOVE_SELF" /\ CurRoot > 0 /\ ~follow
    /\ Log
    /\ Consume
    /\ DropRoot(CurRoot)
    /\ StartRemove(CurPath)
    /\ UNCHANGED <<fsvars, kvars, cont, cache, regvars, walkvars, leaked>>

\* Everything else is only logged.
ProcessOther ==
    /\ Processing /\ Accepted
    /\ \/ Cur.kind \in {"DELETE", "MODIFY"}
       \/ Cur.kind = "MOVE_SELF" /\ CurRoot = 0
    /\ Log
    /\ Consume
    /\ UNCHANGED <<fsvars, kvars, pc, cont, rootvars, cache, regvars, walkvars, loopvars, leaked>>

----------------------------------------------------------------------------
(* The specification                                                        *)

\* validate_root_paths: the directory each root is when the thread starts, {} if
\* there is none.  Nothing it finds wrong stops the thread.
InitRootStat == [k \in DOMAIN RootPaths |-> DirsAt(RootPaths[k])]

Init ==
    /\ KInit
    /\ pc = "walk" /\ cont = "start"
    /\ rootpaths = RootPaths /\ rootpathc = Len(RootPaths)
    /\ rootstat = InitRootStat
    /\ follow \in FollowFlags
    /\ cache = <<>>
    /\ slot = 0 /\ wlcache = InitWlcache /\ polled = FALSE
    /\ rooti = 0 /\ todo = <<>>
    /\ idx = 1 /\ rpath = <<>>
    /\ buf = <<>> /\ atStart = TRUE
    /\ logged = <<>> /\ leaked = FALSE

Container ==
    /\ \/ \E i \in Inode, p \in Places, n \in Name : Mkdir(i, p, n, OpenDirs)
       \/ \E i \in Inode : Rmdir(i)
       \/ \E i \in Inode, p \in Places, n \in Name : Rename(i, p, n)
       \/ \E i \in Inode : Modify(i)
    /\ UNCHANGED tvars

Walk == WalkRoot \/ WalkVisit \/ WalkSkip \/ WalkAbort \/ WalkList \/ WalkDone
        \/ WalkDoneNoEventfd

Check == CheckEntry \/ CheckDone

RemoveSubtree == RemoveEntry \/ RemoveFailed \/ RemoveDone

Process ==
    \/ ProcessUnwanted \/ ProcessOverflow \/ ProcessCreate \/ ProcessDeleteSelf
    \/ MovedFromMatched \/ MovedFromUnknown \/ MovedFromOut \/ MovedFromHanging
    \/ MoveSelfFollow \/ MoveSelfCease \/ ProcessOther

Thread == Walk \/ Check \/ RemoveSubtree \/ ReadEvents \/ Process

Next == Container \/ Thread

Spec == Init /\ [][Next]_vars

\* The thread runs until it is killed: only its own system calls block it.
FairSpec == Spec /\ WF_vars(Thread)

----------------------------------------------------------------------------
(* Properties                                                               *)

\* Every variable has its type; in particular remove_root_path never takes the
\* count of roots below zero, and no loop runs on an index below its array.
TypeOK ==
    /\ KTypeOK
    /\ pc \in {"walk", "check", "remove", "loop", "fault"}
    /\ cont \in {"start", "create", "rebuild"}
    /\ rootpaths \in Seq(Path) /\ Len(rootpaths) = Len(RootPaths)
    /\ rootpathc \in 0 .. Len(RootPaths)
    /\ rootstat \in [DOMAIN RootPaths -> SUBSET Inode]
    /\ follow \in BOOLEAN
    /\ cache \in Seq(Entry)
    /\ slot \in Nat /\ wlcache \in Seq(Owner) /\ polled \in BOOLEAN
    /\ rooti \in Nat /\ todo \in Seq(Item)
    /\ idx \in Nat \ {0} /\ rpath \in Path
    /\ buf \in Seq(Event) /\ atStart \in BOOLEAN
    /\ logged \in Seq(LogRecord) /\ leaked \in BOOLEAN

\* The path logArgusWatchEvent is given is the path of the directory in which
\* the event happened, at the time it happened.
ReportedPath == \A k \in DOMAIN logged : Resolve(logged[k].path) = logged[k].src

Pending == buf \o queue

Quiet == pc = "loop" /\ Pending = <<>>

\* The directories the subject asks to be watched.
ToWatch ==
    {i \in DOMAIN tree : \E k \in DOMAIN RootPaths :
        LET root == RootPaths[k]
            path == tree[i]
        IN IF ~Recursive THEN path = root
           ELSE /\ IsPrefix(root, path)
                /\ MaxDepth = 0 \/ Len(path) - Len(root) < MaxDepth
                /\ \A c \in Len(root) .. Len(path) : path[c] \notin Ignores}

Covered(i) ==
    /\ i \in DOMAIN tree
    /\ \E k \in DOMAIN cache : cache[k].path = tree[i] /\ cache[k].wd \in WatchesOn({i})

AllCovered == \A i \in ToWatch : Covered(i)

\* Once every event is processed, every directory the subject asks for is
\* cached under its path with a live watch, and nothing else is cached, unless
\* the kernel dropped events: directories created while watch_subtree walks,
\* before or after their parent is listed, are not missed.
Coverage == Quiet /\ ~lost =>
    /\ AllCovered
    /\ {cache[k].path : k \in DOMAIN cache} = {tree[i] : i \in ToWatch}

\* "an internal data structure is kept up-to-date based on create, delete, and
\* move events [...] In the event of an overflow, the tree is rebuilt": once every
\* event is processed, every directory the subject asks for is watched.
QuietCovered == Quiet => AllCovered

\* A directory that should be watched is watched in the end.
EventuallyCovered ==
    \A i \in Inode : (i \in ToWatch) ~> (lost \/ Covered(i))

\* Between two walks every pending event is of a cached descriptor, so no event
\* makes process_next_inotify_event throw away the rest of its buffer.
NothingUnknown ==
    pc = "loop" => \A k \in DOMAIN Pending :
        Pending[k].wd # NoWd => FindWatch(cache, Pending[k].wd) > 0

\* "adding a second cache for the grandchild would leave the cache in a confused
\* state": no descriptor has two entries.
NoDuplicateWd ==
    \A j, k \in DOMAIN cache : cache[j].wd = cache[k].wd => j = k

\* "Discard all remaining events in current `read` buffer": no event of a closed
\* instance is looked up in the cache of its successor.
EventsOfInstance ==
    \A k \in DOMAIN buf : buf[k].inst \in {inst, NoInstance}

\* The same, of the watchers that do not follow a moved root.
EventsOfInstanceUnlessFollowing == ~follow => EventsOfInstance

\* Every cached descriptor was returned by the current instance.
CacheOfInstance == \A k \in DOMAIN cache : cache[k].wd \in DOMAIN kwatch

\* A watcher never overwrites the slot of another one, through which that one
\* is killed.
OtherSlotsKept ==
    [][\A k \in DOMAIN wlcache : wlcache[k] = "other" => wlcache'[k] = "other"]_vars
=============================================================================
