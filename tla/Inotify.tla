------------------------------ MODULE Inotify ------------------------------
(***************************************************************************)
(* What lib/argusnotify.c and lib/argustree.c see of the kernel: a tree of  *)
(* directories that the watched container changes at any time, and one      *)
(* inotify instance (watch descriptors, the event queue and its limit).     *)
(* None of this is code of the repository: it is the environment, modelled  *)
(* from the calls the repository makes (inotify_init1, inotify_add_watch,   *)
(* inotify_rm_watch, read, lstat, nftw).                                    *)
(***************************************************************************)
EXTENDS Paths

CONSTANTS
    Inode,        \* identities a directory can have
    InitTrees,    \* the directory trees a watcher may be started on
    FsOps,        \* which operations the container performs
    Pinned,       \* directories the container neither removes nor renames
    OpBudget,     \* bound on the operations of the container
    QueueLimit,   \* fs.inotify.max_queued_events
    MaxWatches    \* fs.inotify.max_user_watches

ASSUME TreeAssumption ==
    \A t \in InitTrees : DOMAIN t \subseteq Inode /\ \A i \in DOMAIN t : t[i] \in DirPath
ASSUME LimitAssumption == OpBudget \in Nat /\ QueueLimit \in Nat \ {0} /\ MaxWatches \in Nat

VARIABLES
    tree,     \* inode -> path, for every directory that exists now
    ops,      \* operations the container may still perform
    kwatch,   \* kwatch[wd]: the watch of descriptor wd in the current instance
    queue,    \* events waiting in the current instance
    inst,     \* how many instances were created (only read by properties)
    lost      \* an event was dropped from a full queue (only read by properties)

fsvars == <<tree, ops>>
kvars == <<kwatch, queue, inst, lost>>

NoWd == -1

Kind == {"CREATE", "DELETE", "MODIFY", "MOVED_FROM", "MOVED_TO", "DELETE_SELF",
         "MOVE_SELF", "IGNORED", "Q_OVERFLOW"}

\* src and inst record where an event really came from; no code reads them.
Event == [wd : Int, kind : Kind, name : Name \cup {Empty}, src : Path, inst : Nat]

KWatch == [ino : Inode, mask : SUBSET Kind, live : BOOLEAN]

----------------------------------------------------------------------------
(* The directory tree                                                       *)

DirsAt(p) == {i \in DOMAIN tree : tree[i] = Resolve(p)}

Exists(p) == DirsAt(p) # {}

Parent(i) == {j \in DOMAIN tree : tree[j] = Front(tree[i])}

ChildNames(i) == {n \in Name : \E j \in DOMAIN tree : tree[j] = Append(tree[i], n)}

\* Where a directory can be created or moved to.
Places == {<<>>} \cup {tree[i] : i \in DOMAIN tree}

----------------------------------------------------------------------------
(* The inotify instance                                                     *)

LiveWatches == {w \in DOMAIN kwatch : kwatch[w].live}

WatchesOn(D) == {w \in LiveWatches : kwatch[w].ino \in D}

OverflowEvent == [wd |-> NoWd, kind |-> "Q_OVERFLOW", name |-> Empty,
                  src |-> <<>>, inst |-> inst]

SameEvent(e, f) == e.wd = f.wd /\ e.kind = f.kind /\ e.name = f.name

Overflowed(q) == \E i \in DOMAIN q : q[i].kind = "Q_OVERFLOW"

\* A full queue drops the event and says so once; otherwise an event equal to
\* the last one queued is merged into it.
Enqueue(q, e) ==
    IF Len(q) >= QueueLimit
    THEN IF Overflowed(q) THEN q ELSE Append(q, OverflowEvent)
    ELSE IF q # <<>> /\ SameEvent(q[Len(q)], e) THEN q ELSE Append(q, e)

\* The queue after something of this kind happened in, or to, a directory of D.
Notify(q, D, kind, name) ==
    LET W == {w \in WatchesOn(D) : kind \in kwatch[w].mask \cup {"IGNORED"}}
        w == CHOOSE w \in W : TRUE
    IN IF W = {} THEN q
       ELSE Enqueue(q, [wd |-> w, kind |-> kind, name |-> name,
                        src |-> tree[kwatch[w].ino], inst |-> inst])

SetQueue(q) ==
    /\ queue' = q
    /\ lost' = (lost \/ Overflowed(q))

DropWatches(W) == [w \in DOMAIN kwatch |->
    IF w \in W THEN [kwatch[w] EXCEPT !.live = FALSE] ELSE kwatch[w]]

\* inotify_add_watch on directory i: a directory has one watch per instance,
\* and a second call only replaces its mask.
AddedWd(i) == IF WatchesOn({i}) # {} THEN CHOOSE w \in WatchesOn({i}) : TRUE
              ELSE Len(kwatch) + 1

AddWatch(i, mask) ==
    kwatch' = IF WatchesOn({i}) # {}
              THEN [kwatch EXCEPT ![AddedWd(i)].mask = mask]
              ELSE Append(kwatch, [ino |-> i, mask |-> mask, live |-> TRUE])

\* ENOSPC: the user's limit of watches is reached.
NoSpaceFor(i) == WatchesOn({i}) = {} /\ Cardinality(LiveWatches) >= MaxWatches

\* inotify_rm_watch succeeds on a live descriptor only.
RmWatch(w) ==
    /\ kwatch' = DropWatches({w})
    /\ SetQueue(Notify(queue, {kwatch[w].ino}, "IGNORED", Empty))

\* close and inotify_init1: watches and queue of the old instance are gone.
NewInstance ==
    /\ kwatch' = <<>>
    /\ queue' = <<>>
    /\ inst' = inst + 1
    /\ lost' = lost

----------------------------------------------------------------------------
(* What the container does                                                  *)

FsOp(op) ==
    /\ op \in FsOps
    /\ ops > 0
    /\ ops' = ops - 1
    /\ inst' = inst

\* A directory stream that is open keeps its inode: such an i is not reused.
Mkdir(i, p, n, open) ==
    /\ FsOp("mkdir")
    /\ i \notin DOMAIN tree \cup open
    /\ p \in Places
    /\ ~Exists(Append(p, n))
    /\ tree' = [j \in DOMAIN tree \cup {i} |-> IF j = i THEN Append(p, n) ELSE tree[j]]
    /\ SetQueue(Notify(queue, DirsAt(p), "CREATE", n))
    /\ kwatch' = kwatch

Rmdir(i) ==
    /\ FsOp("rmdir")
    /\ i \in DOMAIN tree \ Pinned
    /\ ChildNames(i) = {}
    /\ tree' = [j \in DOMAIN tree \ {i} |-> tree[j]]
    /\ kwatch' = DropWatches(WatchesOn({i}))
    /\ LET q1 == Notify(queue, {i}, "DELETE_SELF", Empty)
           q2 == Notify(q1, {i}, "IGNORED", Empty)
       IN SetQueue(Notify(q2, Parent(i), "DELETE", Last(tree[i])))

Rename(i, p, n) ==
    /\ FsOp("rename")
    /\ i \in DOMAIN tree \ Pinned
    /\ p \in Places
    /\ ~IsPrefix(tree[i], p)
    /\ ~Exists(Append(p, n))
    /\ LET old == tree[i]
           moved(q) == Append(p, n) \o SubSeq(q, Len(old) + 1, Len(q))
       IN tree' = [j \in DOMAIN tree |->
                     IF IsPrefix(old, tree[j]) THEN moved(tree[j]) ELSE tree[j]]
    /\ LET q1 == Notify(queue, Parent(i), "MOVED_FROM", Last(tree[i]))
           q2 == Notify(q1, DirsAt(p), "MOVED_TO", n)
       IN SetQueue(Notify(q2, {i}, "MOVE_SELF", Empty))
    /\ kwatch' = kwatch

\* Something in directory i changes; what it is called matters to no property.
Modify(i) ==
    /\ FsOp("modify")
    /\ i \in DOMAIN tree
    /\ SetQueue(Notify(queue, {i}, "MODIFY", Empty))
    /\ UNCHANGED <<tree, kwatch>>

KInit ==
    /\ tree \in InitTrees
    /\ ops = OpBudget
    /\ kwatch = <<>>
    /\ queue = <<>>
    /\ inst = 1
    /\ lost = FALSE

KTypeOK ==
    /\ DOMAIN tree \subseteq Inode
    /\ \A i \in DOMAIN tree : tree[i] \in DirPath
    /\ ops \in Nat
    /\ kwatch \in Seq(KWatch)
    /\ queue \in Seq(Event)
    /\ inst \in Nat
    /\ lost \in BOOLEAN

\* The kernel drops the watch of a directory together with the directory.
LiveDirsExist == \A w \in LiveWatches : kwatch[w].ino \in DOMAIN tree
=============================================================================
