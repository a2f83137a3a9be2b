-------------------------- MODULE ArgusEventProofs -------------------------
(***************************************************************************)
(* Theorems about the events of ArgusNotify and the cache they are looked   *)
(* up in: which inotify instance they belong to, and the path they are      *)
(* reported with.                                                           *)
(***************************************************************************)
EXTENDS ArgusNotifyProofs

----------------------------------------------------------------------------
(* Contents of the queue, the buffer and the cache, as sets                 *)

Elems(s) == {s[k] : k \in DOMAIN s}

\* What can be in a queue after Enqueue.
LEMMA EnqueueElems ==
  ASSUME NEW q \in Seq(Event), NEW e \in Event
  PROVE  Elems(Enqueue(q, e)) \subseteq Elems(q) \cup {e, OverflowEvent}
<1>1. ASSUME NEW f PROVE Elems(Append(q, f)) \subseteq Elems(q) \cup {f}
  <2>1. ASSUME NEW k \in DOMAIN Append(q, f) PROVE Append(q, f)[k] \in Elems(q) \cup {f}
    <3>1. k \in 1 .. Len(q) + 1 /\ Len(q) \in Nat
      OBVIOUS
    <3>2. CASE k = Len(q) + 1
      BY <3>1, <3>2
    <3>3. CASE k \in 1 .. Len(q)
      BY <3>1, <3>3 DEF Elems
    <3>4. QED
      BY <3>1, <3>2, <3>3
  <2>2. QED
    BY <2>1 DEF Elems
<1>2. Enqueue(q, e) = q \/ Enqueue(q, e) = Append(q, e) \/ Enqueue(q, e) = Append(q, OverflowEvent)
  BY DEF Enqueue
<1>3. QED
  BY <1>1, <1>2

\* The events the kernel may send now for something that happens in, or to, a
\* directory: they carry the place where the directory is now.
Sent(kind) == {OverflowEvent} \cup
    {e \in Event : /\ e.wd \in LiveWatches
                   /\ e.kind = kind
                   /\ e.src = tree[kwatch[e.wd].ino]
                   /\ e.inst = inst}

\* What can be in a queue after Notify.
LEMMA NotifyElems ==
  ASSUME KInv, NEW q \in Seq(Event), NEW D, NEW kind \in Kind, NEW name \in Name \cup {Empty}
  PROVE  Elems(Notify(q, D, kind, name)) \subseteq Elems(q) \cup Sent(kind)
<1> DEFINE W == {w \in WatchesOn(D) : kind \in kwatch[w].mask \cup {"IGNORED"}}
           w == CHOOSE w \in W : TRUE
           e == [wd |-> w, kind |-> kind, name |-> name,
                 src |-> tree[kwatch[w].ino], inst |-> inst]
<1>1. CASE W = {}
  BY <1>1 DEF Notify
<1>2. CASE W # {}
  <2>1. w \in W
    BY <1>2
  <2>2. w \in LiveWatches /\ w \in Int
    BY <2>1 DEF WatchesOn, LiveWatches, KTypeOK, KInv
  <2>3. tree[kwatch[w].ino] \in Path
    BY <2>2, DirPathType DEF KTypeOK, LiveDirsExist, KInv
  <2>4. e \in Event
    BY <2>2, <2>3 DEF Event, KTypeOK, KInv
  <2>5. Notify(q, D, kind, name) = Enqueue(q, e)
    BY <1>2 DEF Notify
  <2> HIDE DEF W, w
  <2>6. e \in Sent(kind)
    BY <2>2, <2>4 DEF Sent
  <2> HIDE DEF e
  <2>7. Elems(Enqueue(q, e)) \subseteq Elems(q) \cup {e, OverflowEvent}
    BY <2>4, EnqueueElems, Zenon
  <2>8. OverflowEvent \in Sent(kind)
    BY DEF Sent
  <2>9. QED
    BY <2>5, <2>6, <2>7, <2>8, Zenon
<1>3. QED
  BY <1>1, <1>2

\* What is read or left of a buffer was in it.
LEMMA SubSeqElems ==
  ASSUME NEW q \in Seq(Event), NEW m \in Nat \ {0}, NEW n \in Nat, n <= Len(q)
  PROVE  Elems(SubSeq(q, m, n)) \subseteq Elems(q)
<1>1. ASSUME NEW k \in DOMAIN SubSeq(q, m, n) PROVE SubSeq(q, m, n)[k] \in Elems(q)
  <2>1. k \in 1 .. n - m + 1 /\ SubSeq(q, m, n)[k] = q[m + k - 1] /\ m + k - 1 \in 1 .. Len(q)
    OBVIOUS
  <2>2. QED
    BY <2>1 DEF Elems
<1>2. QED
  BY <1>1 DEF Elems

\* The same of the events after the first.
LEMMA TailElems ==
  ASSUME NEW q \in Seq(Event), q # <<>>
  PROVE  Elems(Tail(q)) \subseteq Elems(q) /\ Head(q) \in Elems(q)
<1>1. ASSUME NEW k \in DOMAIN Tail(q) PROVE Tail(q)[k] \in Elems(q)
  <2>1. Tail(q)[k] = q[k + 1] /\ k + 1 \in 1 .. Len(q)
    OBVIOUS
  <2>2. QED
    BY <2>1 DEF Elems
<1>2. Head(q) = q[1] /\ 1 \in DOMAIN q
  OBVIOUS
<1>3. QED
  BY <1>1, <1>2 DEF Elems

\* The kinds of event a container sends that renames nothing.
PlainKind == Kind \ {"MOVED_FROM", "MOVED_TO", "MOVE_SELF"}

\* What a step of the container does to the queue and the watches.
LEMMA ContainerElems ==
  ASSUME KInv, Container
  PROVE  /\ DOMAIN kwatch' = DOMAIN kwatch
         /\ \A w \in DOMAIN kwatch : kwatch'[w].ino = kwatch[w].ino
         /\ \A w \in DOMAIN kwatch : kwatch'[w].live => kwatch[w].live
         /\ inst' = inst
         /\ Elems(queue') \subseteq Elems(queue) \cup UNION {Sent(kind) : kind \in Kind}
         /\ "rename" \notin FsOps =>
               /\ Elems(queue') \subseteq Elems(queue) \cup UNION {Sent(kind) : kind \in PlainKind}
               /\ \A w \in DOMAIN kwatch :
                     kwatch'[w].live => tree'[kwatch[w].ino] = tree[kwatch[w].ino]
<1> DEFINE Goal ==
         /\ DOMAIN kwatch' = DOMAIN kwatch
         /\ \A w \in DOMAIN kwatch : kwatch'[w].ino = kwatch[w].ino
         /\ \A w \in DOMAIN kwatch : kwatch'[w].live => kwatch[w].live
         /\ inst' = inst
         /\ Elems(queue') \subseteq Elems(queue) \cup UNION {Sent(kind) : kind \in Kind}
         /\ "rename" \notin FsOps =>
               /\ Elems(queue') \subseteq Elems(queue) \cup UNION {Sent(kind) : kind \in PlainKind}
               /\ \A w \in DOMAIN kwatch :
                     kwatch'[w].live => tree'[kwatch[w].ino] = tree[kwatch[w].ino]
<1>q. queue \in Seq(Event) /\ KTypeOK /\ LiveDirsExist
  BY DEF KInv, KTypeOK
<1>a. PlainKind \subseteq Kind
  BY DEF PlainKind
<1>s. ASSUME NEW kind \in PlainKind, Elems(queue') \subseteq Elems(queue) \cup Sent(kind)
      PROVE  /\ Elems(queue') \subseteq Elems(queue) \cup UNION {Sent(k) : k \in PlainKind}
             /\ Elems(queue') \subseteq Elems(queue) \cup UNION {Sent(k) : k \in Kind}
  BY <1>s, <1>a, Zenon
<1>1. ASSUME NEW i \in Inode, NEW p \in Places, NEW n \in Name, Mkdir(i, p, n, OpenDirs)
      PROVE  Goal
  <2>1. queue' = Notify(queue, DirsAt(p), "CREATE", n) /\ kwatch' = kwatch /\ inst' = inst
    BY <1>1 DEF Mkdir, SetQueue, FsOp
  <2>2. "CREATE" \in PlainKind /\ "CREATE" \in Kind
    BY DEF PlainKind, Kind
  <2>3. Elems(queue') \subseteq Elems(queue) \cup Sent("CREATE")
    BY <1>q, <2>1, <2>2, NotifyElems
  <2>4. \A w \in DOMAIN kwatch : kwatch[w].live => tree'[kwatch[w].ino] = tree[kwatch[w].ino]
    BY <1>1, <1>q DEF Mkdir, LiveDirsExist, LiveWatches
  <2>5. QED
    BY <1>s, <2>1, <2>2, <2>3, <2>4, Zenon
<1>2. ASSUME NEW i \in Inode, Rmdir(i)
      PROVE  Goal
  <2> DEFINE q1 == Notify(queue, {i}, "DELETE_SELF", Empty)
             q2 == Notify(q1, {i}, "IGNORED", Empty)
  <2>1. /\ queue' = Notify(q2, Parent(i), "DELETE", Last(tree[i]))
        /\ kwatch' = DropWatches(WatchesOn({i})) /\ inst' = inst
        /\ tree' = [j \in DOMAIN tree \ {i} |-> tree[j]] /\ i \in DOMAIN tree
    BY <1>2 DEF Rmdir, SetQueue, FsOp
  <2>2. /\ "DELETE_SELF" \in PlainKind /\ "IGNORED" \in PlainKind /\ "DELETE" \in PlainKind
        /\ "DELETE_SELF" \in Kind /\ "IGNORED" \in Kind /\ "DELETE" \in Kind
    BY DEF PlainKind, Kind
  <2>3. q1 \in Seq(Event) /\ Elems(q1) \subseteq Elems(queue) \cup Sent("DELETE_SELF")
    BY <1>q, <2>2, NotifyElems, NotifyType
  <2>4. q2 \in Seq(Event) /\ Elems(q2) \subseteq Elems(q1) \cup Sent("IGNORED")
    BY <1>q, <2>2, <2>3, NotifyElems, NotifyType
  <2>5. Last(tree[i]) \in Name
    BY <1>q, <2>1 DEF KTypeOK, DirPath, Last
  <2>6. Elems(queue') \subseteq Elems(q2) \cup Sent("DELETE")
    BY <1>q, <2>1, <2>2, <2>4, <2>5, NotifyElems
  <2> HIDE DEF q1, q2
  <2>7. Elems(queue') \subseteq Elems(queue) \cup UNION {Sent(kind) : kind \in PlainKind}
    BY <2>2, <2>3, <2>4, <2>6, Zenon
  <2>8. Elems(queue') \subseteq Elems(queue) \cup UNION {Sent(kind) : kind \in Kind}
    BY <2>2, <2>3, <2>4, <2>6, Zenon
  <2>9. /\ DOMAIN kwatch' = DOMAIN kwatch
        /\ \A w \in DOMAIN kwatch : kwatch'[w].ino = kwatch[w].ino
        /\ \A w \in DOMAIN kwatch : kwatch'[w].live <=> (kwatch[w].live /\ w \notin WatchesOn({i}))
    BY <1>q, <2>1, DropWatchesType
  <2>10. \A w \in DOMAIN kwatch : kwatch'[w].live => tree'[kwatch[w].ino] = tree[kwatch[w].ino]
    BY <1>q, <2>1, <2>9 DEF LiveDirsExist, LiveWatches, WatchesOn
  <2>11. QED
    BY <2>1, <2>7, <2>8, <2>9, <2>10, Zenon
<1>3. ASSUME NEW i \in Inode, NEW p \in Places, NEW n \in Name, Rename(i, p, n)
      PROVE  Goal
  <2> DEFINE q1 == Notify(queue, Parent(i), "MOVED_FROM", Last(tree[i]))
             q2 == Notify(q1, DirsAt(p), "MOVED_TO", n)
  <2>1. /\ queue' = Notify(q2, {i}, "MOVE_SELF", Empty)
        /\ kwatch' = kwatch /\ inst' = inst /\ i \in DOMAIN tree /\ "rename" \in FsOps
    BY <1>3 DEF Rename, SetQueue, FsOp
  <2>2. "MOVED_FROM" \in Kind /\ "MOVED_TO" \in Kind /\ "MOVE_SELF" \in Kind
    BY DEF Kind
  <2>3. Last(tree[i]) \in Name
    BY <1>q, <2>1 DEF KTypeOK, DirPath, Last
  <2>4. q1 \in Seq(Event) /\ Elems(q1) \subseteq Elems(queue) \cup Sent("MOVED_FROM")
    BY <1>q, <2>2, <2>3, NotifyElems, NotifyType
  <2>5. q2 \in Seq(Event) /\ Elems(q2) \subseteq Elems(q1) \cup Sent("MOVED_TO")
    BY <1>q, <2>2, <2>4, NotifyElems, NotifyType
  <2>6. Elems(queue') \subseteq Elems(q2) \cup Sent("MOVE_SELF")
    BY <1>q, <2>1, <2>2, <2>5, NotifyElems
  <2> HIDE DEF q1, q2
  <2>7. Elems(queue') \subseteq Elems(queue) \cup UNION {Sent(kind) : kind \in Kind}
    BY <2>2, <2>4, <2>5, <2>6, Zenon
  <2>8. QED
    BY <2>1, <2>7, Zenon
<1>4. ASSUME NEW i \in Inode, Modify(i)
      PROVE  Goal
  <2>1. queue' = Notify(queue, {i}, "MODIFY", Empty) /\ UNCHANGED <<tree, kwatch, inst>>
    BY <1>4 DEF Modify, SetQueue, FsOp
  <2>2. "MODIFY" \in PlainKind /\ "MODIFY" \in Kind
    BY DEF PlainKind, Kind
  <2>3. Elems(queue') \subseteq Elems(queue) \cup Sent("MODIFY")
    BY <1>q, <2>1, <2>2, NotifyElems
  <2>4. UNCHANGED tree /\ UNCHANGED kwatch /\ UNCHANGED inst
    BY <2>1
  <2>5. QED
    BY <1>s, <2>2, <2>3, <2>4, Zenon
<1>5. QED
  BY <1>1, <1>2, <1>3, <1>4 DEF Container

----------------------------------------------------------------------------
(* The cache belongs to the current instance                                *)

\* A step of the thread other than the three that write to the cache leaves it,
\* empties it, or keeps some of its entries.
LEMMA ThreadCache ==
  ASSUME Inv, Thread
  PROVE  \/ WalkVisit
         \/ MovedFromMatched
         \/ /\ Elems(cache') \subseteq Elems(cache)
            /\ cache' = <<>> \/ DOMAIN kwatch' = DOMAIN kwatch
<1> USE DEF rootvars, regvars, walkvars, loopvars, bufvars, obsvars, fsvars, kvars
<1>e. Elems(<<>>) = {}
  BY DEF Elems
<1>r. ASSUME NEW rest, Reinitialize(rest) PROVE cache' = <<>>
  BY <1>r DEF Reinitialize, ClearWatch
<1>1. CASE Walk
  BY <1>1 DEF Walk, WalkRoot, WalkSkip, WalkAbort, WalkList, WalkDone, WalkDoneNoEventfd
<1>2. CASE Check
  <2>1. CASE CheckEntry
    <3>1. cache \in Seq(Entry) /\ idx \in Nat \ {0} /\ idx <= Len(cache)
      BY <2>1 DEF Inv, TypeOK, CheckEntry
    <3>2. Elems(RemoveItemFromCache(cache, idx)) \subseteq Elems(cache)
      BY <3>1, RemoveItemFromCacheType DEF Elems
    <3>3. QED
      BY <2>1, <3>2 DEF CheckEntry
  <2>2. CASE CheckDone
    BY <2>2 DEF CheckDone
  <2>3. QED
    BY <1>2, <2>1, <2>2 DEF Check
<1>3. CASE RemoveSubtree
  <2>1. CASE RemoveEntry
    <3>1. cache' = cache
      BY <2>1 DEF RemoveEntry
    <3>2. DOMAIN kwatch' = DOMAIN kwatch
      BY <2>1, DropWatchesType DEF RemoveEntry, RmWatch, Inv, TypeOK
    <3>3. QED
      BY <3>1, <3>2
  <2>2. CASE RemoveFailed
    BY <1>e, <1>r, <2>2 DEF RemoveFailed
  <2>3. CASE RemoveDone
    BY <2>3 DEF RemoveDone
  <2>4. QED
    BY <1>3, <2>1, <2>2, <2>3 DEF RemoveSubtree
<1>4. CASE ReadEvents
  BY <1>4 DEF ReadEvents
<1>5. CASE Process
  <2>1. CASE ProcessUnwanted \/ ProcessDeleteSelf \/ MovedFromOut \/ MovedFromHanging
             \/ MoveSelfCease \/ ProcessOther
    BY <2>1 DEF ProcessUnwanted, ProcessDeleteSelf, MovedFromOut, MovedFromHanging,
                MoveSelfCease, ProcessOther
  <2>2. CASE ProcessOverflow
    BY <1>e, <1>r, <2>2 DEF ProcessOverflow
  <2>3. CASE ProcessCreate
    BY <1>e, <2>3 DEF ProcessCreate, ForgetPaths
  <2>4. CASE MovedFromUnknown
    BY <1>e, <1>r, <2>4 DEF MovedFromUnknown
  <2>5. CASE MoveSelfFollow
    BY <1>e, <1>r, <2>5 DEF MoveSelfFollow
  <2>6. QED
    BY <1>5, <2>1, <2>2, <2>3, <2>4, <2>5 DEF Process
<1>6. QED
  BY <1>1, <1>2, <1>3, <1>4, <1>5 DEF Thread

\* Every descriptor in the cache was returned by the current instance: a rebuild
\* (reinitialize) leaves none of the closed one behind, and neither the rewriting
\* of paths nor the removal of entries pairs a path with another descriptor.
THEOREM CacheIsOfInstance == Spec => []CacheOfInstance
<1> USE DEF rootvars, regvars, walkvars, loopvars, bufvars, obsvars, fsvars, kvars
<1>1. Init => CacheOfInstance
  BY DEF Init, CacheOfInstance
<1>2. ASSUME Inv, CacheOfInstance, [Next]_vars PROVE CacheOfInstance'
  <2>1. CASE Container
    <3>1. DOMAIN kwatch' = DOMAIN kwatch
      BY <1>2, <2>1, ContainerElems DEF KInv, Inv, TypeOK
    <3>2. cache' = cache
      BY <2>1 DEF Container, tvars
    <3>3. QED
      BY <1>2, <3>1, <3>2 DEF CacheOfInstance
  <2>2. CASE WalkVisit
    <3> DEFINE item == Head(todo)
    <3>1. PICK i \in DirsAt(item.path) :
            AddWatch(i, WatchMask(item.path)) /\ AppendEntry(AddedWd(i), item.path)
      BY <2>2 DEF WalkVisit
    <3>2. i \in DOMAIN tree
      BY DEF DirsAt
    <3>3. WatchMask(item.path) \in SUBSET Kind
      BY MaskAssumption DEF WatchMask, TreeMask, Kind
    <3>4. tree' = tree /\ KInv
      BY <1>2, <2>2 DEF WalkVisit, KInv, Inv, TypeOK
    <3>5. DOMAIN kwatch \subseteq DOMAIN kwatch' /\ AddedWd(i) \in DOMAIN kwatch'
      BY <3>1, <3>2, <3>3, <3>4, AddWatchType
    <3>6. cache \in Seq(Entry)
      BY <1>2 DEF Inv, TypeOK
    <3> DEFINE new == [wd |-> AddedWd(i), path |-> item.path]
    <3>7. cache' = Append(cache, new)
      BY <3>1 DEF AppendEntry
    <3>8. new.wd = AddedWd(i)
      OBVIOUS
    <3> HIDE DEF new
    <3>9. ASSUME NEW k \in DOMAIN cache' PROVE cache'[k].wd \in DOMAIN kwatch'
      <4>1. k \in 1 .. Len(cache) + 1 /\ Len(cache) \in Nat
        BY <3>6, <3>7
      <4>2. CASE k = Len(cache) + 1
        BY <3>5, <3>6, <3>7, <3>8, <4>2
      <4>3. CASE k \in 1 .. Len(cache)
        <5>1. cache'[k] = cache[k] /\ k \in DOMAIN cache
          BY <3>6, <3>7, <4>3
        <5>2. QED
          BY <1>2, <3>5, <5>1 DEF CacheOfInstance
      <4>4. QED
        BY <4>1, <4>2, <4>3
    <3>10. QED
      BY <3>9 DEF CacheOfInstance
  <2>3. CASE MovedFromMatched
    <3>1. PICK w, n : cache' = RewriteCachedPaths(cache, MovedDir,
                                                  FormatPath(WdToPathName(cache, w), n))
      BY <2>3 DEF MovedFromMatched
    <3>2. DOMAIN cache' = DOMAIN cache /\ \A k \in DOMAIN cache : cache'[k].wd = cache[k].wd
      <4>1. \A k \in DOMAIN cache : cache[k] \in Entry
        BY <1>2 DEF Inv, TypeOK
      <4>2. QED
        BY <3>1, <4>1 DEF RewriteCachedPaths, Entry
    <3>3. kwatch' = kwatch
      BY <2>3 DEF MovedFromMatched
    <3>4. QED
      BY <1>2, <3>2, <3>3 DEF CacheOfInstance
  <2>4. CASE Elems(cache') \subseteq Elems(cache) /\ (cache' = <<>> \/ DOMAIN kwatch' = DOMAIN kwatch)
    BY <1>2, <2>4 DEF CacheOfInstance, Elems
  <2>5. CASE UNCHANGED vars
    BY <1>2, <2>5 DEF CacheOfInstance, vars, tvars
  <2>6. QED
    BY <1>2, <2>1, <2>2, <2>3, <2>4, <2>5, ThreadCache DEF Next
<1>3. Init => Inv
  BY InitType
<1>4. Inv /\ [Next]_vars => Inv'
  BY NextType
<1>5. QED
  BY <1>1, <1>2, <1>3, <1>4, PTL DEF Spec

----------------------------------------------------------------------------
(* The events belong to the current instance                                *)

\* What a step of the thread does to the pending events: it takes some from the
\* queue, forgets some, or opens an instance; then the rest of the buffer is
\* only kept by a watcher that follows a moved root, or on an overflow event
\* found in the cache, which CacheOfInstance excludes.
LEMMA ThreadElems ==
  ASSUME Inv, CacheOfInstance, Thread
  PROVE  \/ /\ inst' = inst
            /\ Elems(queue') \subseteq Elems(queue) \cup Sent("IGNORED")
            /\ Elems(buf') \subseteq Elems(buf) \cup Elems(queue) \cup Garbage
         \/ /\ queue' = <<>>
            /\ buf' = <<>> \/ follow
<1> USE DEF rootvars, regvars, walkvars, loopvars, bufvars, obsvars, fsvars, kvars
<1>e. Elems(<<>>) = {}
  BY DEF Elems
<1>q. queue \in Seq(Event) /\ buf \in Seq(Event) /\ ReadMax \in Nat
  BY FlagAssumption DEF Inv, TypeOK, KTypeOK
<1>r. ASSUME NEW rest, Reinitialize(rest) PROVE queue' = <<>> /\ buf' = rest
  BY <1>r DEF Reinitialize, NewInstance
<1>c. ASSUME Processing, Consume PROVE Elems(buf') \subseteq Elems(buf)
  BY <1>c, <1>q, TailElems DEF Processing, Consume
<1>d. ASSUME DiscardRest PROVE Elems(buf') \subseteq Elems(buf)
  BY <1>d, <1>e DEF DiscardRest
<1>1. CASE Walk
  BY <1>1 DEF Walk, WalkRoot, WalkVisit, WalkSkip, WalkAbort, WalkList, WalkDone, WalkDoneNoEventfd
<1>2. CASE Check
  BY <1>2 DEF Check, CheckEntry, CheckDone
<1>3. CASE RemoveSubtree
  <2>1. CASE RemoveEntry
    <3>1. buf' = buf /\ inst' = inst
      BY <2>1 DEF RemoveEntry
    <3>2. CASE RmWatch(cache[idx].wd)
      <4>1. queue' = Notify(queue, {kwatch[cache[idx].wd].ino}, "IGNORED", Empty)
        BY <3>2 DEF RmWatch, SetQueue
      <4>2. "IGNORED" \in Kind /\ KInv
        BY DEF Kind, KInv, Inv, TypeOK
      <4>3. Elems(queue') \subseteq Elems(queue) \cup Sent("IGNORED")
        BY <1>q, <4>1, <4>2, NotifyElems
      <4>4. QED
        BY <3>1, <4>3
    <3>3. CASE queue' = queue
      BY <3>1, <3>3
    <3>4. QED
      BY <2>1, <3>2, <3>3 DEF RemoveEntry
  <2>2. CASE RemoveFailed
    BY <1>r, <2>2 DEF RemoveFailed
  <2>3. CASE RemoveDone
    BY <2>3 DEF RemoveDone
  <2>4. QED
    BY <1>3, <2>1, <2>2, <2>3 DEF RemoveSubtree
<1>4. CASE ReadEvents
  <2>1. PICK n \in 1 .. ReadMax :
          /\ n <= Len(queue)
          /\ buf' = SubSeq(queue, 1, n)
          /\ queue' = SubSeq(queue, n + 1, Len(queue))
    BY <1>4 DEF ReadEvents
  <2>2. n \in Nat /\ n + 1 \in Nat \ {0} /\ 1 \in Nat \ {0} /\ Len(queue) \in Nat
        /\ Len(queue) <= Len(queue)
    BY <1>q
  <2>3. Elems(buf') \subseteq Elems(queue)
    BY <1>q, <2>1, <2>2, SubSeqElems
  <2>4. Elems(queue') \subseteq Elems(queue)
    BY <1>q, <2>1, <2>2, SubSeqElems
  <2>5. QED
    BY <1>4, <2>3, <2>4 DEF ReadEvents
<1>5. CASE Process
  <2>1. CASE ProcessUnwanted
    BY <1>d, <2>1 DEF ProcessUnwanted
  <2>2. CASE ProcessOverflow
    <3>1. FindWatch(cache, NoWd) = 0
      <4>1. cache \in Seq(Entry) /\ NoWd \notin DOMAIN kwatch
        BY DEF Inv, TypeOK, KTypeOK, NoWd
      <4>2. FindWatch(cache, NoWd) \in 0 .. Len(cache) /\ Len(cache) \in Nat
            /\ (FindWatch(cache, NoWd) > 0 => cache[FindWatch(cache, NoWd)].wd = NoWd)
        BY <4>1, FindWatchFound
      <4>3. FindWatch(cache, NoWd) > 0 => cache[FindWatch(cache, NoWd)].wd \in DOMAIN kwatch
        BY <4>1, <4>2 DEF CacheOfInstance
      <4>4. ~(FindWatch(cache, NoWd) > 0)
        BY <4>1, <4>2, <4>3, Zenon
      <4>5. QED
        BY <4>2, <4>4
    <3>2. Processing /\ Consume /\ UNCHANGED kvars
      BY <2>2, <3>1 DEF ProcessOverflow
    <3>3. QED
      BY <1>c, <3>2
  <2>3. CASE ProcessCreate \/ ProcessDeleteSelf \/ MoveSelfCease \/ ProcessOther
    BY <1>c, <2>3 DEF ProcessCreate, ProcessDeleteSelf, MoveSelfCease, ProcessOther
  <2>4. CASE MovedFromMatched
    <3>1. PICK k \in 1 .. Len(buf) : buf' = SubSeq(buf, k + 1, Len(buf))
      BY <2>4 DEF MovedFromMatched
    <3>2. k + 1 \in Nat \ {0} /\ Len(buf) \in Nat /\ Len(buf) <= Len(buf)
      BY <1>q
    <3>3. Elems(buf') \subseteq Elems(buf)
      BY <1>q, <3>1, <3>2, SubSeqElems
    <3>4. QED
      BY <2>4, <3>3 DEF MovedFromMatched
  <2>5. CASE MovedFromUnknown
    BY <1>r, <2>5 DEF MovedFromUnknown
  <2>6. CASE MovedFromOut
    BY <1>c, <2>6 DEF MovedFromOut, ProcessingMovedFrom
  <2>7. CASE MovedFromHanging
    <3>1. inst' = inst
      BY <2>7 DEF MovedFromHanging
    <3>2. Elems(queue') \subseteq Elems(queue)
      <4>1. CASE queue' = queue
        BY <4>1
      <4>2. ASSUME NEW n \in 1 .. ReadMax, queue' = SubSeq(queue, n + 1, Len(queue))
            PROVE  Elems(queue') \subseteq Elems(queue)
        <5>1. n + 1 \in Nat \ {0} /\ Len(queue) \in Nat /\ Len(queue) <= Len(queue)
          BY <1>q
        <5>2. QED
          BY <1>q, <4>2, <5>1, SubSeqElems
      <4>3. QED
        BY <2>7, <4>1, <4>2 DEF MovedFromHanging
    <3>3. Elems(buf') \subseteq Elems(buf) \cup Garbage
      <4>1. CASE DiscardRest
        BY <1>d, <4>1
      <4>2. ASSUME NEW g \in Garbage, buf' = <<g>> PROVE Elems(buf') \subseteq Garbage
        BY <4>2 DEF Elems
      <4>3. QED
        BY <2>7, <4>1, <4>2 DEF MovedFromHanging
    <3>4. QED
      BY <3>1, <3>2, <3>3
  <2>8. CASE MoveSelfFollow
    BY <1>r, <2>8 DEF MoveSelfFollow
  <2>9. QED
    BY <1>5, <2>1, <2>2, <2>3, <2>4, <2>5, <2>6, <2>7, <2>8 DEF Process
<1>6. QED
  BY <1>1, <1>2, <1>3, <1>4, <1>5 DEF Thread

\* The events of the queue are of the current instance, and so are those of the
\* buffer unless the watcher follows its roots.
InstanceInv ==
    /\ \A e \in Elems(queue) : e.inst = inst
    /\ ~follow => \A e \in Elems(buf) : e.inst \in {inst, NoInstance}

\* follow is a flag of the subject and never changes.
LEMMA FollowKept ==
  ASSUME Next
  PROVE  follow' = follow
<1> USE DEF rootvars
<1>1. CASE Container
  BY <1>1 DEF Container, tvars
<1>2. CASE Walk \/ Check \/ RemoveSubtree \/ ReadEvents
  BY <1>2 DEF Walk, WalkRoot, WalkVisit, WalkSkip, WalkAbort, WalkList, WalkDone, WalkDoneNoEventfd,
              Check, CheckEntry, CheckDone, RemoveSubtree, RemoveEntry, RemoveFailed, RemoveDone,
              ReadEvents
<1>3. CASE Process
  BY <1>3 DEF Process, ProcessUnwanted, ProcessOverflow, ProcessCreate, ProcessDeleteSelf,
              CeaseIfRoot, DropRoot, MovedFromMatched, MovedFromUnknown, MovedFromOut,
              MovedFromHanging, MoveSelfFollow, MoveSelfCease, ProcessOther
<1>4. QED
  BY <1>1, <1>2, <1>3 DEF Next, Thread

\* "Discard all remaining events in current `read` buffer": for every subject that
\* does not follow its roots, no event of a closed instance is looked up in the
\* cache that reinitialize built for its successor, where its descriptor means
\* another directory.
THEOREM EventsAreOfInstance == Spec => []EventsOfInstanceUnlessFollowing
<1>1. Init => InstanceInv
  BY DEF Init, KInit, InstanceInv, Elems
<1>2. ASSUME Inv, CacheOfInstance, InstanceInv, [Next]_vars PROVE InstanceInv'
  <2>1. CASE UNCHANGED vars
    BY <1>2, <2>1 DEF InstanceInv, Elems, vars, tvars, kvars, rootvars, bufvars
  <2>s. ASSUME NEW kind, NEW e \in Sent(kind) PROVE e.inst = inst
    BY DEF Sent, OverflowEvent
  <2>g. \A e \in Garbage : e.inst = NoInstance
    BY DEF Garbage
  <2>2. CASE Container
    <3>1. inst' = inst /\ Elems(queue') \subseteq Elems(queue) \cup UNION {Sent(kind) : kind \in Kind}
      BY <1>2, <2>2, ContainerElems DEF KInv, Inv, TypeOK
    <3>2. buf' = buf /\ follow' = follow
      BY <2>2 DEF Container, tvars, bufvars, rootvars
    <3>3. Elems(buf') = Elems(buf)
      BY <3>2
    <3>4. \A e \in Elems(queue') : e.inst = inst
      BY <1>2, <2>s, <3>1, Zenon DEF InstanceInv
    <3>5. QED
      BY <1>2, <3>1, <3>2, <3>3, <3>4 DEF InstanceInv
  <2>3. CASE Thread
    <3>1. follow' = follow
      BY <2>3, FollowKept DEF Next
    <3>2. CASE /\ inst' = inst
               /\ Elems(queue') \subseteq Elems(queue) \cup Sent("IGNORED")
               /\ Elems(buf') \subseteq Elems(buf) \cup Elems(queue) \cup Garbage
      <4>1. \A e \in Elems(queue') : e.inst = inst'
        BY <1>2, <2>s, <3>2, Zenon DEF InstanceInv
      <4>2. ASSUME ~follow, NEW e \in Elems(buf') PROVE e.inst \in {inst', NoInstance}
        BY <1>2, <2>g, <3>2, <4>2, Zenon DEF InstanceInv
      <4>3. QED
        BY <3>1, <4>1, <4>2 DEF InstanceInv
    <3>3. CASE queue' = <<>> /\ (buf' = <<>> \/ follow)
      BY <3>1, <3>3 DEF InstanceInv, Elems
    <3>4. QED
      BY <1>2, <2>3, <3>2, <3>3, ThreadElems
  <2>4. QED
    BY <1>2, <2>1, <2>2, <2>3 DEF Next
<1>3. InstanceInv => EventsOfInstanceUnlessFollowing
  BY DEF InstanceInv, EventsOfInstanceUnlessFollowing, EventsOfInstance, Elems
<1>4. Init => Inv
  BY InitType
<1>5. Inv /\ [Next]_vars => Inv'
  BY NextType
<1>6. QED
  BY <1>1, <1>2, <1>3, <1>4, <1>5, CacheIsOfInstance, PTL DEF Spec

----------------------------------------------------------------------------
(* For a container that creates and removes directories, but renames none,  *)
(* every event is reported with the path of the directory it happened in.   *)
(*                                                                         *)
(* Reporting looks a descriptor up in a cache that is emptied, refilled and *)
(* thinned out between the moment the kernel queues an event and the moment *)
(* the event is processed, while names are reused by other directories.     *)
(* The invariant relates three things pairwise: the cache, the pending      *)
(* events and the directories the kernel's descriptors stand for.           *)

Pendings == Elems(buf) \cup Elems(queue)

\* What a cached path says of a live descriptor is true.
CacheTrue ==
    \A c \in Elems(cache) :
        /\ c.wd \in DOMAIN kwatch
        /\ kwatch[c.wd].live => Resolve(c.path) = tree[kwatch[c.wd].ino]

\* A pending event was sent for a descriptor of this instance, and while that is
\* live its directory has not moved.
EventsTrue ==
    \A e \in Pendings :
        /\ e.kind \in PlainKind
        /\ e.wd # NoWd => e.wd \in DOMAIN kwatch
        /\ e.wd # NoWd /\ kwatch[e.wd].live => e.src = tree[kwatch[e.wd].ino]

\* The cached path of a pending event's descriptor is where it was sent from.
EventsMatchCache ==
    \A e \in Pendings, c \in Elems(cache) : c.wd = e.wd => Resolve(c.path) = e.src

\* Without renames remove_subtree and reinitialize are never called again.
NeverRebuilt == pc # "remove"

ReportInv == CacheTrue /\ EventsTrue /\ EventsMatchCache /\ NeverRebuilt /\ ReportedPath

\* A step that forgets events and cache entries, and does nothing else to the
\* three, keeps the invariant.
LEMMA ForgetKeeps ==
  ASSUME ReportInv, Pendings' \subseteq Pendings, Elems(cache') \subseteq Elems(cache),
         kwatch' = kwatch, tree' = tree, pc' # "remove", ReportedPath'
  PROVE  ReportInv'
<1>1. CacheTrue'
  BY DEF ReportInv, CacheTrue
<1>2. EventsTrue'
  BY DEF ReportInv, EventsTrue
<1>3. EventsMatchCache'
  BY DEF ReportInv, EventsMatchCache
<1>4. QED
  BY <1>1, <1>2, <1>3 DEF ReportInv, NeverRebuilt

\* What the log function is given is right.
LEMMA LogRight ==
  ASSUME Inv, ReportInv, Processing, Accepted, Log
  PROVE  ReportedPath'
<1>1. cache \in Seq(Entry) /\ buf \in Seq(Event) /\ buf # <<>>
  BY DEF Inv, TypeOK, Processing
<1>2. Cur \in Pendings
  BY <1>1, TailElems DEF Cur, Pendings
<1> DEFINE k == FindWatch(cache, Cur.wd)
<1>3. k \in 1 .. Len(cache) /\ cache[k].wd = Cur.wd
  BY <1>1, FindWatchFound DEF Accepted
<1>4. cache[k] \in Elems(cache)
  BY <1>1, <1>3 DEF Elems
<1>5. Resolve(cache[k].path) = Cur.src
  BY <1>2, <1>3, <1>4, Zenon DEF ReportInv, EventsMatchCache
<1>6. CurPath = cache[k].path
  BY DEF CurPath, WdToPathName
<1> DEFINE rec == [path |-> CurPath, kind |-> Cur.kind, name |-> Cur.name, src |-> Cur.src]
<1>7. logged' = <<rec>>
  BY DEF Log
<1>8. rec.path = CurPath /\ rec.src = Cur.src
  OBVIOUS
<1> HIDE DEF rec, k
<1>9. DOMAIN logged' = {1} /\ logged'[1] = rec
  BY <1>7
<1>10. QED
  BY <1>5, <1>6, <1>8, <1>9 DEF ReportedPath

\* The container: the events it causes are true when they are sent, and a
\* directory that is still there has not moved.
LEMMA ContainerReport ==
  ASSUME Inv, ReportInv, Container, "rename" \notin FsOps
  PROVE  ReportInv'
<1> DEFINE New == UNION {Sent(kind) : kind \in PlainKind}
<1>1. /\ DOMAIN kwatch' = DOMAIN kwatch
      /\ \A w \in DOMAIN kwatch : kwatch'[w].ino = kwatch[w].ino
      /\ \A w \in DOMAIN kwatch : kwatch'[w].live => kwatch[w].live
      /\ Elems(queue') \subseteq Elems(queue) \cup New
      /\ \A w \in DOMAIN kwatch : kwatch'[w].live => tree'[kwatch[w].ino] = tree[kwatch[w].ino]
  BY ContainerElems DEF KInv, Inv, TypeOK
<1>2. /\ buf' = buf /\ cache' = cache /\ pc' = pc /\ logged' = logged
  BY DEF Container, tvars, bufvars, obsvars
<1>3. Pendings' \subseteq Pendings \cup New
  BY <1>1, <1>2 DEF Pendings
<1>4. ASSUME NEW e \in New
      PROVE  /\ e.kind \in PlainKind
             /\ \/ e.wd = NoWd
                \/ e.wd \in DOMAIN kwatch /\ kwatch[e.wd].live /\ e.src = tree[kwatch[e.wd].ino]
  <2>1. PICK kind \in PlainKind : e \in Sent(kind)
    OBVIOUS
  <2>2. CASE e = OverflowEvent
    BY <2>2 DEF OverflowEvent, PlainKind, Kind
  <2>3. CASE e # OverflowEvent
    BY <2>1, <2>3 DEF Sent, LiveWatches
  <2>4. QED
    BY <2>2, <2>3
<1> HIDE DEF New
<1>5. CacheTrue'
  BY <1>1, <1>2 DEF ReportInv, CacheTrue
<1>6. EventsTrue'
  <2>1. SUFFICES ASSUME NEW e \in Pendings'
        PROVE  /\ e.kind \in PlainKind
               /\ e.wd # NoWd => e.wd \in DOMAIN kwatch'
               /\ e.wd # NoWd /\ kwatch'[e.wd].live => e.src = tree'[kwatch'[e.wd].ino]
    BY DEF EventsTrue
  <2>2. CASE e \in Pendings
    BY <1>1, <2>2 DEF ReportInv, EventsTrue
  <2>3. CASE e \in New
    BY <1>1, <1>4, <2>3
  <2>4. QED
    BY <1>3, <2>2, <2>3
<1>7. EventsMatchCache'
  <2>1. SUFFICES ASSUME NEW e \in Pendings', NEW c \in Elems(cache), c.wd = e.wd
        PROVE  Resolve(c.path) = e.src
    BY <1>2 DEF EventsMatchCache
  <2>2. CASE e \in Pendings
    BY <2>1, <2>2, Zenon DEF ReportInv, EventsMatchCache
  <2>3. CASE e \in New
    <3>1. c.wd \in DOMAIN kwatch /\ (kwatch[c.wd].live => Resolve(c.path) = tree[kwatch[c.wd].ino])
      BY DEF ReportInv, CacheTrue
    <3>2. NoWd \notin DOMAIN kwatch
      BY DEF Inv, TypeOK, KTypeOK, NoWd
    <3>3. kwatch[e.wd].live /\ e.src = tree[kwatch[e.wd].ino]
      BY <1>4, <2>1, <2>3, <3>1, <3>2, Zenon
    <3>4. QED
      BY <2>1, <3>1, <3>3, Zenon
  <2>4. QED
    BY <1>3, <2>2, <2>3
<1>8. QED
  BY <1>2, <1>5, <1>6, <1>7 DEF ReportInv, NeverRebuilt, ReportedPath

\* watch_path: the entry it appends is true, and agrees with the events that are
\* pending for a descriptor the instance already had.
LEMMA WalkVisitReport ==
  ASSUME Inv, ReportInv, WalkVisit
  PROVE  ReportInv'
<1> DEFINE item == Head(todo)
<1>1. PICK i \in DirsAt(item.path) :
        AddWatch(i, WatchMask(item.path)) /\ AppendEntry(AddedWd(i), item.path)
  BY DEF WalkVisit
<1>2. i \in DOMAIN tree /\ tree[i] = Resolve(item.path)
  BY DEF DirsAt
<1>3. WatchMask(item.path) \in SUBSET Kind
  BY MaskAssumption DEF WatchMask, TreeMask, Kind
<1>4. tree' = tree /\ KInv
  BY DEF WalkVisit, fsvars, KInv, Inv, TypeOK
<1>5. /\ DOMAIN kwatch \subseteq DOMAIN kwatch' /\ AddedWd(i) \in DOMAIN kwatch'
      /\ kwatch'[AddedWd(i)].live /\ kwatch'[AddedWd(i)].ino = i
      /\ \A w \in DOMAIN kwatch' : w \in DOMAIN kwatch =>
            kwatch'[w].live = kwatch[w].live /\ kwatch'[w].ino = kwatch[w].ino
  BY <1>1, <1>2, <1>3, <1>4, AddWatchType
<1> DEFINE new == [wd |-> AddedWd(i), path |-> item.path]
<1>6. cache' = Append(cache, new) /\ cache \in Seq(Entry)
  BY <1>1 DEF AppendEntry, Inv, TypeOK
<1>7. new.wd = AddedWd(i) /\ new.path = item.path
  OBVIOUS
<1> HIDE DEF new, item
<1>8. Elems(cache') \subseteq Elems(cache) \cup {new}
  <2>1. ASSUME NEW k \in DOMAIN cache' PROVE cache'[k] \in Elems(cache) \cup {new}
    <3>1. k \in 1 .. Len(cache) + 1 /\ Len(cache) \in Nat
      BY <1>6
    <3>2. CASE k = Len(cache) + 1
      BY <1>6, <3>2
    <3>3. CASE k \in 1 .. Len(cache)
      BY <1>6, <3>3 DEF Elems
    <3>4. QED
      BY <3>1, <3>2, <3>3
  <2>2. QED
    BY <2>1 DEF Elems
<1>9. Pendings' = Pendings /\ pc' = pc /\ logged' = logged
  BY DEF WalkVisit, Pendings, bufvars, obsvars
<1>10. CacheTrue'
  <2>1. SUFFICES ASSUME NEW c \in Elems(cache')
        PROVE  /\ c.wd \in DOMAIN kwatch'
               /\ kwatch'[c.wd].live => Resolve(c.path) = tree'[kwatch'[c.wd].ino]
    BY DEF CacheTrue
  <2>2. CASE c = new
    BY <1>2, <1>4, <1>5, <1>7, <2>2
  <2>3. CASE c \in Elems(cache)
    BY <1>4, <1>5, <2>3 DEF ReportInv, CacheTrue
  <2>4. QED
    BY <1>8, <2>2, <2>3
<1>11. EventsTrue'
  BY <1>4, <1>5, <1>9 DEF ReportInv, EventsTrue
<1>12. EventsMatchCache'
  <2>1. SUFFICES ASSUME NEW e \in Pendings, NEW c \in Elems(cache'), c.wd = e.wd
        PROVE  Resolve(c.path) = e.src
    BY <1>9 DEF EventsMatchCache
  <2>2. CASE c \in Elems(cache)
    BY <2>1, <2>2, Zenon DEF ReportInv, EventsMatchCache
  <2>3. CASE c = new
    <3>1. e.wd = AddedWd(i)
      BY <1>7, <2>1, <2>3
    <3>2. NoWd \notin DOMAIN kwatch'
      <4>1. kwatch' \in Seq(KWatch)
        BY <1>1, <1>2, <1>3, <1>4, AddWatchType
      <4>2. QED
        BY <4>1 DEF NoWd
    <3>3. e.wd # NoWd
      BY <1>5, <3>1, <3>2
    <3>4. e.wd \in DOMAIN kwatch /\ (kwatch[e.wd].live => e.src = tree[kwatch[e.wd].ino])
      BY <3>3 DEF ReportInv, EventsTrue
    <3>5. kwatch[e.wd].live /\ kwatch[e.wd].ino = i
      BY <1>5, <3>1, <3>4
    <3>6. QED
      BY <1>2, <1>7, <2>3, <3>4, <3>5
  <2>4. QED
    BY <1>8, <2>2, <2>3
<1>13. QED
  BY <1>9, <1>10, <1>11, <1>12 DEF ReportInv, NeverRebuilt, ReportedPath

\* Every other step of the thread only forgets: no pending event is of a rename,
\* so the branches that rewrite, remove or rebuild are not taken.
LEMMA ThreadReport ==
  ASSUME Inv, ReportInv, Thread, "rename" \notin FsOps
  PROVE  ReportInv'
<1> USE DEF rootvars, regvars, walkvars, loopvars, bufvars, obsvars, fsvars, kvars
<1>q. queue \in Seq(Event) /\ buf \in Seq(Event) /\ ReadMax \in Nat
  BY FlagAssumption DEF Inv, TypeOK, KTypeOK
<1>e. Elems(<<>>) = {}
  BY DEF Elems
<1>k. ASSUME Processing PROVE Cur.kind \in PlainKind
  <2>1. Cur \in Pendings
    BY <1>q, <1>k, TailElems DEF Cur, Pendings, Processing
  <2>2. QED
    BY <2>1 DEF ReportInv, EventsTrue
<1>m. ~MovedFromMatched /\ ~MovedFromUnknown /\ ~MovedFromOut /\ ~MovedFromHanging
      /\ ~MoveSelfFollow /\ ~MoveSelfCease /\ ~RemoveSubtree
  BY <1>k DEF MovedFromMatched, MovedFromUnknown, MovedFromOut, MovedFromHanging, ProcessingMovedFrom,
              MoveSelfFollow, MoveSelfCease, PlainKind, RemoveSubtree, RemoveEntry, RemoveFailed,
              RemoveDone, ReportInv, NeverRebuilt
<1>c. ASSUME Processing, Consume PROVE Elems(buf') \subseteq Elems(buf)
  BY <1>c, <1>q, TailElems DEF Processing, Consume
<1>l. ASSUME logged' = logged PROVE ReportedPath'
  BY <1>l DEF ReportInv, ReportedPath
<1>p. ASSUME Elems(buf') \subseteq Elems(buf), queue' = queue PROVE Pendings' \subseteq Pendings
  BY <1>p DEF Pendings
<1>n. pc # "remove"
  BY DEF ReportInv, NeverRebuilt
<1>1. CASE WalkVisit
  BY <1>1, WalkVisitReport
<1>2. CASE WalkRoot \/ WalkSkip \/ WalkAbort \/ WalkList \/ WalkDone \/ WalkDoneNoEventfd
  <2>1. /\ UNCHANGED <<queue, buf, cache, kwatch, tree, logged>> /\ pc' # "remove"
    BY <1>2, <1>n DEF WalkRoot, WalkSkip, WalkAbort, WalkList, WalkDone, WalkDoneNoEventfd
  <2>2. Pendings' \subseteq Pendings /\ Elems(cache') \subseteq Elems(cache)
    BY <2>1 DEF Pendings
  <2>3. QED
    BY <1>l, <2>1, <2>2, ForgetKeeps
<1>3. CASE Check
  <2>1. UNCHANGED <<queue, buf, kwatch, tree, logged>> /\ pc' # "remove"
    BY <1>3, <1>n DEF Check, CheckEntry, CheckDone
  <2>2. Elems(cache') \subseteq Elems(cache)
    <3>1. CASE CheckEntry
      <4>1. cache \in Seq(Entry) /\ idx \in Nat \ {0} /\ idx <= Len(cache)
        BY <3>1 DEF Inv, TypeOK, CheckEntry
      <4>2. Elems(RemoveItemFromCache(cache, idx)) \subseteq Elems(cache)
        BY <4>1, RemoveItemFromCacheType DEF Elems
      <4>3. QED
        BY <3>1, <4>2 DEF CheckEntry
    <3>2. CASE CheckDone
      BY <3>2 DEF CheckDone
    <3>3. QED
      BY <1>3, <3>1, <3>2 DEF Check
  <2>3. Pendings' \subseteq Pendings
    BY <2>1 DEF Pendings
  <2>4. QED
    BY <1>l, <2>1, <2>2, <2>3, ForgetKeeps
<1>4. CASE ReadEvents
  <2>1. PICK n \in 1 .. ReadMax :
          /\ n <= Len(queue)
          /\ buf' = SubSeq(queue, 1, n)
          /\ queue' = SubSeq(queue, n + 1, Len(queue))
    BY <1>4 DEF ReadEvents
  <2>2. n \in Nat /\ n + 1 \in Nat \ {0} /\ 1 \in Nat \ {0} /\ Len(queue) \in Nat
        /\ Len(queue) <= Len(queue)
    BY <1>q
  <2>3. Elems(buf') \subseteq Elems(queue) /\ Elems(queue') \subseteq Elems(queue)
    BY <1>q, <2>1, <2>2, SubSeqElems
  <2>4. Pendings' \subseteq Pendings
    BY <2>3 DEF Pendings
  <2>5. cache' = cache /\ kwatch' = kwatch /\ tree' = tree /\ pc' # "remove" /\ logged' = <<>>
    BY <1>4, <1>n DEF ReadEvents
  <2>6. ReportedPath'
    BY <2>5 DEF ReportedPath
  <2>7. QED
    BY <2>4, <2>5, <2>6, ForgetKeeps
<1>5. CASE ProcessUnwanted
  <2>1. /\ buf' = <<>> /\ UNCHANGED <<queue, cache, kwatch, tree, logged>> /\ pc' # "remove"
    BY <1>5, <1>n DEF ProcessUnwanted, DiscardRest
  <2>2. Pendings' \subseteq Pendings /\ Elems(cache') \subseteq Elems(cache)
    BY <1>e, <2>1 DEF Pendings
  <2>3. QED
    BY <1>l, <2>1, <2>2, ForgetKeeps
<1>6. CASE ProcessOverflow
  <2>1. FindWatch(cache, NoWd) = 0
    <3>1. cache \in Seq(Entry) /\ NoWd \notin DOMAIN kwatch
      BY DEF Inv, TypeOK, KTypeOK, NoWd
    <3>2. FindWatch(cache, NoWd) \in 0 .. Len(cache) /\ Len(cache) \in Nat
          /\ (FindWatch(cache, NoWd) > 0 => cache[FindWatch(cache, NoWd)].wd = NoWd)
      BY <3>1, FindWatchFound
    <3>3. FindWatch(cache, NoWd) > 0 => cache[FindWatch(cache, NoWd)].wd \in DOMAIN kwatch
      BY <3>1, <3>2 DEF ReportInv, CacheTrue, Elems
    <3>4. ~(FindWatch(cache, NoWd) > 0)
      BY <3>1, <3>2, <3>3, Zenon
    <3>5. QED
      BY <3>2, <3>4
  <2>2. /\ Processing /\ Consume /\ UNCHANGED <<queue, cache, kwatch, tree, logged>> /\ pc' # "remove"
    BY <1>6, <1>n, <2>1 DEF ProcessOverflow
  <2>3. Pendings' \subseteq Pendings /\ Elems(cache') \subseteq Elems(cache)
    BY <1>c, <1>p, <2>2
  <2>4. QED
    BY <1>l, <2>2, <2>3, ForgetKeeps
<1>7. CASE ProcessCreate
  <2>1. /\ Processing /\ Accepted /\ Log /\ Consume /\ UNCHANGED <<queue, kwatch, tree>>
        /\ pc' # "remove" /\ (cache' = cache \/ cache' = <<>>)
    BY <1>7, <1>n DEF ProcessCreate, ForgetPaths, StartWalk
  <2>2. Pendings' \subseteq Pendings /\ Elems(cache') \subseteq Elems(cache)
    BY <1>c, <1>e, <1>p, <2>1
  <2>3. QED
    BY <2>1, <2>2, LogRight, ForgetKeeps
<1>8. CASE ProcessDeleteSelf \/ ProcessOther
  <2>1. /\ Processing /\ Accepted /\ Log /\ Consume /\ UNCHANGED <<queue, cache, kwatch, tree>>
        /\ pc' # "remove"
    BY <1>8, <1>n DEF ProcessDeleteSelf, ProcessOther, StartCheck
  <2>2. Pendings' \subseteq Pendings /\ Elems(cache') \subseteq Elems(cache)
    BY <1>c, <1>p, <2>1
  <2>3. QED
    BY <2>1, <2>2, LogRight, ForgetKeeps
<1>9. QED
  BY <1>m, <1>1, <1>2, <1>3, <1>4, <1>5, <1>6, <1>7, <1>8 DEF Thread, Walk, Process

\* The invariant holds for every container that renames no directory.
LEMMA ReportInvariant ==
  ASSUME "rename" \notin FsOps
  PROVE  Spec => [](Inv /\ ReportInv)
<1>1. Init => ReportInv
  BY DEF Init, KInit, ReportInv, CacheTrue, EventsTrue, EventsMatchCache, Pendings, Elems,
         NeverRebuilt, ReportedPath
<1>2. ASSUME Inv, ReportInv, [Next]_vars PROVE ReportInv'
  <2>1. CASE UNCHANGED vars
    <3>1. UNCHANGED <<queue, buf, cache, kwatch, tree, logged, pc>>
      BY <2>1 DEF vars, tvars, kvars, fsvars, bufvars, obsvars
    <3>2. Pendings' \subseteq Pendings /\ Elems(cache') \subseteq Elems(cache)
      BY <3>1 DEF Pendings
    <3>3. ReportedPath' /\ pc' # "remove"
      BY <1>2, <3>1 DEF ReportInv, ReportedPath, NeverRebuilt
    <3>4. QED
      BY <1>2, <3>1, <3>2, <3>3, ForgetKeeps
  <2>2. QED
    BY <1>2, <2>1, ContainerReport, ThreadReport DEF Next
<1>3. Init => Inv
  BY InitType
<1>4. Inv /\ [Next]_vars => Inv'
  BY NextType
<1>5. QED
  BY <1>1, <1>2, <1>3, <1>4, PTL DEF Spec

\* For every subject and every container that renames no directory: however
\* directories are created and removed while the thread walks the tree, empties and
\* refills its cache and processes its buffer, and however names are reused, the path
\* that logArgusWatchEvent is given is the path of the directory in which the
\* event happened.
THEOREM ReportedPathRight ==
  ASSUME "rename" \notin FsOps
  PROVE  Spec => []ReportedPath
<1>1. ReportInv => ReportedPath
  BY DEF ReportInv
<1>2. QED
  BY <1>1, ReportInvariant, PTL
=============================================================================
