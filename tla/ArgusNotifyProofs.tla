------------------------- MODULE ArgusNotifyProofs -------------------------
(***************************************************************************)
(* Theorems about ArgusNotify, for every value of its constants: any tree,  *)
(* any subject, any number of operations of the container.                  *)
(***************************************************************************)
EXTENDS ArgusNotify, LookupLemmas, FiniteSetTheorems, SequenceTheorems, TLAPS

----------------------------------------------------------------------------
(* Lookups in the arrays                                                    *)

\* A directory's place is a path.
LEMMA DirPathType == ASSUME NEW p \in DirPath PROVE p \in Path
<1>1. p \in Seq(Name) /\ Len(p) \in Nat
  BY DEF DirPath
<1>2. p \in [1 .. Len(p) -> Name \cup {Empty}]
  BY <1>1
<1>3. QED
  BY <1>1, <1>2 DEF Path

\* find_watch returns an entry with the descriptor it was given.
LEMMA FindWatchFound ==
  ASSUME NEW c \in Seq(Entry), NEW wd
  PROVE  /\ FindWatch(c, wd) \in 0 .. Len(c)
         /\ FindWatch(c, wd) > 0 => c[FindWatch(c, wd)].wd = wd
         /\ (\E i \in 1 .. Len(c) : c[i].wd = wd) => FindWatch(c, wd) > 0
<1> DEFINE I == {i \in 1 .. Len(c) : c[i].wd = wd}
<1>1. FindWatch(c, wd) = IF I # {} THEN Min(I) ELSE 0
  BY DEF FindWatch, SelectInSeq
<1>2. Len(c) \in Nat /\ I \subseteq 1 .. Len(c) /\ \A i \in I : c[i].wd = wd
  OBVIOUS
<1> HIDE DEF I
<1>3. /\ FindWatch(c, wd) \in 0 .. Len(c)
      /\ FindWatch(c, wd) > 0 <=> FindWatch(c, wd) \in I
      /\ FindWatch(c, wd) = 0 => I = {}
  BY <1>1, <1>2, MinOrZero, Zenon
<1>4. (\E i \in 1 .. Len(c) : c[i].wd = wd) => I # {}
  BY DEF I
<1>5. FindWatch(c, wd) # 0 => FindWatch(c, wd) > 0
  BY <1>2, <1>3
<1>6. FindWatch(c, wd) > 0 => c[FindWatch(c, wd)].wd = wd
  BY <1>2, <1>3
<1>7. QED
  BY <1>3, <1>4, <1>5, <1>6, Zenon

\* wd_to_path_name returns a path when find_watch finds the descriptor.
LEMMA WdToPathNameType ==
  ASSUME NEW c \in Seq(Entry), NEW wd, FindWatch(c, wd) > 0
  PROVE  WdToPathName(c, wd) \in Path
<1>1. FindWatch(c, wd) \in 1 .. Len(c)
  BY FindWatchFound
<1>2. c[FindWatch(c, wd)] \in Entry
  BY <1>1
<1>3. QED
  BY <1>2 DEF WdToPathName, Entry

\* find_root_path looks at the first rootpathc roots.
LEMMA FindRootPathFound ==
  ASSUME NEW r, NEW n \in Nat, NEW p
  PROVE  FindRootPath(r, n, p) \in 0 .. n
<1> DEFINE I == {i \in 1 .. n : r[i] # NULL /\ r[i] = p}
<1>1. FindRootPath(r, n, p) = IF I # {} THEN Min(I) ELSE 0
  BY DEF FindRootPath, SelectInSubSeq
<1>2. I \subseteq 1 .. n
  OBVIOUS
<1> HIDE DEF I
<1>3. QED
  BY <1>1, <1>2, MinOrZero, Zenon

\* remove_item_from_cache leaves entries that were there, and one less.
LEMMA RemoveItemFromCacheType ==
  ASSUME NEW c \in Seq(Entry), NEW k \in Nat \ {0}, k <= Len(c)
  PROVE  /\ RemoveItemFromCache(c, k) \in Seq(Entry)
         /\ \A j \in DOMAIN RemoveItemFromCache(c, k) :
               \E m \in DOMAIN c : RemoveItemFromCache(c, k)[j] = c[m]
<1> DEFINE a == SubSeq(c, 1, k - 1)
           b == SubSeq(c, k + 1, Len(c))
<1>1. /\ a \in Seq(Entry) /\ Len(a) = k - 1
      /\ \A j \in 1 .. k - 1 : a[j] = c[j]
  OBVIOUS
<1>2. /\ b \in Seq(Entry) /\ Len(b) = Len(c) - k
      /\ \A j \in 1 .. Len(c) - k : b[j] = c[k + j]
  OBVIOUS
<1>3. RemoveItemFromCache(c, k) = a \o b
  BY DEF RemoveItemFromCache, RemoveAt
<1> HIDE DEF a, b
<1>4. ASSUME NEW j \in DOMAIN (a \o b)
      PROVE  \E m \in DOMAIN c : (a \o b)[j] = c[m]
  <2>1. j \in 1 .. Len(c) - 1
    BY <1>1, <1>2
  <2>2. CASE j < k
    <3>1. (a \o b)[j] = c[j]
      BY <1>1, <1>2, <2>1, <2>2
    <3>2. QED
      BY <2>1, <3>1
  <2>3. CASE j >= k
    <3>1. (a \o b)[j] = b[j - (k - 1)]
      BY <1>1, <1>2, <2>1, <2>3
    <3>2. (a \o b)[j] = c[j + 1]
      <4>1. PICK m \in 1 .. Len(c) - k : m = j - (k - 1) /\ k + m = j + 1
        BY <2>1, <2>3
      <4>2. b[m] = c[k + m]
        BY <1>2
      <4>3. QED
        BY <3>1, <4>1, <4>2
    <3>3. QED
      BY <2>1, <3>2
  <2>4. QED
    BY <2>1, <2>2, <2>3
<1>5. QED
  BY <1>1, <1>2, <1>3, <1>4

\* Assigning to an element keeps an array an array of the same length.
LEMMA ReplaceAtType ==
  ASSUME NEW S, NEW s \in Seq(S), NEW k, NEW e \in S
  PROVE  ReplaceAt(s, k, e) \in Seq(S) /\ Len(ReplaceAt(s, k, e)) = Len(s)
<1> DEFINE t == ReplaceAt(s, k, e)
<1>1. t = [s EXCEPT ![k] = e]
  BY DEF ReplaceAt
<1>2. s \in [1 .. Len(s) -> S] /\ Len(s) \in Nat
  OBVIOUS
<1>3. t \in [1 .. Len(s) -> S]
  BY <1>1, <1>2
<1>4. QED
  BY <1>2, <1>3

\* find_empty_cache_slot and add_watch_to_cache keep wlcache an array of slots.
LEMMA SlotType ==
  ASSUME NEW wl \in Seq(Owner)
  PROVE  FindEmptyCacheSlot(wl) \in Nat /\ AddWatchToCache(wl) \in Seq(Owner)
<1>1. [i \in 1 .. AllocInc |-> "empty"] \in Seq(Owner)
  BY AllocAssumption, IsASeq DEF Owner
<1>2. Grown(wl) \in Seq(Owner)
  BY <1>1 DEF Grown
<1> DEFINE g == Grown(wl)
           I == {i \in 1 .. Len(g) : g[i] = "empty"}
<1>3. FindEmptyCacheSlot(wl) = IF I # {} THEN Min(I) ELSE 0
  BY DEF FindEmptyCacheSlot, SelectInSeq
<1>4. I \subseteq 1 .. Len(g) /\ Len(g) \in Nat
  BY <1>2
<1> HIDE DEF I
<1> HIDE DEF g
<1>5. FindEmptyCacheSlot(wl) \in 0 .. Len(g)
  BY <1>3, <1>4, MinOrZero, Zenon
<1>6. AddWatchToCache(wl) \in Seq(Owner)
  BY <1>2, ReplaceAtType, Zenon DEF AddWatchToCache, Owner
<1>7. QED
  BY <1>4, <1>5, <1>6

----------------------------------------------------------------------------
(* The kernel's queue                                                       *)

\* The kernel only ever queues events.
LEMMA EnqueueType ==
  ASSUME NEW q \in Seq(Event), NEW e \in Event, inst \in Nat
  PROVE  Enqueue(q, e) \in Seq(Event)
<1>1. OverflowEvent \in Event
  <2>1. <<>> \in Path
    BY DEF Path
  <2>2. QED
    BY <2>1 DEF OverflowEvent, Event, NoWd, Kind
<1>2. QED
  BY <1>1 DEF Enqueue

\* The same of an event that happens in, or to, a watched directory.
LEMMA NotifyType ==
  ASSUME KTypeOK, NEW q \in Seq(Event), NEW D, NEW kind \in Kind,
         NEW name \in Name \cup {Empty},
         LiveDirsExist
  PROVE  Notify(q, D, kind, name) \in Seq(Event)
<1> DEFINE W == {w \in WatchesOn(D) : kind \in kwatch[w].mask \cup {"IGNORED"}}
           w == CHOOSE w \in W : TRUE
           e == [wd |-> w, kind |-> kind, name |-> name,
                 src |-> tree[kwatch[w].ino], inst |-> inst]
<1>1. CASE W = {}
  BY <1>1 DEF Notify
<1>2. CASE W # {}
  <2>1. w \in W
    BY <1>2
  <2>2. w \in LiveWatches /\ w \in Int
    BY <2>1 DEF WatchesOn, LiveWatches, KTypeOK
  <2>3. tree[kwatch[w].ino] \in Path
    BY <2>2, DirPathType DEF KTypeOK, LiveDirsExist
  <2>4. e \in Event
    BY <2>2, <2>3 DEF Event, KTypeOK
  <2>5. Enqueue(q, e) \in Seq(Event)
    BY <2>4, EnqueueType DEF KTypeOK
  <2>6. QED
    BY <1>2, <2>5 DEF Notify
<1>3. QED
  BY <1>1, <1>2

----------------------------------------------------------------------------
(* Type correctness                                                         *)

KInv == KTypeOK /\ LiveDirsExist

\* Dropping watches keeps what is left well-typed.
LEMMA DropWatchesType ==
  ASSUME KTypeOK, NEW W, kwatch' = DropWatches(W)
  PROVE  /\ kwatch' \in Seq(KWatch)
         /\ DOMAIN kwatch' = DOMAIN kwatch
         /\ \A w \in DOMAIN kwatch :
               /\ kwatch'[w].ino = kwatch[w].ino
               /\ kwatch'[w].live <=> (kwatch[w].live /\ w \notin W)
<1>1. /\ Len(kwatch) \in Nat /\ DOMAIN kwatch = 1 .. Len(kwatch)
      /\ \A w \in DOMAIN kwatch : kwatch[w] \in KWatch
  BY DEF KTypeOK
<1>2. \A w \in DOMAIN kwatch : kwatch'[w] \in KWatch
  BY <1>1 DEF DropWatches, KWatch
<1>3. kwatch' \in [1 .. Len(kwatch) -> KWatch]
  BY <1>1, <1>2 DEF DropWatches
<1>4. kwatch' \in Seq(KWatch) /\ DOMAIN kwatch' = DOMAIN kwatch
  BY <1>1, <1>3
<1>5. \A w \in DOMAIN kwatch :
               /\ kwatch'[w].ino = kwatch[w].ino
               /\ kwatch'[w].live <=> (kwatch[w].live /\ w \notin W)
  BY <1>1 DEF DropWatches, KWatch
<1>6. QED
  BY <1>4, <1>5

\* inotify_add_watch returns a descriptor of the instance, old or new.
LEMMA AddWatchType ==
  ASSUME KInv, tree' = tree, NEW i \in DOMAIN tree, NEW mask \in SUBSET Kind,
         AddWatch(i, mask)
  PROVE  /\ kwatch' \in Seq(KWatch)
         /\ DOMAIN kwatch \subseteq DOMAIN kwatch'
         /\ AddedWd(i) \in DOMAIN kwatch'
         /\ kwatch'[AddedWd(i)].live /\ kwatch'[AddedWd(i)].ino = i
         /\ \A w \in DOMAIN kwatch' : w \in DOMAIN kwatch =>
               kwatch'[w].live = kwatch[w].live /\ kwatch'[w].ino = kwatch[w].ino
         /\ \A w \in DOMAIN kwatch' : w \notin DOMAIN kwatch => w = AddedWd(i)
         /\ LiveDirsExist'
<1>1. /\ Len(kwatch) \in Nat /\ DOMAIN kwatch = 1 .. Len(kwatch)
      /\ \A w \in DOMAIN kwatch : kwatch[w] \in KWatch
  BY DEF KInv, KTypeOK
<1>2. i \in Inode
  BY DEF KInv, KTypeOK
<1>3. CASE WatchesOn({i}) # {}
  <2>1. AddedWd(i) \in WatchesOn({i})
    BY <1>3 DEF AddedWd
  <2>2. /\ AddedWd(i) \in DOMAIN kwatch
        /\ kwatch[AddedWd(i)].live /\ kwatch[AddedWd(i)].ino = i
    BY <2>1 DEF WatchesOn, LiveWatches
  <2>3. kwatch' = [kwatch EXCEPT ![AddedWd(i)].mask = mask]
    BY <1>3 DEF AddWatch
  <2>4. \A w \in DOMAIN kwatch : kwatch'[w] \in KWatch
    BY <1>1, <2>2, <2>3 DEF KWatch
  <2>5. kwatch' \in [1 .. Len(kwatch) -> KWatch]
    BY <1>1, <2>3, <2>4
  <2>6. kwatch' \in Seq(KWatch) /\ DOMAIN kwatch' = DOMAIN kwatch
    BY <1>1, <2>5
  <2>7. \A w \in DOMAIN kwatch :
           kwatch'[w].live = kwatch[w].live /\ kwatch'[w].ino = kwatch[w].ino
    BY <1>1, <2>2, <2>3 DEF KWatch
  <2>8. QED
    BY <2>2, <2>6, <2>7 DEF KInv, LiveDirsExist, LiveWatches
<1>4. CASE WatchesOn({i}) = {}
  <2> DEFINE k == [ino |-> i, mask |-> mask, live |-> TRUE]
  <2>1. AddedWd(i) = Len(kwatch) + 1 /\ kwatch' = Append(kwatch, k)
    BY <1>4 DEF AddedWd, AddWatch
  <2>2. k \in KWatch
    BY <1>2 DEF KWatch
  <2>3. /\ kwatch' \in Seq(KWatch) /\ DOMAIN kwatch' = 1 .. Len(kwatch) + 1
        /\ kwatch'[Len(kwatch) + 1] = k
        /\ \A w \in DOMAIN kwatch : kwatch'[w] = kwatch[w]
    BY <1>1, <2>1, <2>2 DEF KInv, KTypeOK
  <2>4. QED
    BY <1>1, <2>1, <2>3 DEF KInv, LiveDirsExist, LiveWatches
<1>5. QED
  BY <1>3, <1>4

\* A new directory has a place.
LEMMA PlaceType ==
  ASSUME KTypeOK, NEW p \in Places, NEW n \in Name
  PROVE  p \in Seq(Name) /\ Append(p, n) \in Seq(Name) /\ Append(p, n) \in DirPath
<1>1. CASE p = <<>>
  BY <1>1 DEF DirPath
<1>2. CASE p # <<>>
  <2>1. PICK i \in DOMAIN tree : p = tree[i]
    BY <1>2 DEF Places
  <2>2. p \in Seq(Name)
    BY <2>1 DEF KTypeOK, DirPath
  <2>3. Append(p, n) \in Seq(Name) /\ Len(Append(p, n)) = Len(p) + 1 /\ Len(p) \in Nat
    BY <2>2
  <2>4. Append(p, n) # <<>>
    BY <2>3
  <2>5. QED
    BY <2>2, <2>3, <2>4 DEF DirPath
<1>3. QED
  BY <1>1, <1>2

\* A place followed by more components is a place.
LEMMA LongerPlace ==
  ASSUME NEW a \in Seq(Name), Len(a) >= 1, NEW b \in Seq(Name)
  PROVE  a \o b \in DirPath
<1>1. a \o b \in Seq(Name) /\ Len(a \o b) = Len(a) + Len(b) /\ Len(a) \in Nat /\ Len(b) \in Nat
  OBVIOUS
<1>2. Len(a \o b) # 0
  BY <1>1
<1>3. a \o b # <<>>
  BY <1>2
<1>4. QED
  BY <1>1, <1>3 DEF DirPath

\* What the container does keeps the kernel's state well-typed.
LEMMA ContainerType ==
  ASSUME KInv, Container
  PROVE  KInv'
<1> USE DEF KInv
<1>1. ASSUME NEW i \in Inode, NEW p \in Places, NEW n \in Name, Mkdir(i, p, n, OpenDirs)
      PROVE  KInv'
  <2>1. Append(p, n) \in DirPath
    BY PlaceType
  <2>2. queue' \in Seq(Event) /\ lost' \in BOOLEAN
    BY <1>1, NotifyType DEF Mkdir, SetQueue, KTypeOK, Kind, Overflowed
  <2>3. tree' = [j \in DOMAIN tree \cup {i} |-> IF j = i THEN Append(p, n) ELSE tree[j]]
    BY <1>1 DEF Mkdir
  <2>4. KTypeOK'
    BY <1>1, <2>1, <2>2, <2>3 DEF Mkdir, FsOp, KTypeOK
  <2>5. LiveDirsExist'
    BY <1>1, <2>3 DEF Mkdir, LiveDirsExist, LiveWatches
  <2>6. QED
    BY <2>4, <2>5
<1>2. ASSUME NEW i \in Inode, Rmdir(i)
      PROVE  KInv'
  <2>1. tree' = [j \in DOMAIN tree \ {i} |-> tree[j]] /\ i \in DOMAIN tree
    BY <1>2 DEF Rmdir
  <2>2. Last(tree[i]) \in Name
    BY <2>1 DEF KTypeOK, DirPath, Last
  <2> DEFINE q1 == Notify(queue, {i}, "DELETE_SELF", Empty)
             q2 == Notify(q1, {i}, "IGNORED", Empty)
  <2>3. q1 \in Seq(Event)
    BY NotifyType DEF KTypeOK, Kind
  <2>4. q2 \in Seq(Event)
    BY <2>3, NotifyType DEF Kind
  <2>5. queue' \in Seq(Event) /\ lost' \in BOOLEAN
    BY <1>2, <2>2, <2>4, NotifyType DEF Rmdir, SetQueue, KTypeOK, Kind, Overflowed
  <2>6. kwatch' = DropWatches(WatchesOn({i}))
    BY <1>2 DEF Rmdir
  <2>7. KTypeOK'
    <3>1. kwatch' \in Seq(KWatch)
      BY <2>6, DropWatchesType
    <3>2. DOMAIN tree' \subseteq Inode /\ \A j \in DOMAIN tree' : tree'[j] \in DirPath
      BY <2>1 DEF KTypeOK
    <3>3. ops' \in Nat /\ inst' \in Nat
      BY <1>2 DEF Rmdir, FsOp, KTypeOK
    <3>4. QED
      BY <2>5, <3>1, <3>2, <3>3 DEF KTypeOK
  <2>8. LiveDirsExist'
    BY <2>1, <2>6, DropWatchesType DEF LiveDirsExist, LiveWatches, WatchesOn
  <2>9. QED
    BY <2>7, <2>8
<1>3. ASSUME NEW i \in Inode, NEW p \in Places, NEW n \in Name, Rename(i, p, n)
      PROVE  KInv'
  <2> DEFINE old == tree[i]
             moved(q) == Append(p, n) \o SubSeq(q, Len(old) + 1, Len(q))
  <2>1. i \in DOMAIN tree /\ old \in Seq(Name) /\ old # <<>> /\ p \in Seq(Name)
    BY <1>3, PlaceType DEF Rename, KTypeOK, DirPath
  <2>2. ASSUME NEW q \in Seq(Name) PROVE moved(q) \in DirPath
    <3>1. Append(p, n) \in Seq(Name) /\ Len(Append(p, n)) = Len(p) + 1 /\ Len(p) \in Nat
      BY <2>1, PlaceType
    <3>2. SubSeq(q, Len(old) + 1, Len(q)) \in Seq(Name)
      BY <2>1
    <3>3. Len(Append(p, n)) >= 1
      BY <3>1
    <3>4. QED
      BY <3>1, <3>2, <3>3, LongerPlace, Zenon
  <2>3. tree' = [j \in DOMAIN tree |->
                   IF IsPrefix(old, tree[j]) THEN moved(tree[j]) ELSE tree[j]]
    BY <1>3 DEF Rename
  <2> HIDE DEF moved
  <2>4. DOMAIN tree' = DOMAIN tree /\ \A j \in DOMAIN tree : tree'[j] \in DirPath
    BY <2>2, <2>3 DEF KTypeOK, DirPath
  <2> DEFINE q1 == Notify(queue, Parent(i), "MOVED_FROM", Last(tree[i]))
             q2 == Notify(q1, DirsAt(p), "MOVED_TO", n)
  <2>5. Last(tree[i]) \in Name
    BY <2>1 DEF Last
  <2>6. q1 \in Seq(Event)
    BY <2>5, NotifyType DEF KTypeOK, Kind
  <2>7. q2 \in Seq(Event)
    BY <2>6, NotifyType DEF Kind
  <2>8. queue' \in Seq(Event) /\ lost' \in BOOLEAN
    BY <1>3, <2>7, NotifyType DEF Rename, SetQueue, KTypeOK, Kind, Overflowed
  <2>9. KTypeOK'
    BY <1>3, <2>4, <2>8 DEF Rename, FsOp, KTypeOK
  <2>10. LiveDirsExist'
    BY <1>3, <2>4 DEF Rename, LiveDirsExist, LiveWatches
  <2>11. QED
    BY <2>9, <2>10
<1>4. ASSUME NEW i \in Inode, Modify(i)
      PROVE  KInv'
  <2>1. queue' \in Seq(Event) /\ lost' \in BOOLEAN
    BY <1>4, NotifyType DEF Modify, SetQueue, KTypeOK, Kind, Overflowed
  <2>2. QED
    BY <1>4, <2>1 DEF Modify, FsOp, KTypeOK, LiveDirsExist, LiveWatches
<1>5. QED
  BY <1>1, <1>2, <1>3, <1>4 DEF Container

\* The inductive invariant of type correctness: the source of an event is read
\* from the tree, so the kernel's own bookkeeping is part of it.
Inv == TypeOK /\ LiveDirsExist

\* Every step of watch_subtree preserves it.
LEMMA WalkType ==
  ASSUME Inv, Walk
  PROVE  Inv'
<1> USE DEF Inv, rootvars, regvars, walkvars, loopvars, bufvars, obsvars, fsvars, kvars
<1>k. ASSUME UNCHANGED <<fsvars, kvars>> PROVE KTypeOK' /\ LiveDirsExist'
  BY <1>k DEF TypeOK, KTypeOK, LiveDirsExist, LiveWatches
<1>1. CASE WalkRoot
  <2>1. rootpaths[rooti + 1] \in Path
    BY <1>1 DEF WalkRoot, TypeOK
  <2> DEFINE first == [path |-> rootpaths[rooti + 1], level |-> 0, dir |-> {}]
  <2>a. first \in Item
    BY <2>1 DEF Item
  <2>b. todo' = <<>> \/ todo' = <<first>>
    BY <1>1 DEF WalkRoot
  <2> HIDE DEF first
  <2>c. <<first>> \in Seq(Item) /\ <<>> \in Seq(Item)
    BY <2>a
  <2>2. todo' \in Seq(Item)
    BY <2>b, <2>c, Zenon
  <2>3. KTypeOK' /\ LiveDirsExist'
    BY <1>1, <1>k DEF WalkRoot
  <2>4. QED
    BY <1>1, <2>2, <2>3 DEF WalkRoot, TypeOK
<1>2. CASE WalkVisit
  <2> DEFINE item == Head(todo)
  <2>1. item \in Item /\ Tail(todo) \in Seq(Item)
    BY <1>2 DEF WalkVisit, Visiting, TypeOK
  <2>2. PICK i \in DirsAt(item.path) :
          /\ AddWatch(i, WatchMask(item.path))
          /\ AppendEntry(AddedWd(i), item.path)
          /\ todo' = (IF Recursive THEN <<[item EXCEPT !.dir = {i}]>> ELSE <<>>) \o Tail(todo)
    BY <1>2 DEF WalkVisit
  <2>3. i \in DOMAIN tree /\ i \in Inode /\ item.path \in Path
    BY <2>1 DEF DirsAt, TypeOK, KTypeOK, Item
  <2>4. WatchMask(item.path) \in SUBSET Kind
    BY MaskAssumption DEF WatchMask, TreeMask, Kind
  <2>5. tree' = tree /\ KInv
    BY <1>2 DEF WalkVisit, KInv, TypeOK
  <2>6. kwatch' \in Seq(KWatch) /\ AddedWd(i) \in DOMAIN kwatch' /\ LiveDirsExist'
    BY <2>2, <2>3, <2>4, <2>5, AddWatchType
  <2>7. AddedWd(i) \in Int
    BY <2>6
  <2>8. cache' \in Seq(Entry)
    BY <2>2, <2>3, <2>7 DEF AppendEntry, Entry, TypeOK
  <2> DEFINE opened == [item EXCEPT !.dir = {i}]
  <2>a. opened \in Item
    BY <2>1, <2>3 DEF Item
  <2>b. todo' = <<opened>> \o Tail(todo) \/ todo' = <<>> \o Tail(todo)
    BY <2>2
  <2> HIDE DEF opened
  <2>c. <<opened>> \in Seq(Item) /\ <<>> \in Seq(Item)
    BY <2>a
  <2>9. todo' \in Seq(Item)
    BY <2>1, <2>b, <2>c, ConcatProperties
  <2>10. QED
    BY <1>2, <2>6, <2>8, <2>9 DEF WalkVisit, TypeOK, KTypeOK
<1>3. CASE WalkSkip
  <2>1. KTypeOK' /\ LiveDirsExist'
    BY <1>3, <1>k DEF WalkSkip
  <2>2. QED
    BY <1>3, <2>1 DEF WalkSkip, Visiting, TypeOK
<1>4. CASE WalkAbort
  <2>1. KTypeOK' /\ LiveDirsExist'
    BY <1>4, <1>k DEF WalkAbort
  <2>2. QED
    BY <1>4, <2>1 DEF WalkAbort, TypeOK
<1>5. CASE WalkList
  <2> DEFINE item == Head(todo)
             names == UNION {ChildNames(i) : i \in item.dir \cap DOMAIN tree}
  <2>1. item \in Item /\ Tail(todo) \in Seq(Item)
    BY <1>5 DEF WalkList, TypeOK
  <2>2. names \subseteq Name /\ IsFiniteSet(names)
    BY NameAssumption, FS_Subset DEF ChildNames
  <2>3. PICK order \in SetToSeqs(names) :
          todo' = [k \in DOMAIN order |-> [path |-> FormatPath(item.path, order[k]),
                                           level |-> item.level + 1, dir |-> {}]]
                     \o Tail(todo)
    BY <1>5 DEF WalkList
  <2> HIDE DEF names, item
  <2>4. Cardinality(names) \in Nat /\ order \in [1 .. Cardinality(names) -> names]
    BY <2>2, FS_CardinalityType DEF SetToSeqs
  <2> DEFINE below == [k \in DOMAIN order |-> [path |-> FormatPath(item.path, order[k]),
                                               level |-> item.level + 1, dir |-> {}]]
  <2>5. ASSUME NEW k \in DOMAIN order PROVE below[k] \in Item
    <3>1. FormatPath(item.path, order[k]) \in Path
      BY <2>1, <2>2, <2>4 DEF FormatPath, Path, Item
    <3>2. QED
      BY <2>1, <3>1 DEF Item
  <2>6. below \in [1 .. Cardinality(names) -> Item]
    BY <2>4, <2>5
  <2>7. below \in Seq(Item)
    BY <2>4, <2>6
  <2>8. todo' \in Seq(Item)
    BY <2>1, <2>3, <2>7
  <2>9. KTypeOK' /\ LiveDirsExist'
    BY <1>5, <1>k DEF WalkList
  <2>10. QED
    BY <1>5, <2>8, <2>9 DEF WalkList, TypeOK
<1>6. CASE WalkDone
  <2>1. slot' \in Nat /\ wlcache' \in Seq(Owner)
    <3>1. wlcache \in Seq(Owner) /\ "self" \in Owner /\ slot \in Nat
      BY DEF TypeOK, Owner
    <3>2. ReplaceAt(wlcache, slot, "self") \in Seq(Owner)
      BY <3>1, ReplaceAtType, Zenon
    <3>3. FindEmptyCacheSlot(wlcache) \in Nat /\ AddWatchToCache(wlcache) \in Seq(Owner)
      BY <3>1, SlotType, Zenon
    <3>4. QED
      BY <1>6, <3>1, <3>2, <3>3 DEF WalkDone
  <2>2. KTypeOK' /\ LiveDirsExist'
    BY <1>6, <1>k DEF WalkDone
  <2>3. pc' \in {"walk", "check", "remove", "loop", "fault"} /\ idx' \in Nat \ {0}
    BY <1>6 DEF WalkDone, TypeOK
  <2>p. polled' \in BOOLEAN
    BY <1>6, Zenon DEF WalkDone, TypeOK
  <2>4. QED
    BY <1>6, <2>1, <2>2, <2>3, <2>p DEF WalkDone, TypeOK
<1>7. CASE WalkDoneNoEventfd
  <2>1. KTypeOK' /\ LiveDirsExist'
    BY <1>7, <1>k DEF WalkDoneNoEventfd
  <2>2. QED
    BY <1>7, <2>1 DEF WalkDoneNoEventfd, TypeOK
<1>8. QED
  BY <1>1, <1>2, <1>3, <1>4, <1>5, <1>6, <1>7 DEF Walk

\* A new instance has no watch and no event.
LEMMA NewInstanceType ==
  ASSUME Inv, NewInstance, UNCHANGED fsvars
  PROVE  KTypeOK' /\ LiveDirsExist'
<1>1. kwatch' \in Seq(KWatch) /\ queue' \in Seq(Event) /\ inst' \in Nat
      /\ kwatch' = <<>> /\ tree' = tree /\ ops' = ops
  BY DEF Inv, TypeOK, KTypeOK, NewInstance, fsvars
<1>2. lost' \in BOOLEAN
  BY DEF Inv, TypeOK, KTypeOK, NewInstance
<1>3. QED
  BY <1>1, <1>2 DEF Inv, TypeOK, KTypeOK, LiveDirsExist, LiveWatches

\* reinitialize, whatever it is told to keep of the buffer, and whether or not
\* inotify_init1 succeeds.
LEMMA ReinitializeType ==
  ASSUME Inv, NEW rest \in Seq(Event), Reinitialize(rest), UNCHANGED <<fsvars, rootpathc, rootstat, follow>>,
         rootpaths' \in Seq(Path), Len(rootpaths') = Len(RootPaths),
         logged' \in Seq(LogRecord), leaked' \in BOOLEAN
  PROVE  Inv'
<1>1. KTypeOK' /\ LiveDirsExist'
  BY NewInstanceType DEF Reinitialize
<1>2. cache' = <<>> /\ slot' = slot /\ wlcache' = wlcache /\ idx' = 1 /\ rpath' = <<>>
      /\ buf' = rest
  BY DEF Reinitialize, ClearWatch, LoopEnd
<1>3. polled' \in BOOLEAN /\ atStart' \in BOOLEAN
  BY DEF Reinitialize
<1>4. /\ pc' \in {"walk", "check", "remove", "loop", "fault"}
      /\ cont' \in {"start", "create", "rebuild"}
      /\ rooti' \in Nat /\ todo' \in Seq(Item)
  <2>1. CASE StartWalk("rebuild")
    BY <2>1 DEF StartWalk
  <2>2. CASE pc' = "loop" /\ UNCHANGED <<cont, walkvars>>
    BY <2>2 DEF walkvars, Inv, TypeOK
  <2>3. QED
    BY <2>1, <2>2 DEF Reinitialize
<1>5. rpath' \in Path /\ cache' \in Seq(Entry)
  BY <1>2 DEF Path
<1>6. QED
  BY <1>1, <1>2, <1>3, <1>4, <1>5 DEF Inv, TypeOK

\* check_cache_consistency preserves it.
LEMMA CheckType ==
  ASSUME Inv, Check
  PROVE  Inv'
<1> USE DEF Inv, rootvars, regvars, walkvars, loopvars, bufvars, obsvars, fsvars, kvars
<1>1. KTypeOK' /\ LiveDirsExist'
  BY DEF Check, CheckEntry, CheckDone, TypeOK, KTypeOK, LiveDirsExist, LiveWatches
<1>2. CASE CheckEntry
  <2>1. RemoveItemFromCache(cache, idx) \in Seq(Entry)
    BY <1>2, RemoveItemFromCacheType DEF CheckEntry, TypeOK
  <2>2. cache' \in Seq(Entry) /\ idx' \in Nat \ {0}
    BY <1>2, <2>1 DEF CheckEntry, TypeOK
  <2>3. QED
    BY <1>1, <1>2, <2>2 DEF CheckEntry, TypeOK
<1>3. CASE CheckDone
  <2>1. rpath' \in Path
    BY <1>3 DEF CheckDone, LoopEnd, Path
  <2>2. QED
    BY <1>1, <1>3, <2>1 DEF CheckDone, LoopEnd, TypeOK
<1>4. QED
  BY <1>2, <1>3 DEF Check

\* remove_subtree preserves it.
LEMMA RemoveSubtreeType ==
  ASSUME Inv, RemoveSubtree
  PROVE  Inv'
<1> USE DEF Inv, rootvars, regvars, walkvars, loopvars, bufvars, obsvars, fsvars, kvars
<1>1. CASE RemoveEntry
  <2>1. KTypeOK' /\ LiveDirsExist'
    <3>1. CASE RmWatch(cache[idx].wd) /\ inst' = inst
      <4>1. queue' \in Seq(Event) /\ lost' \in BOOLEAN
        BY <3>1, NotifyType DEF RmWatch, SetQueue, TypeOK, KTypeOK, Kind, Overflowed
      <4>2. kwatch' = DropWatches({cache[idx].wd})
        BY <3>1 DEF RmWatch
      <4>3. kwatch' \in Seq(KWatch)
        BY <4>2, DropWatchesType DEF TypeOK
      <4>4. LiveDirsExist'
        BY <1>1, <4>2, DropWatchesType DEF RemoveEntry, TypeOK, LiveDirsExist, LiveWatches
      <4>5. QED
        BY <1>1, <3>1, <4>1, <4>3, <4>4 DEF RemoveEntry, TypeOK, KTypeOK
    <3>2. CASE UNCHANGED kvars
      BY <1>1, <3>2 DEF RemoveEntry, TypeOK, KTypeOK, LiveDirsExist, LiveWatches
    <3>3. QED
      BY <1>1, <3>1, <3>2 DEF RemoveEntry
  <2>2. wlcache' \in Seq(Owner)
    <3>1. wlcache \in Seq(Owner) /\ "empty" \in Owner
      BY DEF TypeOK, Owner
    <3>2. MarkCacheSlotEmpty(wlcache, idx) \in Seq(Owner)
      BY <3>1, ReplaceAtType, Zenon DEF MarkCacheSlotEmpty
    <3>3. QED
      BY <1>1, <3>1, <3>2, Zenon DEF RemoveEntry
  <2>3. pc' \in {"walk", "check", "remove", "loop", "fault"}
    BY <1>1 DEF RemoveEntry, TypeOK
  <2>4. QED
    BY <1>1, <2>1, <2>2, <2>3 DEF RemoveEntry, TypeOK
<1>2. CASE RemoveFailed
  <2>1. <<>> \in Seq(Event)
    OBVIOUS
  <2>2. Reinitialize(<<>>)
    BY <1>2 DEF RemoveFailed
  <2>3. /\ UNCHANGED <<fsvars, rootpathc, rootstat, follow>>
        /\ rootpaths' \in Seq(Path) /\ Len(rootpaths') = Len(RootPaths)
        /\ logged' \in Seq(LogRecord) /\ leaked' \in BOOLEAN
    BY <1>2 DEF RemoveFailed, TypeOK
  <2>4. QED
    BY <2>1, <2>2, <2>3, ReinitializeType DEF Inv
<1>3. CASE RemoveDone
  <2>1. KTypeOK' /\ LiveDirsExist'
    BY <1>3 DEF RemoveDone, TypeOK, KTypeOK, LiveDirsExist, LiveWatches
  <2>2. rpath' \in Path
    BY <1>3 DEF RemoveDone, LoopEnd, Path
  <2>3. QED
    BY <1>3, <2>1, <2>2 DEF RemoveDone, LoopEnd, TypeOK
<1>4. QED
  BY <1>1, <1>2, <1>3 DEF RemoveSubtree

\* read takes a prefix of the queue.
LEMMA ReadEventsType ==
  ASSUME Inv, ReadEvents
  PROVE  Inv'
<1> USE DEF Inv, rootvars, regvars, walkvars, loopvars, bufvars, obsvars, fsvars, kvars
<1>1. PICK n \in 1 .. ReadMax :
        /\ n <= Len(queue)
        /\ buf' = SubSeq(queue, 1, n)
        /\ queue' = SubSeq(queue, n + 1, Len(queue))
  BY DEF ReadEvents
<1>2. buf' \in Seq(Event) /\ queue' \in Seq(Event)
  <2>1. n \in Nat /\ queue \in Seq(Event)
    BY FlagAssumption DEF TypeOK, KTypeOK
  <2>2. buf' \in Seq(Event)
    BY <1>1, <2>1
  <2>3. queue' \in Seq(Event)
    BY <1>1, <2>1
  <2>4. QED
    BY <2>2, <2>3
<1>3. KTypeOK' /\ LiveDirsExist'
  BY <1>2 DEF ReadEvents, TypeOK, KTypeOK, LiveDirsExist, LiveWatches
<1>4. logged' \in Seq(LogRecord)
  BY DEF ReadEvents
<1>5. QED
  BY <1>2, <1>3, <1>4 DEF ReadEvents, TypeOK

\* The event being processed, and what is known of it once it is accepted.
LEMMA CurType ==
  ASSUME Inv, Processing
  PROVE  /\ Cur \in Event /\ Tail(buf) \in Seq(Event)
         /\ Accepted => CurPath \in Path
<1>1. Cur \in Event /\ Tail(buf) \in Seq(Event)
  BY DEF Inv, TypeOK, Processing, Cur
<1>2. ASSUME Accepted PROVE CurPath \in Path
  BY <1>2, WdToPathNameType DEF Inv, TypeOK, Accepted, CurPath
<1>3. QED
  BY <1>1, <1>2

\* What the log function is given.
LEMMA LogType ==
  ASSUME Inv, Processing, Accepted, Log
  PROVE  logged' \in Seq(LogRecord)
<1> DEFINE rec == [path |-> CurPath, kind |-> Cur.kind, name |-> Cur.name, src |-> Cur.src]
<1>1. rec \in LogRecord
  BY CurType DEF LogRecord, Event
<1>2. logged' = <<rec>>
  BY DEF Log
<1> HIDE DEF rec
<1>3. QED
  BY <1>1, <1>2

\* remove_root_path on a path of the list leaves the array and the count in range.
LEMMA DropRootType ==
  ASSUME Inv, CurRoot > 0, DropRoot(CurRoot)
  PROVE  /\ rootpaths' \in Seq(Path) /\ Len(rootpaths') = Len(RootPaths)
         /\ rootpathc' \in 0 .. Len(RootPaths)
<1>1. rootpaths \in Seq(Path) /\ Len(rootpaths) = Len(RootPaths)
      /\ rootpathc \in 0 .. Len(RootPaths) /\ Len(RootPaths) \in Nat
  BY RootAssumption DEF Inv, TypeOK
<1>2. NULL \in Path
  BY DEF NULL, Path
<1>3. ReplaceAt(rootpaths, CurRoot, NULL) \in Seq(Path)
      /\ Len(ReplaceAt(rootpaths, CurRoot, NULL)) = Len(rootpaths)
  <2>1. rootpaths \in Seq(Path)
    BY <1>1
  <2>2. QED
    BY <1>2, <2>1, ReplaceAtType
<1>4. CurRoot \in 0 .. rootpathc
  BY <1>1, FindRootPathFound DEF CurRoot
<1>5. rootpathc - 1 \in 0 .. Len(RootPaths)
  BY <1>1, <1>4
<1>6. QED
  BY <1>1, <1>3, <1>5 DEF DropRoot, RemoveRootPath

\* rewrite_cached_paths leaves an array of descriptors and paths.
LEMMA RewriteCachedPathsType ==
  ASSUME NEW c \in Seq(Entry), NEW old \in Path, NEW new \in Path
  PROVE  RewriteCachedPaths(c, old, new) \in Seq(Entry)
<1> DEFINE t == RewriteCachedPaths(c, old, new)
<1>1. ASSUME NEW k \in DOMAIN c PROVE t[k] \in Entry
  <2>1. c[k] \in Entry
    BY <1>1
  <2>a. c[k].path \in Path
    BY <2>1 DEF Entry
  <2>2. SubSeq(c[k].path, Len(old) + 1, Len(c[k].path)) \in Path
    BY <2>a DEF Path
  <2>3. FormatPath(new, Empty) \in Path
    BY DEF FormatPath, Path
  <2>4. FormatPath(new, Empty) \o SubSeq(c[k].path, Len(old) + 1, Len(c[k].path)) \in Path
    BY <2>2, <2>3 DEF Path
  <2>5. QED
    BY <2>1, <2>4 DEF RewriteCachedPaths, Entry
<1>2. DOMAIN t = 1 .. Len(c) /\ Len(c) \in Nat /\ DOMAIN c = 1 .. Len(c)
  BY DEF RewriteCachedPaths
<1>3. t = [k \in 1 .. Len(c) |-> t[k]]
  BY <1>2 DEF RewriteCachedPaths
<1> HIDE DEF t
<1>4. t \in [1 .. Len(c) -> Entry]
  BY <1>1, <1>2, <1>3
<1>5. t \in Seq(Entry)
  BY <1>2, <1>4
<1>6. QED
  BY <1>5 DEF t

\* The events after the first n.
LEMMA LaterEventsType ==
  ASSUME NEW q \in Seq(Event), NEW n \in Nat, n <= Len(q)
  PROVE  SubSeq(q, n + 1, Len(q)) \in Seq(Event)
OBVIOUS

\* What is decoded from bytes nobody wrote still has the form of an event.
LEMMA GarbageType ==
  ASSUME Inv
  PROVE  Garbage \subseteq Event
<1>1. ASSUME NEW k \in DOMAIN cache PROVE cache[k].wd \in Int
  <2>1. cache[k] \in Entry
    BY DEF Inv, TypeOK
  <2>2. QED
    BY <2>1 DEF Entry
<1>2. CachedWds \subseteq Int
  BY <1>1 DEF CachedWds
<1>3. EventMask \subseteq Kind /\ <<>> \in Path
  BY MaskAssumption DEF Path
<1>4. ASSUME NEW g \in Garbage PROVE g \in Event
  <2>1. g.wd \in Int /\ g.kind \in Kind /\ g.name \in Name /\ g.src \in Path /\ g.inst \in Nat
    <3>1. g.wd \in CachedWds /\ g.kind \in EventMask /\ g.name \in Name
          /\ g.src = <<>> /\ g.inst = NoInstance
      BY DEF Garbage
    <3>2. NoInstance \in Nat
      BY DEF NoInstance
    <3>3. QED
      BY <1>2, <1>3, <3>1, <3>2, Zenon
  <2>2. g = [wd |-> g.wd, kind |-> g.kind, name |-> g.name, src |-> g.src, inst |-> g.inst]
    BY DEF Garbage
  <2>3. QED
    BY <2>1, <2>2 DEF Event
<1>5. QED
  BY <1>4

\* process_next_inotify_event preserves the invariant: one step per branch.
LEMMA ProcessType ==
  ASSUME Inv, Process
  PROVE  Inv'
<1> USE DEF rootvars, regvars, walkvars, loopvars, bufvars, obsvars, fsvars, kvars
<1>k. ASSUME UNCHANGED <<fsvars, kvars>> PROVE KTypeOK' /\ LiveDirsExist'
  BY <1>k DEF Inv, TypeOK, KTypeOK, LiveDirsExist, LiveWatches
<1>c. ASSUME Processing, Consume PROVE buf' \in Seq(Event) /\ atStart' \in BOOLEAN
  BY <1>c, CurType DEF Consume
<1>d. ASSUME DiscardRest PROVE buf' \in Seq(Event) /\ atStart' \in BOOLEAN
  BY <1>d DEF DiscardRest
<1>1. CASE ProcessUnwanted
  BY <1>1, <1>k, <1>d DEF ProcessUnwanted, Inv, TypeOK
<1>2. CASE ProcessOverflow
  <2>1. Processing /\ UNCHANGED <<fsvars, rootvars, obsvars>>
    BY <1>2 DEF ProcessOverflow
  <2>2. CASE Reinitialize(Tail(buf))
    BY <2>1, <2>2, CurType, ReinitializeType DEF Inv, TypeOK
  <2>3. CASE Consume /\ UNCHANGED <<kvars, pc, cont, cache, regvars, walkvars, loopvars>>
    BY <2>1, <2>3, <1>k, <1>c DEF Inv, TypeOK
  <2>4. QED
    BY <1>2, <2>2, <2>3 DEF ProcessOverflow
<1>3. CASE ProcessCreate
  <2>1. logged' \in Seq(LogRecord) /\ buf' \in Seq(Event) /\ atStart' \in BOOLEAN
        /\ KTypeOK' /\ LiveDirsExist'
    BY <1>3, <1>k, <1>c, LogType DEF ProcessCreate
  <2>2. /\ cache' \in Seq(Entry) /\ rooti' \in Nat /\ todo' \in Seq(Item)
        /\ pc' \in {"walk", "check", "remove", "loop", "fault"}
        /\ cont' \in {"start", "create", "rebuild"}
    <3>1. CASE ForgetPaths /\ StartWalk("create")
      BY <3>1 DEF ForgetPaths, StartWalk
    <3>2. CASE UNCHANGED <<cache, pc, cont, walkvars>>
      BY <3>2 DEF Inv, TypeOK
    <3>3. QED
      BY <1>3, <3>1, <3>2 DEF ProcessCreate
  <2>3. QED
    BY <1>3, <2>1, <2>2 DEF ProcessCreate, Inv, TypeOK
<1>4. CASE ProcessDeleteSelf
  <2>1. logged' \in Seq(LogRecord) /\ buf' \in Seq(Event) /\ atStart' \in BOOLEAN
        /\ KTypeOK' /\ LiveDirsExist'
    BY <1>4, <1>k, <1>c, LogType DEF ProcessDeleteSelf
  <2>2. /\ rootpaths' \in Seq(Path) /\ Len(rootpaths') = Len(RootPaths)
        /\ rootpathc' \in 0 .. Len(RootPaths)
    BY <1>4, DropRootType DEF ProcessDeleteSelf, CeaseIfRoot, Inv, TypeOK
  <2>3. UNCHANGED <<rootstat, follow>>
    BY <1>4 DEF ProcessDeleteSelf, CeaseIfRoot, DropRoot
  <2>4. QED
    BY <1>4, <2>1, <2>2, <2>3 DEF ProcessDeleteSelf, StartCheck, Inv, TypeOK
<1>5. CASE MovedFromMatched
  <2>1. Processing /\ Accepted /\ Log
    BY <1>5 DEF MovedFromMatched, ProcessingMovedFrom
  <2>2. PICK w \in CachedWds, n \in Name, k \in 1 .. Len(buf) :
          /\ cache' = RewriteCachedPaths(cache, MovedDir,
                                         FormatPath(WdToPathName(cache, w), n))
          /\ buf' = SubSeq(buf, k + 1, Len(buf))
          /\ atStart' = (k = Len(buf))
    BY <1>5 DEF MovedFromMatched
  <2>3. cache \in Seq(Entry) /\ buf \in Seq(Event)
    BY DEF Inv, TypeOK
  <2>4. WdToPathName(cache, w) \in Path
    BY <2>3, FindWatchFound, WdToPathNameType DEF CachedWds
  <2>5. FormatPath(WdToPathName(cache, w), n) \in Path
    BY <2>4 DEF FormatPath, Path
  <2>6. MovedDir \in Path
    BY <2>1, CurType DEF MovedDir, FormatPath, Path, Event
  <2>7. cache' \in Seq(Entry)
    BY <2>2, <2>3, <2>5, <2>6, RewriteCachedPathsType
  <2>8. buf' \in Seq(Event) /\ atStart' \in BOOLEAN
    BY <2>2, <2>3
  <2>9. logged' \in Seq(LogRecord) /\ KTypeOK' /\ LiveDirsExist'
    BY <1>5, <1>k, <2>1, LogType DEF MovedFromMatched
  <2>10. QED
    BY <1>5, <2>7, <2>8, <2>9 DEF MovedFromMatched, Inv, TypeOK
<1>6. CASE MovedFromUnknown
  <2>1. logged' \in Seq(LogRecord) /\ <<>> \in Seq(Event)
    BY <1>6, LogType DEF MovedFromUnknown, ProcessingMovedFrom
  <2>2. QED
    BY <1>6, <2>1, ReinitializeType DEF MovedFromUnknown, Inv, TypeOK
<1>7. CASE MovedFromOut
  <2>1. Processing /\ Accepted /\ Log
    BY <1>7 DEF MovedFromOut, ProcessingMovedFrom
  <2>2. MovedDir \in Path
    BY <2>1, CurType DEF MovedDir, FormatPath, Path, Event
  <2>3. logged' \in Seq(LogRecord) /\ buf' \in Seq(Event) /\ atStart' \in BOOLEAN
        /\ KTypeOK' /\ LiveDirsExist'
    BY <1>7, <1>k, <1>c, <2>1, LogType DEF MovedFromOut
  <2>4. QED
    BY <1>7, <2>2, <2>3 DEF MovedFromOut, StartRemove, Inv, TypeOK
<1>8. CASE MovedFromHanging
  <2>1. Processing /\ Accepted /\ Log
    BY <1>8 DEF MovedFromHanging, ProcessingMovedFrom
  <2>2. queue' \in Seq(Event)
    <3>1. queue \in Seq(Event) /\ ReadMax \in Nat
      BY FlagAssumption DEF Inv, TypeOK, KTypeOK
    <3>2. queue' = queue \/ \E n \in 1 .. ReadMax : n <= Len(queue) /\ queue' = SubSeq(queue, n + 1, Len(queue))
      BY <1>8 DEF MovedFromHanging
    <3>3. CASE queue' = queue
      BY <3>1, <3>3
    <3>4. ASSUME NEW n \in 1 .. ReadMax, n <= Len(queue), queue' = SubSeq(queue, n + 1, Len(queue))
          PROVE  queue' \in Seq(Event)
      BY <3>1, <3>4, LaterEventsType
    <3>5. QED
      BY <3>2, <3>3, <3>4
  <2>3. Garbage \subseteq Event
    BY GarbageType
  <2>4. buf' \in Seq(Event) /\ atStart' \in BOOLEAN
    <3>1. CASE DiscardRest
      BY <3>1, <1>d
    <3>2. CASE \E g \in Garbage : buf' = <<g>> /\ atStart' = FALSE
      <4>1. PICK g \in Garbage : buf' = <<g>> /\ atStart' = FALSE
        BY <3>2
      <4>2. g \in Event
        BY <2>3
      <4>3. <<g>> \in Seq(Event)
        BY <4>2
      <4>4. QED
        BY <4>1, <4>3
    <3>3. QED
      BY <1>8, <3>1, <3>2 DEF MovedFromHanging
  <2>5. logged' \in Seq(LogRecord)
    BY <2>1, LogType
  <2>6. KTypeOK' /\ LiveDirsExist'
    BY <1>8, <2>2 DEF MovedFromHanging, Inv, TypeOK, KTypeOK, LiveDirsExist, LiveWatches
  <2>7. QED
    BY <1>8, <2>4, <2>5, <2>6 DEF MovedFromHanging, Inv, TypeOK
<1>9. CASE MoveSelfFollow
  <2> DEFINE found == rootstat[CurRoot] \cap DOMAIN tree
  <2>1. logged' \in Seq(LogRecord) /\ Tail(buf) \in Seq(Event)
    BY <1>9, LogType, CurType DEF MoveSelfFollow
  <2>2. rootpaths \in Seq(Path) /\ Len(rootpaths) = Len(RootPaths)
    BY DEF Inv, TypeOK
  <2>3. ASSUME found # {} PROVE tree[CHOOSE i \in found : TRUE] \in Path
    BY <2>3, DirPathType DEF Inv, TypeOK, KTypeOK
  <2>4. rootpaths' \in Seq(Path) /\ Len(rootpaths') = Len(RootPaths)
    <3>1. rootpaths' = IF found = {} THEN rootpaths
                       ELSE ReplaceAt(rootpaths, CurRoot, tree[CHOOSE i \in found : TRUE])
      BY <1>9 DEF MoveSelfFollow, ReplaceRoot
    <3> HIDE DEF found
    <3>2. QED
      BY <2>2, <2>3, <3>1, ReplaceAtType
  <2>5. QED
    BY <1>9, <2>1, <2>4, ReinitializeType DEF MoveSelfFollow, Inv, TypeOK
<1>10. CASE MoveSelfCease
  <2>1. Processing /\ Accepted /\ Log
    BY <1>10 DEF MoveSelfCease
  <2>2. /\ rootpaths' \in Seq(Path) /\ Len(rootpaths') = Len(RootPaths)
        /\ rootpathc' \in 0 .. Len(RootPaths)
    BY <1>10, DropRootType DEF MoveSelfCease
  <2>3. UNCHANGED <<rootstat, follow>>
    BY <1>10 DEF MoveSelfCease, DropRoot
  <2>4. logged' \in Seq(LogRecord) /\ buf' \in Seq(Event) /\ atStart' \in BOOLEAN
        /\ KTypeOK' /\ LiveDirsExist' /\ CurPath \in Path
    BY <1>10, <1>k, <1>c, <2>1, LogType, CurType DEF MoveSelfCease
  <2>5. QED
    BY <1>10, <2>2, <2>3, <2>4 DEF MoveSelfCease, StartRemove, Inv, TypeOK
<1>11. CASE ProcessOther
  <2>1. logged' \in Seq(LogRecord) /\ buf' \in Seq(Event) /\ atStart' \in BOOLEAN
        /\ KTypeOK' /\ LiveDirsExist'
    BY <1>11, <1>k, <1>c, LogType DEF ProcessOther
  <2>2. QED
    BY <1>11, <2>1 DEF ProcessOther, Inv, TypeOK
<1>12. QED
  BY <1>1, <1>2, <1>3, <1>4, <1>5, <1>6, <1>7, <1>8, <1>9, <1>10, <1>11 DEF Process

\* Stuttering leaves everything as it is.
LEMMA StutterType ==
  ASSUME Inv, UNCHANGED vars
  PROVE  Inv'
<1>1. KTypeOK' /\ LiveDirsExist'
  BY DEF Inv, TypeOK, KTypeOK, LiveDirsExist, LiveWatches, vars, fsvars, kvars
<1>2. QED
  BY <1>1 DEF Inv, TypeOK, vars, tvars, rootvars, regvars, walkvars, loopvars, bufvars, obsvars

\* The thread starts, on any tree and for any subject, in a well-typed state.
LEMMA InitType ==
  ASSUME Init
  PROVE  Inv
<1>1. KTypeOK /\ LiveDirsExist
  <2>1. DOMAIN tree \subseteq Inode /\ \A i \in DOMAIN tree : tree[i] \in DirPath
    BY TreeAssumption DEF Init, KInit
  <2>2. kwatch = <<>> /\ queue = <<>> /\ inst = 1 /\ lost = FALSE /\ ops \in Nat
    BY LimitAssumption DEF Init, KInit
  <2>3. kwatch \in Seq(KWatch) /\ queue \in Seq(Event) /\ LiveWatches = {}
    BY <2>2 DEF LiveWatches
  <2>4. QED
    BY <2>1, <2>2, <2>3 DEF KTypeOK, LiveDirsExist
<1>2. rootpaths \in Seq(Path) /\ Len(rootpaths) = Len(RootPaths)
      /\ rootpathc \in 0 .. Len(RootPaths)
  BY RootAssumption DEF Init
<1>3. rootstat \in [DOMAIN RootPaths -> SUBSET Inode]
  BY <1>1 DEF Init, InitRootStat, DirsAt, KTypeOK
<1>4. wlcache \in Seq(Owner)
  BY WlcacheAssumption DEF Init, Owner
<1>5. rpath \in Path
  BY DEF Init, Path
<1>6. follow \in BOOLEAN /\ polled \in BOOLEAN /\ atStart \in BOOLEAN /\ leaked \in BOOLEAN
  BY FlagAssumption DEF Init
<1>7. QED
  BY <1>1, <1>2, <1>3, <1>4, <1>5, <1>6 DEF Init, Inv, TypeOK

\* Every step of the container and of the thread preserves the invariant.
LEMMA NextType ==
  ASSUME Inv, [Next]_vars
  PROVE  Inv'
<1>1. CASE Container
  <2>1. KTypeOK' /\ LiveDirsExist'
    BY <1>1, ContainerType DEF Inv, TypeOK, KInv
  <2>2. QED
    BY <1>1, <2>1 DEF Container, Inv, TypeOK, tvars, rootvars, regvars, walkvars, loopvars, bufvars, obsvars
<1>2. CASE Thread
  BY <1>2, WalkType, CheckType, RemoveSubtreeType, ReadEventsType, ProcessType DEF Thread
<1>3. CASE UNCHANGED vars
  BY <1>3, StutterType
<1>4. QED
  BY <1>1, <1>2, <1>3 DEF Next

\* For every tree, subject and container: whatever the container does between
\* the system calls of start_inotify_watcher, the arrays of struct arguswatch and
\* their counts stay in range.  In particular rootpathc never drops below zero,
\* however many roots are deleted or renamed, and every event that is logged or
\* looked up is one the kernel sent or one decoded in the form of an event.
THEOREM TypeCorrect == Spec => []TypeOK
<1>1. Init => Inv
  BY InitType
<1>2. Inv /\ [Next]_vars => Inv'
  BY NextType
<1>3. Inv => TypeOK
  BY DEF Inv
<1>4. QED
  BY <1>1, <1>2, <1>3, PTL DEF Spec
=============================================================================
