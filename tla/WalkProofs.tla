----------------------------- MODULE WalkProofs -----------------------------
(***************************************************************************)
(* Theorems about watch_subtree and the cache it fills, for a container     *)
(* that renames no directory: the watcher takes no slot of another one, and *)
(* the walk caches no descriptor twice; and, for one that removes none      *)
(* either, no directory that is to be watched is missed.                    *)
(***************************************************************************)
EXTENDS ArgusEventProofs

----------------------------------------------------------------------------
(* Paths and what is below them                                             *)

Plain == Seq(Name)

\* q is p or below p.
AtOrBelow(p, q) == Len(p) <= Len(q) /\ \A c \in 1 .. Len(p) : q[c] = p[c]

Apart(p, q) == ~AtOrBelow(p, q) /\ ~AtOrBelow(q, p)

\* This is the prefix test.
LEMMA PrefixIsBelow ==
  ASSUME NEW p \in Plain, NEW q \in Plain
  PROVE  IsPrefix(p, q) <=> AtOrBelow(p, q)
<1>1. Len(p) \in Nat /\ Len(q) \in Nat
  BY DEF Plain
<1>2. CASE Len(p) <= Len(q)
  <2> DEFINE a == SubSeq(p, 1, Len(p))
             b == SubSeq(q, 1, Len(p))
  <2>1. /\ a \in Seq(Name) /\ Len(a) = Len(p) /\ \A c \in 1 .. Len(p) : a[c] = p[c]
        /\ b \in Seq(Name) /\ Len(b) = Len(p) /\ \A c \in 1 .. Len(p) : b[c] = q[c]
    BY <1>1, <1>2 DEF Plain
  <2> HIDE DEF a, b
  <2>2. a = b <=> \A c \in 1 .. Len(p) : a[c] = b[c]
    BY <1>1, <2>1, SeqEqual
  <2>3. a = b <=> \A c \in 1 .. Len(p) : q[c] = p[c]
    BY <2>1, <2>2
  <2>4. QED
    BY <1>2, <2>3 DEF IsPrefix, AtOrBelow, a, b
<1>3. CASE ~(Len(p) <= Len(q))
  BY <1>3 DEF IsPrefix, AtOrBelow
<1>4. QED
  BY <1>2, <1>3

\* It is an order, ...
LEMMA BelowOrder ==
  ASSUME NEW p \in Plain, NEW q \in Plain, NEW r \in Plain
  PROVE  /\ AtOrBelow(p, p)
         /\ AtOrBelow(p, q) /\ AtOrBelow(q, r) => AtOrBelow(p, r)
         /\ AtOrBelow(p, q) /\ AtOrBelow(q, p) => p = q
<1>1. Len(p) \in Nat /\ Len(q) \in Nat /\ Len(r) \in Nat
  BY DEF Plain
<1>2. AtOrBelow(p, p)
  BY <1>1 DEF AtOrBelow
<1>3. AtOrBelow(p, q) /\ AtOrBelow(q, r) => AtOrBelow(p, r)
  BY <1>1 DEF AtOrBelow
<1>4. AtOrBelow(p, q) /\ AtOrBelow(q, p) => p = q
  BY <1>1, SeqEqual DEF AtOrBelow, Plain
<1>5. QED
  BY <1>2, <1>3, <1>4

\* ... in which what is above one path is a chain.
LEMMA AboveChain ==
  ASSUME NEW p \in Plain, NEW q \in Plain, NEW r \in Plain, AtOrBelow(p, r), AtOrBelow(q, r)
  PROVE  /\ AtOrBelow(p, q) \/ AtOrBelow(q, p)
         /\ Len(p) <= Len(q) => AtOrBelow(p, q)
<1>1. Len(p) \in Nat /\ Len(q) \in Nat /\ Len(r) \in Nat
  BY DEF Plain
<1>2. Len(p) <= Len(q) => AtOrBelow(p, q)
  BY <1>1 DEF AtOrBelow
<1>3. Len(q) <= Len(p) => AtOrBelow(q, p)
  BY <1>1 DEF AtOrBelow
<1>4. QED
  BY <1>1, <1>2, <1>3

\* A child is below its parent, and everything below it is; ...
LEMMA ChildBelow ==
  ASSUME NEW p \in Plain, NEW n \in Name
  PROVE  /\ Append(p, n) \in Plain /\ Len(Append(p, n)) = Len(p) + 1
         /\ Append(p, n) # p /\ AtOrBelow(p, Append(p, n))
         /\ \A q \in Plain : AtOrBelow(Append(p, n), q) =>
                /\ AtOrBelow(p, q) /\ q # p /\ q[Len(p) + 1] = n
<1> DEFINE a == Append(p, n)
<1>1. /\ Len(p) \in Nat /\ a \in Plain /\ Len(a) = Len(p) + 1
      /\ a[Len(p) + 1] = n /\ \A c \in 1 .. Len(p) : a[c] = p[c]
  BY DEF Plain
<1> HIDE DEF a
<1>2. a # p /\ AtOrBelow(p, a)
  BY <1>1 DEF AtOrBelow
<1>3. ASSUME NEW q \in Plain, AtOrBelow(a, q)
      PROVE  AtOrBelow(p, q) /\ q # p /\ q[Len(p) + 1] = n
  <2>1. Len(q) \in Nat
    BY DEF Plain
  <2>2. QED
    BY <1>1, <1>3, <2>1 DEF AtOrBelow
<1>4. QED
  BY <1>1, <1>2, <1>3 DEF a

\* ... what is below p, and not p, is at or below one of its children.
LEMMA BelowChild ==
  ASSUME NEW p \in Plain, NEW q \in Plain, AtOrBelow(p, q), p # q
  PROVE  /\ Len(p) + 1 \in 1 .. Len(q) /\ q[Len(p) + 1] \in Name
         /\ AtOrBelow(Append(p, q[Len(p) + 1]), q)
<1>1. Len(p) \in Nat /\ Len(q) \in Nat /\ \A c \in 1 .. Len(q) : q[c] \in Name
  BY DEF Plain
<1>2. Len(p) # Len(q)
  BY <1>1, SeqEqual DEF AtOrBelow, Plain
<1>3. Len(p) + 1 \in 1 .. Len(q)
  BY <1>1, <1>2 DEF AtOrBelow
<1>4. PICK n \in Name : n = q[Len(p) + 1]
  BY <1>1, <1>3
<1> DEFINE a == Append(p, n)
<1>5. /\ Len(a) = Len(p) + 1 /\ a[Len(p) + 1] = n /\ \A c \in 1 .. Len(p) : a[c] = p[c]
  BY <1>1 DEF Plain
<1> HIDE DEF a
<1>6. AtOrBelow(a, q)
  <2>1. ASSUME NEW c \in 1 .. Len(a) PROVE q[c] = a[c]
    <3>1. c \in 1 .. Len(p) \/ c = Len(p) + 1
      BY <1>1, <1>5
    <3>2. QED
      BY <1>4, <1>5, <3>1 DEF AtOrBelow
  <2>2. QED
    BY <1>1, <1>3, <1>5, <2>1 DEF AtOrBelow
<1>7. QED
  BY <1>3, <1>4, <1>6 DEF a

\* What a plain path names.
LEMMA ResolvePlain == \A p \in Plain : Resolve(p) = p
BY DEF Resolve, Plain

----------------------------------------------------------------------------
(* The slot of the watcher                                                  *)

\* find_empty_cache_slot returns a free slot, and add_watch_to_cache writes to no other.
LEMMA AddWatchToCacheFree ==
  ASSUME NEW wl \in Seq(Owner)
  PROVE  LET s == FindEmptyCacheSlot(wl)
             new == AddWatchToCache(wl)
         IN /\ DOMAIN wl \subseteq DOMAIN new
            /\ s \in DOMAIN new /\ new[s] = "self"
            /\ \A k \in DOMAIN wl : wl[k] # "empty" => new[k] = wl[k]
<1> DEFINE e == [i \in 1 .. AllocInc |-> "empty"]
           g == Grown(wl)
           I == {i \in 1 .. Len(g) : g[i] = "empty"}
           s == FindEmptyCacheSlot(wl)
<1>1. e \in Seq(Owner) /\ Len(e) = AllocInc /\ e[1] = "empty" /\ AllocInc \in Nat \ {0}
  BY AllocAssumption, IsASeq DEF Owner
<1>2. /\ g \in Seq(Owner) /\ Len(wl) \in Nat /\ Len(g) \in Nat /\ Len(wl) <= Len(g)
      /\ \A k \in 1 .. Len(wl) : g[k] = wl[k]
      /\ \E i \in 1 .. Len(g) : g[i] = "empty"
  <2>1. CASE \E i \in DOMAIN wl : wl[i] = "empty"
    BY <2>1 DEF Grown
  <2>2. CASE ~\E i \in DOMAIN wl : wl[i] = "empty"
    <3> HIDE DEF e
    <3>1. g = wl \o e
      BY <2>2 DEF Grown, e
    <3> HIDE DEF g
    <3>2. /\ g \in Seq(Owner) /\ Len(g) = Len(wl) + Len(e) /\ Len(wl) \in Nat
          /\ \A k \in 1 .. Len(wl) : g[k] = wl[k]
          /\ g[Len(wl) + 1] = e[1]
      <4>1. /\ g \in Seq(Owner) /\ Len(g) = Len(wl) + Len(e) /\ Len(wl) \in Nat
            /\ \A k \in 1 .. Len(wl) + Len(e) :
                  g[k] = IF k <= Len(wl) THEN wl[k] ELSE e[k - Len(wl)]
        <5>1. e \in Seq(Owner) /\ Len(wl) \in Nat
          BY <1>1
        <5>2. QED
          BY <3>1, <5>1, ConcatProperties, Zenon
      <4>2. Len(wl) + 1 \in 1 .. Len(wl) + Len(e) /\ (Len(wl) + 1) - Len(wl) = 1
            /\ ~(Len(wl) + 1 <= Len(wl)) /\ 1 .. Len(wl) \subseteq 1 .. Len(wl) + Len(e)
        BY <1>1, <4>1
      <4>3. g[Len(wl) + 1] = e[(Len(wl) + 1) - Len(wl)]
        BY <4>1, <4>2
      <4>4. QED
        BY <4>1, <4>2, <4>3
    <3>3. Len(wl) + 1 \in 1 .. Len(g)
      BY <1>1, <3>2
    <3>4. QED
      BY <1>1, <3>2, <3>3
  <2>3. QED
    BY <2>1, <2>2
<1>3. s = IF I # {} THEN Min(I) ELSE 0
  BY DEF FindEmptyCacheSlot, SelectInSeq
<1>4. I \subseteq 1 .. Len(g) /\ I # {} /\ \A i \in I : g[i] = "empty"
  BY <1>2
<1>5. AddWatchToCache(wl) = [g EXCEPT ![s] = "self"]
  BY DEF AddWatchToCache, ReplaceAt
<1> HIDE DEF I, g, s
<1>6. s \in 0 .. Len(g) /\ (s > 0 <=> s \in I) /\ (s = 0 => I = {})
  BY <1>2, <1>3, <1>4, MinOrZero, Zenon
<1>7. s \in 1 .. Len(g) /\ g[s] = "empty"
  <2>1. s # 0
    BY <1>4, <1>6
  <2>2. s > 0
    BY <1>6, <2>1
  <2>3. QED
    BY <1>4, <1>6, <2>2
<1>8. QED
  BY <1>2, <1>5, <1>7 DEF s

\* No slot is the watcher's before its first walk is over; then one is.
SlotInv ==
    \/ cont = "start" /\ pc \in {"walk", "fault"} /\ wlcache = InitWlcache
    \/ slot \in DOMAIN wlcache /\ wlcache[slot] = "self"

SlotsKept == \A k \in DOMAIN wlcache : wlcache[k] = "other" => wlcache'[k] = "other"

\* The end of a walk is the one step that writes to wlcache.
LEMMA WalkDoneSlot ==
  ASSUME Inv, SlotInv, WalkDone
  PROVE  SlotInv' /\ SlotsKept
<1>1. wlcache \in Seq(Owner) /\ slot \in Nat /\ pc = "walk"
  BY DEF Inv, TypeOK, WalkDone
<1>2. CASE cont = "create"
  <2>1. slot \in DOMAIN wlcache /\ wlcache[slot] = "self"
    BY <1>2 DEF SlotInv
  <2>2. wlcache' = [wlcache EXCEPT ![slot] = "self"] /\ slot' = slot
    BY <1>2 DEF WalkDone, ReplaceAt
  <2>3. QED
    BY <1>1, <2>1, <2>2 DEF SlotInv, SlotsKept
<1>3. CASE cont # "create" /\ FindCachedSlot(wlcache) = 0
  <2>1. slot' = FindEmptyCacheSlot(wlcache) /\ wlcache' = AddWatchToCache(wlcache)
    BY <1>3 DEF WalkDone
  <2>2. /\ DOMAIN wlcache \subseteq DOMAIN wlcache'
        /\ slot' \in DOMAIN wlcache' /\ wlcache'[slot'] = "self"
        /\ \A k \in DOMAIN wlcache : wlcache[k] # "empty" => wlcache'[k] = wlcache[k]
    BY <1>1, <2>1, AddWatchToCacheFree
  <2>3. QED
    BY <1>2, <2>2 DEF SlotInv, SlotsKept
<1>4. CASE cont # "create" /\ FindCachedSlot(wlcache) # 0
  <2>1. slot' = slot /\ wlcache' = wlcache
    BY <1>4 DEF WalkDone
  <2>2. wlcache # InitWlcache
    <3>1. SUFFICES ASSUME wlcache = InitWlcache PROVE FALSE
      OBVIOUS
    <3>2. {i \in 1 .. Len(wlcache) : wlcache[i] = "self"} = {}
      BY <3>1, WlcacheAssumption
    <3>3. QED
      BY <1>4, <3>2 DEF FindCachedSlot, SelectInSeq
  <2>3. QED
    BY <2>1, <2>2 DEF SlotInv, SlotsKept
<1>5. QED
  BY <1>2, <1>3, <1>4

\* A watcher whose container renames nothing leaves the slots of the others alone,
\* however full wlcache is when it is started and however often it walks again:
\* find_empty_cache_slot gives it a free one, and process_next_inotify_event puts it
\* back where it was (the slot of remove_subtree is the one that is not its own).
THEOREM OtherSlotsStay ==
  ASSUME "rename" \notin FsOps
  PROVE  Spec => OtherSlotsKept
<1> USE DEF rootvars, regvars, walkvars, loopvars, bufvars, obsvars, fsvars, kvars
<1>1. Init => SlotInv
  BY DEF Init, SlotInv
<1>2. ASSUME Inv, ReportInv, SlotInv, [Next]_vars PROVE SlotInv' /\ SlotsKept
  <2>1. CASE WalkDone
    BY <1>2, <2>1, WalkDoneSlot
  <2>2. ASSUME UNCHANGED <<wlcache, slot>>,
               UNCHANGED <<pc, cont>> \/ pc \notin {"walk", "fault"} \/ (pc' = "fault" /\ cont' = cont)
        PROVE  SlotInv' /\ SlotsKept
    BY <1>2, <2>2 DEF SlotInv, SlotsKept
  <2>3. CASE Container \/ UNCHANGED vars
    BY <2>2, <2>3 DEF Container, vars, tvars
  <2>4. CASE Walk /\ ~WalkDone
    <3>1. CASE WalkDoneNoEventfd
      <4>1. UNCHANGED <<wlcache, slot>> /\ cont = "rebuild"
        BY <3>1 DEF WalkDoneNoEventfd
      <4>2. QED
        BY <1>2, <4>1 DEF SlotInv, SlotsKept
    <3>2. CASE WalkRoot \/ WalkVisit \/ WalkSkip \/ WalkAbort \/ WalkList
      BY <2>2, <3>2 DEF WalkRoot, WalkVisit, WalkSkip, WalkAbort, WalkList
    <3>3. QED
      BY <2>4, <3>1, <3>2 DEF Walk
  <2>5. CASE Check
    BY <2>2, <2>5 DEF Check, CheckEntry, CheckDone
  <2>6. CASE RemoveSubtree
    BY <1>2, <2>6 DEF RemoveSubtree, RemoveEntry, RemoveFailed, RemoveDone, ReportInv, NeverRebuilt
  <2>7. CASE ReadEvents
    BY <2>2, <2>7 DEF ReadEvents
  <2>8. CASE Process
    <3>1. pc = "loop"
      BY <2>8 DEF Process, ProcessUnwanted, ProcessOverflow, ProcessCreate, ProcessDeleteSelf,
                  MovedFromMatched, MovedFromUnknown, MovedFromOut, MovedFromHanging,
                  MoveSelfFollow, MoveSelfCease, ProcessOther, ProcessingMovedFrom, Processing
    <3>2. UNCHANGED <<wlcache, slot>>
      BY <2>8 DEF Process, ProcessUnwanted, ProcessOverflow, ProcessCreate, ProcessDeleteSelf,
                  MovedFromMatched, MovedFromUnknown, MovedFromOut, MovedFromHanging,
                  MoveSelfFollow, MoveSelfCease, ProcessOther, Reinitialize
    <3>3. QED
      BY <2>2, <3>1, <3>2
  <2>9. QED
    BY <1>2, <2>1, <2>3, <2>4, <2>5, <2>6, <2>7, <2>8 DEF Next, Thread
<1>3. (Inv /\ ReportInv) /\ SlotInv /\ [Next]_vars => SlotInv' /\ [SlotsKept]_vars
  BY <1>2
<1>4. OtherSlotsKept <=> [][SlotsKept]_vars
  BY PTL DEF OtherSlotsKept, SlotsKept
<1>5. QED
  BY <1>1, <1>3, <1>4, ReportInvariant, PTL DEF Spec

----------------------------------------------------------------------------
(* No directory is visited twice                                            *)

\* nftw will come to q by way of m, a directory to visit or one to list.
Ahead(m, q) == AtOrBelow(m.path, q) /\ (m.dir # {} => q # m.path)

\* A root path is removed from the list, and never changed.
RootsTrue == \A k \in DOMAIN RootPaths : rootpaths[k] \in {RootPaths[k], NULL}

\* The cache has every path once.
CacheApart ==
    /\ \A k \in DOMAIN cache : cache[k].path \in Plain
    /\ \A j, k \in DOMAIN cache : j # k => cache[j].path # cache[k].path

\* What nftw has still to visit is below the current root, ...
TodoApart ==
    /\ \A k \in DOMAIN todo :
          /\ todo[k].path \in Plain
          /\ rooti \in DOMAIN RootPaths /\ AtOrBelow(RootPaths[rooti], todo[k].path)
    /\ \A j, k \in DOMAIN todo : j # k => Apart(todo[j].path, todo[k].path)

\* ... what it has visited is below this root or an earlier one, and not ahead.
CacheBehind ==
    /\ \A l \in DOMAIN cache :
          \E j \in DOMAIN RootPaths : j <= rooti /\ AtOrBelow(RootPaths[j], cache[l].path)
    /\ \A k \in DOMAIN todo, l \in DOMAIN cache : ~Ahead(todo[k], cache[l].path)

WalkInv ==
    /\ RootsTrue /\ CacheApart /\ NoDuplicateWd
    /\ pc = "walk" => TodoApart /\ CacheBehind

\* The roots are apart.
LEMMA RootsAreApart ==
  ASSUME RootsApart, NEW j \in DOMAIN RootPaths, NEW k \in DOMAIN RootPaths, NEW q \in Plain,
         AtOrBelow(RootPaths[j], q), AtOrBelow(RootPaths[k], q)
  PROVE  j = k
<1>1. RootPaths[j] \in Plain /\ RootPaths[k] \in Plain
  BY DEF RootsApart, Plain
<1>2. AtOrBelow(RootPaths[j], RootPaths[k]) \/ AtOrBelow(RootPaths[k], RootPaths[j])
  BY <1>1, AboveChain
<1>3. IsPrefix(RootPaths[j], RootPaths[k]) \/ IsPrefix(RootPaths[k], RootPaths[j])
  BY <1>1, <1>2, PrefixIsBelow
<1>4. QED
  BY <1>3 DEF RootsApart

\* The first element of nftw's list is replaced by others.
LEMMA Spliced ==
  ASSUME NEW S, NEW a \in Seq(S), NEW q \in Seq(S), q # <<>>, NEW r, r = a \o Tail(q)
  PROVE  /\ \A k \in DOMAIN r :
               \/ k \in DOMAIN a /\ r[k] = a[k]
               \/ /\ k \notin DOMAIN a
                  /\ k - Len(a) + 1 \in DOMAIN q \ {1} /\ r[k] = q[k - Len(a) + 1]
         /\ \A k \in DOMAIN a : k \in DOMAIN r /\ r[k] = a[k]
         /\ \A l \in DOMAIN q \ {1} : l + Len(a) - 1 \in DOMAIN r /\ r[l + Len(a) - 1] = q[l]
<1> DEFINE t == Tail(q)
<1>1. /\ Len(a) \in Nat /\ Len(q) \in Nat /\ Len(q) > 0 /\ t \in Seq(S) /\ Len(t) = Len(q) - 1
      /\ \A k \in 1 .. Len(q) - 1 : t[k] = q[k + 1]
      /\ DOMAIN a = 1 .. Len(a) /\ DOMAIN q = 1 .. Len(q)
  BY EmptySeq
<1> HIDE DEF t
<1>2. /\ r \in Seq(S) /\ Len(r) = Len(a) + Len(t)
      /\ \A k \in 1 .. Len(a) + Len(t) : r[k] = IF k <= Len(a) THEN a[k] ELSE t[k - Len(a)]
  BY <1>1, ConcatProperties, Zenon DEF t
<1>3. DOMAIN r = 1 .. Len(a) + Len(q) - 1
  BY <1>1, <1>2
<1>4. ASSUME NEW k \in DOMAIN r, k > Len(a)
      PROVE  k - Len(a) + 1 \in DOMAIN q \ {1} /\ r[k] = q[k - Len(a) + 1]
  <2>1. /\ k \in 1 .. Len(a) + Len(t) /\ ~(k <= Len(a)) /\ k - Len(a) \in 1 .. Len(q) - 1
        /\ k - Len(a) + 1 \in 1 .. Len(q) /\ k - Len(a) + 1 # 1
    BY <1>1, <1>3, <1>4
  <2>2. r[k] = t[k - Len(a)]
    BY <1>2, <2>1
  <2>3. QED
    BY <1>1, <2>1, <2>2
<1>5. ASSUME NEW k \in DOMAIN a PROVE k \in DOMAIN r /\ r[k] = a[k]
  <2>1. k \in 1 .. Len(a) + Len(t) /\ k <= Len(a)
    BY <1>1
  <2>2. QED
    BY <1>1, <1>2, <1>3, <2>1
<1>6. ASSUME NEW k \in DOMAIN r PROVE k \in DOMAIN a \/ (k \notin DOMAIN a /\ k > Len(a))
  BY <1>1, <1>3
<1>7. ASSUME NEW l \in DOMAIN q \ {1}
      PROVE  l + Len(a) - 1 \in DOMAIN r /\ r[l + Len(a) - 1] = q[l]
  <2>1. /\ l + Len(a) - 1 \in DOMAIN r /\ l + Len(a) - 1 > Len(a)
        /\ (l + Len(a) - 1) - Len(a) + 1 = l
    BY <1>1, <1>3
  <2>2. r[l + Len(a) - 1] = q[(l + Len(a) - 1) - Len(a) + 1]
    BY <1>4, <2>1
  <2>3. QED
    BY <2>1, <2>2
<1>8. QED
  BY <1>4, <1>5, <1>6, <1>7

\* When they are at or below it and apart, the list stays apart.
LEMMA SplicedApart ==
  ASSUME TypeOK, TodoApart, todo # <<>>, NEW a \in Seq(Item), todo' = a \o Tail(todo),
         rooti' = rooti,
         \A k \in DOMAIN a : a[k].path \in Plain /\ AtOrBelow(todo[1].path, a[k].path),
         \A j, k \in DOMAIN a : j # k => Apart(a[j].path, a[k].path)
  PROVE  /\ TodoApart'
         /\ \A k \in DOMAIN todo' :
               \/ \E l \in DOMAIN a : todo'[k] = a[l]
               \/ \E l \in DOMAIN todo : l # 1 /\ todo'[k] = todo[l]
<1> DEFINE h == todo[1].path
           old(k) == k - Len(a) + 1
<1>1. todo \in Seq(Item) /\ Len(a) \in Nat /\ 1 \in DOMAIN todo
  BY EmptySeq DEF TypeOK
<1>2. \A k \in DOMAIN todo' :
          \/ k \in DOMAIN a /\ todo'[k] = a[k]
          \/ k \notin DOMAIN a /\ old(k) \in DOMAIN todo \ {1} /\ todo'[k] = todo[old(k)]
  <2>1. PICK q \in Seq(Item) : q = todo
    BY <1>1
  <2>2. PICK r : r = todo'
    OBVIOUS
  <2>3. r = a \o Tail(q) /\ q # <<>>
    BY <2>1, <2>2
  <2>4. \A k \in DOMAIN r :
          \/ k \in DOMAIN a /\ r[k] = a[k]
          \/ /\ k \notin DOMAIN a
             /\ k - Len(a) + 1 \in DOMAIN q \ {1} /\ r[k] = q[k - Len(a) + 1]
    BY <2>3, Spliced
  <2>5. QED
    BY <2>1, <2>2, <2>4
<1>3. h \in Plain /\ rooti \in DOMAIN RootPaths /\ AtOrBelow(RootPaths[rooti], h)
  BY <1>1 DEF TodoApart
<1>4. \A l \in DOMAIN todo : todo[l].path \in Plain /\ (l # 1 => Apart(todo[l].path, h))
  BY <1>1 DEF TodoApart
<1>5. ASSUME NEW k \in DOMAIN a, NEW l \in DOMAIN todo, l # 1
      PROVE  Apart(a[k].path, todo[l].path) /\ Apart(todo[l].path, a[k].path)
  <2>1. /\ a[k].path \in Plain /\ todo[l].path \in Plain /\ AtOrBelow(h, a[k].path)
        /\ Apart(todo[l].path, h)
    BY <1>4, <1>5
  <2>2. ~AtOrBelow(a[k].path, todo[l].path)
    BY <1>3, <2>1, BelowOrder DEF Apart
  <2>3. ~AtOrBelow(todo[l].path, a[k].path)
    BY <1>3, <2>1, AboveChain DEF Apart
  <2>4. QED
    BY <2>2, <2>3 DEF Apart
<1>6. ASSUME NEW k \in DOMAIN todo'
      PROVE  todo'[k].path \in Plain /\ AtOrBelow(RootPaths[rooti], todo'[k].path)
  <2>1. CASE k \in DOMAIN a /\ todo'[k] = a[k]
    <3>1. a[k].path \in Plain /\ AtOrBelow(h, a[k].path)
      BY <2>1
    <3>2. AtOrBelow(RootPaths[rooti], a[k].path)
      <4>1. /\ Len(RootPaths[rooti]) <= Len(h) /\ Len(h) <= Len(a[k].path)
            /\ Len(RootPaths[rooti]) \in Nat /\ Len(h) \in Nat /\ Len(a[k].path) \in Nat
        BY <1>3, <3>1, RootAssumption DEF AtOrBelow, Plain, Path
      <4>2. QED
        BY <1>3, <3>1, <4>1 DEF AtOrBelow
    <3>3. QED
      BY <2>1, <3>1, <3>2
  <2>2. CASE old(k) \in DOMAIN todo /\ todo'[k] = todo[old(k)]
    BY <2>2 DEF TodoApart
  <2>3. QED
    BY <1>2, <2>1, <2>2
<1>7. ASSUME NEW j \in DOMAIN todo', NEW k \in DOMAIN todo', j # k
      PROVE  Apart(todo'[j].path, todo'[k].path)
  <2>1. CASE j \in DOMAIN a /\ k \in DOMAIN a
    BY <1>2, <1>7, <2>1
  <2>2. CASE j \in DOMAIN a /\ k \notin DOMAIN a
    BY <1>2, <1>5, <2>2
  <2>3. CASE j \notin DOMAIN a /\ k \in DOMAIN a
    BY <1>2, <1>5, <2>3
  <2>4. CASE j \notin DOMAIN a /\ k \notin DOMAIN a
    <3>1. old(j) \in DOMAIN todo /\ old(k) \in DOMAIN todo
          /\ todo'[j] = todo[old(j)] /\ todo'[k] = todo[old(k)]
      BY <1>2, <2>4
    <3>2. old(j) # old(k)
      <4>1. a \o Tail(todo) \in Seq(Item)
        BY <1>1
      <4>2. j \in Nat /\ k \in Nat
        BY <4>1
      <4>3. QED
        BY <1>1, <1>7, <4>2
    <3>3. QED
      BY <3>1, <3>2 DEF TodoApart
  <2>5. QED
    BY <2>1, <2>2, <2>3, <2>4
<1>8. TodoApart'
  BY <1>3, <1>6, <1>7 DEF TodoApart
<1>9. QED
  BY <1>2, <1>8

\* remove_item_from_cache moves the entries above the index down by one.
LEMMA RemoveItemIndex ==
  ASSUME NEW c \in Seq(Entry), NEW k \in Nat \ {0}, k <= Len(c),
         NEW r, r = RemoveItemFromCache(c, k)
  PROVE  /\ DOMAIN r = 1 .. Len(c) - 1
         /\ \A j \in 1 .. Len(c) - 1 :
               /\ j < k => j \in DOMAIN c /\ r[j] = c[j]
               /\ j >= k => j + 1 \in DOMAIN c /\ r[j] = c[j + 1]
<1> DEFINE a == SubSeq(c, 1, k - 1)
           b == SubSeq(c, k + 1, Len(c))
<1>1. /\ a \in Seq(Entry) /\ Len(a) = k - 1
      /\ \A j \in 1 .. k - 1 : a[j] = c[j]
  OBVIOUS
<1>2. /\ b \in Seq(Entry) /\ Len(b) = Len(c) - k
      /\ \A j \in 1 .. Len(c) - k : b[j] = c[k + j]
  OBVIOUS
<1>3. r = a \o b /\ Len(c) \in Nat /\ DOMAIN c = 1 .. Len(c)
  BY DEF RemoveItemFromCache, RemoveAt
<1> HIDE DEF a, b
<1>4. DOMAIN r = 1 .. Len(c) - 1
  BY <1>1, <1>2, <1>3
<1>5. ASSUME NEW j \in 1 .. Len(c) - 1, j < k PROVE r[j] = c[j] /\ j \in 1 .. Len(c)
  BY <1>1, <1>2, <1>3, <1>5
<1>6. ASSUME NEW j \in 1 .. Len(c) - 1, j >= k PROVE r[j] = c[j + 1] /\ j + 1 \in 1 .. Len(c)
  <2>1. r[j] = b[j - (k - 1)]
    BY <1>1, <1>2, <1>3, <1>6
  <2>2. QED
    BY <1>2, <1>3, <1>6, <2>1
<1>7. QED
  BY <1>3, <1>4, <1>5, <1>6

\* Then what is left of the cache stays apart.
LEMMA CheckApart ==
  ASSUME Inv, CacheApart, NoDuplicateWd, CheckEntry
  PROVE  CacheApart' /\ NoDuplicateWd'
<1>1. cache \in Seq(Entry) /\ idx \in Nat \ {0} /\ idx <= Len(cache)
  BY DEF Inv, TypeOK, CheckEntry
<1>2. CASE cache' = cache
  BY <1>2 DEF CacheApart, NoDuplicateWd
<1>3. CASE cache' = RemoveItemFromCache(cache, idx)
  <2> DEFINE from(j) == IF j < idx THEN j ELSE j + 1
  <2>1. \A j \in DOMAIN cache' :
          j \in Nat /\ from(j) \in DOMAIN cache /\ cache'[j] = cache[from(j)]
    <3>1. PICK r : r = cache'
      OBVIOUS
    <3>2. PICK c \in Seq(Entry), k \in Nat \ {0} :
            c = cache /\ k = idx /\ k <= Len(c) /\ r = RemoveItemFromCache(c, k)
      BY <1>1, <1>3, <3>1
    <3>3. /\ DOMAIN r = 1 .. Len(c) - 1 /\ Len(c) \in Nat
          /\ \A j \in 1 .. Len(c) - 1 :
                /\ j < k => j \in DOMAIN c /\ r[j] = c[j]
                /\ j >= k => j + 1 \in DOMAIN c /\ r[j] = c[j + 1]
      BY <3>2, RemoveItemIndex
    <3>4. ASSUME NEW j \in 1 .. Len(c) - 1
          PROVE  j \in Nat /\ from(j) \in DOMAIN cache /\ r[j] = cache[from(j)]
      <4>1. j \in Nat /\ idx \in Nat
        BY <1>1
      <4>2. CASE j < idx
        BY <3>2, <3>3, <4>1, <4>2
      <4>3. CASE ~(j < idx)
        BY <3>2, <3>3, <4>1, <4>3
      <4>4. QED
        BY <4>2, <4>3
    <3>5. QED
      BY <3>1, <3>3, <3>4
  <2>2. \A j, k \in DOMAIN cache' : j # k => from(j) # from(k)
    BY <1>1, <2>1
  <2> HIDE DEF from
  <2>3. QED
    BY <2>1, <2>2 DEF CacheApart, NoDuplicateWd
<1>4. QED
  BY <1>2, <1>3 DEF CheckEntry

\* The walk of the next root: it is apart from the roots already walked.
LEMMA WalkRootInv ==
  ASSUME RootsApart, Inv, WalkInv, WalkRoot
  PROVE  WalkInv'
<1>1. /\ pc = "walk" /\ todo = <<>> /\ rooti' = rooti + 1 /\ rooti < rootpathc
      /\ UNCHANGED <<cache, rootpaths>> /\ rooti \in Nat /\ rootpathc \in 0 .. Len(RootPaths)
      /\ RootPaths \in Seq(Path \ {NULL}) /\ TodoApart /\ CacheBehind
  BY RootAssumption DEF WalkRoot, rootvars, WalkInv, Inv, TypeOK
<1>2. rooti + 1 \in DOMAIN RootPaths
  BY <1>1
<1>3. RootsTrue' /\ CacheApart' /\ NoDuplicateWd'
  BY <1>1 DEF WalkInv, RootsTrue, CacheApart, NoDuplicateWd
<1>4. \A k \in DOMAIN cache : cache[k].path \in Plain
  BY DEF WalkInv, CacheApart
<1>5. \A l \in DOMAIN cache :
        \E j \in DOMAIN RootPaths : j <= rooti + 1 /\ AtOrBelow(RootPaths[j], cache[l].path)
  BY <1>1 DEF CacheBehind
<1>6. CASE rootpaths[rooti + 1] = NULL
  <2>1. todo' = <<>>
    BY <1>6 DEF WalkRoot
  <2>2. TodoApart' /\ CacheBehind'
    BY <1>1, <1>5, <2>1 DEF TodoApart, CacheBehind
  <2>3. QED
    BY <1>3, <2>2 DEF WalkInv
<1>7. CASE rootpaths[rooti + 1] # NULL
  <2> DEFINE m == [path |-> RootPaths[rooti + 1], level |-> 0, dir |-> {}]
  <2>1. rootpaths[rooti + 1] = RootPaths[rooti + 1]
    BY <1>2, <1>7 DEF WalkInv, RootsTrue
  <2>2. todo' = <<m>> /\ m.path = RootPaths[rooti + 1]
    BY <1>7, <2>1 DEF WalkRoot
  <2> HIDE DEF m
  <2>3. DOMAIN todo' = {1} /\ todo'[1] = m
    BY <2>2
  <2>4. m.path \in Plain /\ AtOrBelow(m.path, m.path)
    <3>1. m.path \in Plain
      BY <1>2, <2>2 DEF RootsApart, Plain
    <3>2. QED
      BY <3>1, BelowOrder
  <2>5. TodoApart'
    BY <1>1, <1>2, <2>2, <2>3, <2>4 DEF TodoApart
  <2>6. ASSUME NEW l \in DOMAIN cache PROVE ~Ahead(m, cache[l].path)
    <3>1. PICK j \in DOMAIN RootPaths : j <= rooti /\ AtOrBelow(RootPaths[j], cache[l].path)
      BY <1>1 DEF CacheBehind
    <3>2. j # rooti + 1
      BY <1>1, <3>1
    <3>3. QED
      BY <1>2, <1>4, <2>2, <3>1, <3>2, RootsAreApart DEF Ahead
  <2>7. CacheBehind'
    BY <1>1, <1>5, <2>3, <2>6 DEF CacheBehind
  <2>8. QED
    BY <1>3, <2>5, <2>7 DEF WalkInv
<1>8. QED
  BY <1>6, <1>7

\* watch_path appends a path, and a descriptor, that the cache does not have.
LEMMA WalkVisitInv ==
  ASSUME Inv, ReportInv, WalkInv, WalkVisit
  PROVE  WalkInv'
<1>1. /\ pc = "walk" /\ todo # <<>> /\ todo \in Seq(Item) /\ cache \in Seq(Entry)
      /\ UNCHANGED <<pc, rootpaths, rooti>> /\ TodoApart /\ CacheBehind /\ CacheApart /\ KInv
  BY DEF WalkVisit, Visiting, rootvars, WalkInv, Inv, TypeOK, KInv
<1>2. PICK m \in Item : m = todo[1] /\ m = Head(todo) /\ m.dir = {} /\ 1 \in DOMAIN todo
  BY <1>1 DEF WalkVisit, Visiting
<1>3. PICK i \in DirsAt(m.path) :
        /\ AddWatch(i, WatchMask(m.path)) /\ AppendEntry(AddedWd(i), m.path)
        /\ todo' = (IF Recursive THEN <<[m EXCEPT !.dir = {i}]>> ELSE <<>>) \o Tail(todo)
  BY <1>2 DEF WalkVisit
<1>4. m.path \in Plain /\ tree[i] = m.path /\ i \in DOMAIN tree
  BY <1>1, <1>2, <1>3, ResolvePlain DEF TodoApart, DirsAt
<1> DEFINE new == [wd |-> AddedWd(i), path |-> m.path]
           n == Len(cache)
<1>5. /\ n \in Nat /\ DOMAIN cache = 1 .. n /\ DOMAIN cache' = 1 .. n + 1
      /\ cache'[n + 1] = new /\ \A l \in 1 .. n : cache'[l] = cache[l]
      /\ new.wd = AddedWd(i) /\ new.path = m.path
  BY <1>1, <1>3 DEF AppendEntry
<1> HIDE DEF new, n
<1>6. \A l \in DOMAIN cache : cache[l].path # m.path
  <2>1. Ahead(m, m.path)
    BY <1>2, <1>4, BelowOrder DEF Ahead
  <2>2. QED
    BY <1>1, <1>2, <2>1 DEF CacheBehind
<1>7. ASSUME NEW l \in DOMAIN cache PROVE cache[l].wd # AddedWd(i)
  <2>1. /\ cache[l].wd \in DOMAIN kwatch
        /\ kwatch[cache[l].wd].live => Resolve(cache[l].path) = tree[kwatch[cache[l].wd].ino]
    BY DEF ReportInv, CacheTrue, Elems
  <2>2. CASE WatchesOn({i}) # {}
    <3>1. AddedWd(i) \in WatchesOn({i})
      BY <2>2 DEF AddedWd
    <3>2. kwatch[AddedWd(i)].live /\ kwatch[AddedWd(i)].ino = i
      BY <3>1 DEF WatchesOn, LiveWatches
    <3>3. cache[l].path \in Plain
      BY <1>1 DEF CacheApart
    <3>4. QED
      BY <1>4, <1>6, <2>1, <3>2, <3>3, ResolvePlain
  <2>3. CASE WatchesOn({i}) = {}
    <3>1. AddedWd(i) = Len(kwatch) + 1 /\ kwatch \in Seq(KWatch)
      BY <1>1, <2>3 DEF AddedWd, KInv, KTypeOK
    <3>2. AddedWd(i) \notin DOMAIN kwatch
      BY <3>1
    <3>3. QED
      BY <2>1, <3>2
  <2>4. QED
    BY <2>2, <2>3
<1>8. RootsTrue' /\ CacheApart' /\ NoDuplicateWd'
  <2>1. CacheApart'
    <3>1. \A k \in DOMAIN cache' : cache'[k].path \in Plain
      BY <1>1, <1>4, <1>5 DEF CacheApart
    <3>2. ASSUME NEW j \in 1 .. n + 1, NEW k \in 1 .. n + 1, j # k
          PROVE  cache'[j].path # cache'[k].path
      BY <1>1, <1>5, <1>6, <3>2 DEF CacheApart
    <3>3. QED
      BY <1>5, <3>1, <3>2 DEF CacheApart
  <2>2. NoDuplicateWd'
    <3>1. ASSUME NEW j \in 1 .. n + 1, NEW k \in 1 .. n + 1, j # k
          PROVE  cache'[j].wd # cache'[k].wd
      BY <1>5, <1>7, <3>1 DEF WalkInv, NoDuplicateWd
    <3>2. QED
      BY <1>5, <3>1 DEF NoDuplicateWd
  <2>3. QED
    BY <1>1, <2>1, <2>2 DEF WalkInv, RootsTrue
<1>9. PICK a \in Seq(Item) :
        /\ todo' = a \o Tail(todo)
        /\ a = <<>> \/ (a = <<[m EXCEPT !.dir = {i}]>>)
  <2>1. i \in Inode
    BY <1>1, <1>4 DEF KInv, KTypeOK
  <2>2. [m EXCEPT !.dir = {i}] \in Item
    BY <2>1 DEF Item
  <2> DEFINE x == [m EXCEPT !.dir = {i}]
  <2> HIDE DEF x
  <2>3. <<x>> \in Seq(Item) /\ <<>> \in Seq(Item)
    BY <2>2 DEF x
  <2>4. CASE Recursive
    BY <1>3, <2>3, <2>4 DEF x
  <2>5. CASE ~Recursive
    BY <1>3, <2>3, <2>5
  <2>6. QED
    BY <2>4, <2>5
<1>10. \A k \in DOMAIN a : a[k].path = m.path /\ a[k].dir = {i} /\ k = 1
  <2>1. [m EXCEPT !.dir = {i}].path = m.path /\ [m EXCEPT !.dir = {i}].dir = {i}
    <3>1. m \in [path : Path, level : Nat, dir : SUBSET Inode]
      BY DEF Item
    <3>2. QED
      BY <3>1
  <2> DEFINE x == [m EXCEPT !.dir = {i}]
  <2>2. x.path = m.path /\ x.dir = {i} /\ (a = <<>> \/ a = <<x>>)
    BY <1>9, <2>1
  <2> HIDE DEF x
  <2>3. QED
    BY <2>2
<1>11. /\ TodoApart'
       /\ \A k \in DOMAIN todo' :
             \/ \E l \in DOMAIN a : todo'[k] = a[l]
             \/ \E l \in DOMAIN todo : l # 1 /\ todo'[k] = todo[l]
  <2>1. \A k \in DOMAIN a : a[k].path \in Plain /\ AtOrBelow(todo[1].path, a[k].path)
    BY <1>2, <1>4, <1>10, BelowOrder
  <2>2. \A j, k \in DOMAIN a : j # k => Apart(a[j].path, a[k].path)
    BY <1>10
  <2>3. QED
    BY <1>1, <1>9, <2>1, <2>2, SplicedApart DEF Inv
<1>12. CacheBehind'
  <2>1. ASSUME NEW l \in DOMAIN cache'
        PROVE  \E j \in DOMAIN RootPaths : j <= rooti /\ AtOrBelow(RootPaths[j], cache'[l].path)
    <3>1. CASE l \in DOMAIN cache
      BY <1>1, <1>5, <3>1 DEF CacheBehind
    <3>2. CASE l = n + 1
      <4>1. rooti \in DOMAIN RootPaths /\ AtOrBelow(RootPaths[rooti], m.path) /\ rooti <= rooti
        BY <1>1, <1>2 DEF TodoApart, Inv, TypeOK
      <4>2. QED
        BY <1>5, <3>2, <4>1
    <3>3. QED
      BY <1>5, <3>1, <3>2
  <2>2. ASSUME NEW k \in DOMAIN todo', NEW l \in DOMAIN cache'
        PROVE  ~Ahead(todo'[k], cache'[l].path)
    <3>1. l \in DOMAIN cache \/ l = n + 1
      BY <1>5
    <3>2. CASE \E o \in DOMAIN a : todo'[k] = a[o]
      <4>1. todo'[k].path = m.path /\ todo'[k].dir = {i}
        BY <1>10, <3>2
      <4>2. l \in DOMAIN cache => ~Ahead(m, cache[l].path)
        BY <1>1, <1>2 DEF CacheBehind
      <4>3. QED
        BY <1>2, <1>5, <3>1, <4>1, <4>2 DEF Ahead
    <3>3. CASE \E o \in DOMAIN todo : o # 1 /\ todo'[k] = todo[o]
      <4>1. PICK o \in DOMAIN todo : o # 1 /\ todo'[k] = todo[o]
        BY <3>3
      <4>2. ~AtOrBelow(todo[o].path, m.path)
        BY <1>1, <1>2, <4>1 DEF TodoApart, Apart
      <4>3. l \in DOMAIN cache => ~Ahead(todo[o], cache[l].path)
        BY <1>1 DEF CacheBehind
      <4>4. QED
        BY <1>5, <3>1, <4>1, <4>2, <4>3 DEF Ahead
    <3>4. QED
      BY <1>11, <3>2, <3>3
  <2>3. QED
    BY <1>1, <2>1, <2>2 DEF CacheBehind
<1>13. QED
  BY <1>8, <1>11, <1>12 DEF WalkInv

\* traverse_tree passes over a directory, or nftw gives up on the root.
LEMMA WalkPassInv ==
  ASSUME Inv, WalkInv, WalkSkip \/ WalkAbort
  PROVE  WalkInv'
<1>1. /\ pc = "walk" /\ todo # <<>> /\ todo \in Seq(Item)
      /\ UNCHANGED <<pc, cache, rootpaths, rooti>> /\ TodoApart /\ CacheBehind
      /\ RootsTrue /\ CacheApart /\ NoDuplicateWd
  BY DEF WalkSkip, WalkAbort, Visiting, rootvars, WalkInv, Inv, TypeOK
<1>2. RootsTrue' /\ CacheApart' /\ NoDuplicateWd'
  BY <1>1 DEF RootsTrue, CacheApart, NoDuplicateWd
<1>3. CASE todo' = <<>>
  <2>1. TodoApart' /\ CacheBehind'
    BY <1>1, <1>3 DEF TodoApart, CacheBehind
  <2>2. QED
    BY <1>2, <2>1 DEF WalkInv
<1>4. CASE todo' = Tail(todo)
  <2>1. Len(todo) \in Nat /\ Len(todo) > 0 /\ DOMAIN todo = 1 .. Len(todo)
    BY <1>1, EmptySeq
  <2>2. DOMAIN todo' = 1 .. Len(todo) - 1 /\ \A k \in 1 .. Len(todo) - 1 : todo'[k] = todo[k + 1]
    BY <1>1, <1>4, <2>1
  <2>3. \A k \in DOMAIN todo' : k \in Nat /\ k + 1 \in DOMAIN todo /\ todo'[k] = todo[k + 1]
    BY <2>1, <2>2
  <2>4. \A j, k \in DOMAIN todo' : j # k => j + 1 # k + 1
    BY <2>3
  <2>5. TodoApart' /\ CacheBehind'
    BY <1>1, <2>3, <2>4 DEF TodoApart, CacheBehind
  <2>6. QED
    BY <1>2, <2>5 DEF WalkInv
<1>5. QED
  BY <1>3, <1>4 DEF WalkSkip, WalkAbort

\* nftw goes down: the names of a directory differ, and it is behind.
LEMMA WalkListInv ==
  ASSUME Inv, WalkInv, WalkList
  PROVE  WalkInv'
<1>1. /\ pc = "walk" /\ todo # <<>> /\ todo \in Seq(Item) /\ cache \in Seq(Entry)
      /\ UNCHANGED <<pc, cache, rootpaths, rooti>> /\ TodoApart /\ CacheBehind
      /\ RootsTrue /\ CacheApart /\ NoDuplicateWd
  BY DEF WalkList, rootvars, WalkInv, Inv, TypeOK
<1>2. RootsTrue' /\ CacheApart' /\ NoDuplicateWd'
  BY <1>1 DEF RootsTrue, CacheApart, NoDuplicateWd
<1>3. PICK m \in Item : m = todo[1] /\ m = Head(todo) /\ m.dir # {} /\ 1 \in DOMAIN todo
  BY <1>1 DEF WalkList
<1> DEFINE names == UNION {ChildNames(i) : i \in m.dir \cap DOMAIN tree}
<1>4. names \subseteq Name /\ IsFiniteSet(names)
  BY NameAssumption, FS_Subset DEF ChildNames
<1>5. PICK order \in SetToSeqs(names) :
        todo' = [k \in DOMAIN order |-> [path |-> FormatPath(m.path, order[k]),
                                         level |-> m.level + 1, dir |-> {}]] \o Tail(todo)
  BY <1>3 DEF WalkList
<1> HIDE DEF names
<1>6. /\ Cardinality(names) \in Nat /\ order \in [1 .. Cardinality(names) -> names]
      /\ \A j, k \in DOMAIN order : j # k => order[j] # order[k]
  BY <1>4, FS_CardinalityType DEF SetToSeqs
<1> DEFINE a == [k \in DOMAIN order |-> [path |-> FormatPath(m.path, order[k]),
                                         level |-> m.level + 1, dir |-> {}]]
<1>7. m.path \in Plain /\ m.level \in Nat
  BY <1>1, <1>3 DEF TodoApart, Item
<1>8. /\ DOMAIN a = DOMAIN order
      /\ \A k \in DOMAIN a : /\ a[k].path = Append(m.path, order[k]) /\ a[k].dir = {}
                             /\ order[k] \in Name /\ a[k] \in Item
  <2>1. DOMAIN a = DOMAIN order /\ \A k \in DOMAIN order : order[k] \in Name
    BY <1>4, <1>6
  <2>2. ASSUME NEW k \in DOMAIN order
        PROVE  a[k].path = Append(m.path, order[k]) /\ a[k].dir = {} /\ a[k] \in Item
    <3>1. a[k] = [path |-> Append(m.path, order[k]), level |-> m.level + 1, dir |-> {}]
      BY DEF FormatPath
    <3>2. Append(m.path, order[k]) \in Path
      BY <2>1 DEF Item, Path
    <3>3. PICK p \in Path : p = Append(m.path, order[k])
      BY <3>2
    <3>4. PICK l \in Nat : l = m.level + 1
      BY <1>7
    <3>5. a[k] = [path |-> p, level |-> l, dir |-> {}]
      BY <3>1, <3>3, <3>4
    <3>6. QED
      BY <3>3, <3>5 DEF Item
  <2>3. QED
    BY <2>1, <2>2
<1> HIDE DEF a
<1>9. a \in Seq(Item) /\ todo' = a \o Tail(todo)
  <2>1. a \in [1 .. Cardinality(names) -> Item]
    BY <1>6, <1>8 DEF a
  <2>2. a \in Seq(Item)
    BY <1>6, <2>1
  <2>3. QED
    BY <1>5, <2>2 DEF a
<1>10. ASSUME NEW k \in DOMAIN a
       PROVE  /\ a[k].path \in Plain /\ AtOrBelow(m.path, a[k].path)
              /\ \A q \in Plain : AtOrBelow(a[k].path, q) =>
                    AtOrBelow(m.path, q) /\ q # m.path /\ q[Len(m.path) + 1] = order[k]
  <2>1. a[k].path = Append(m.path, order[k]) /\ order[k] \in Name
    BY <1>8
  <2>2. QED
    BY <1>7, <2>1, ChildBelow
<1>11. \A j, k \in DOMAIN a : j # k => Apart(a[j].path, a[k].path)
  <2>1. ASSUME NEW j \in DOMAIN a, NEW k \in DOMAIN a, j # k PROVE ~AtOrBelow(a[j].path, a[k].path)
    <3>1. AtOrBelow(a[j].path, a[k].path) => a[k].path[Len(m.path) + 1] = order[j]
      BY <1>10
    <3>2. a[k].path[Len(m.path) + 1] = order[k]
      BY <1>10, BelowOrder
    <3>3. QED
      BY <1>6, <1>8, <2>1, <3>1, <3>2
  <2>2. QED
    BY <2>1 DEF Apart
<1>12. /\ TodoApart'
       /\ \A k \in DOMAIN todo' :
             \/ \E l \in DOMAIN a : todo'[k] = a[l]
             \/ \E l \in DOMAIN todo : l # 1 /\ todo'[k] = todo[l]
  BY <1>1, <1>3, <1>9, <1>10, <1>11, SplicedApart DEF Inv
<1>13. ASSUME NEW k \in DOMAIN todo', NEW l \in DOMAIN cache
       PROVE  ~Ahead(todo'[k], cache[l].path)
  <2>1. CASE \E o \in DOMAIN a : todo'[k] = a[o]
    <3>1. PICK o \in DOMAIN a : todo'[k] = a[o]
      BY <2>1
    <3>2. ~Ahead(m, cache[l].path) /\ cache[l].path \in Plain
      BY <1>1, <1>3 DEF CacheBehind, CacheApart
    <3>3. AtOrBelow(a[o].path, cache[l].path) => AtOrBelow(m.path, cache[l].path) /\ cache[l].path # m.path
      BY <1>10, <3>2
    <3>4. QED
      BY <3>1, <3>2, <3>3 DEF Ahead
  <2>2. CASE \E o \in DOMAIN todo : o # 1 /\ todo'[k] = todo[o]
    BY <1>1, <2>2 DEF CacheBehind
  <2>3. QED
    BY <1>12, <2>1, <2>2
<1>14. CacheBehind'
  BY <1>1, <1>13 DEF CacheBehind
<1>15. QED
  BY <1>2, <1>12, <1>14 DEF WalkInv

\* Every other step leaves the cache as it is, takes entries from it or empties it.
LEMMA ThreadWalkInv ==
  ASSUME RootsApart, "rename" \notin FsOps, Inv, ReportInv, WalkInv, Thread
  PROVE  WalkInv'
<1> USE DEF rootvars, regvars, walkvars, loopvars, bufvars, obsvars, fsvars, kvars
<1>k. ASSUME Processing PROVE Cur.kind \in PlainKind
  <2>1. Cur \in Pendings
    BY <1>k, TailElems DEF Cur, Pendings, Processing, Inv, TypeOK
  <2>2. QED
    BY <2>1 DEF ReportInv, EventsTrue
<1>m. ~MovedFromMatched /\ ~MovedFromUnknown /\ ~MovedFromOut /\ ~MovedFromHanging
      /\ ~MoveSelfFollow /\ ~MoveSelfCease /\ ~RemoveSubtree
  BY <1>k DEF MovedFromMatched, MovedFromUnknown, MovedFromOut, MovedFromHanging, ProcessingMovedFrom,
              MoveSelfFollow, MoveSelfCease, PlainKind, RemoveSubtree, RemoveEntry, RemoveFailed,
              RemoveDone, ReportInv, NeverRebuilt
<1>s. ASSUME UNCHANGED <<cache, rootpaths>>, pc' # "walk" PROVE WalkInv'
  BY <1>s DEF WalkInv, RootsTrue, CacheApart, NoDuplicateWd
<1>e. ASSUME cache' = <<>>, UNCHANGED rootpaths, pc' = "walk" => todo' = <<>> PROVE WalkInv'
  <2>1. RootsTrue' /\ CacheApart' /\ NoDuplicateWd'
    BY <1>e DEF WalkInv, RootsTrue, CacheApart, NoDuplicateWd
  <2>2. pc' = "walk" => TodoApart' /\ CacheBehind'
    BY <1>e DEF TodoApart, CacheBehind
  <2>3. QED
    BY <2>1, <2>2 DEF WalkInv
<1>1. CASE Walk
  BY <1>1, <1>s, WalkRootInv, WalkVisitInv, WalkPassInv, WalkListInv
     DEF Walk, WalkDone, WalkDoneNoEventfd
<1>2. CASE CheckEntry
  <2>1. CacheApart' /\ NoDuplicateWd'
    BY <1>2, CheckApart DEF WalkInv
  <2>2. rootpaths' = rootpaths /\ pc' = "check"
    BY <1>2 DEF CheckEntry
  <2>3. QED
    BY <2>1, <2>2 DEF WalkInv, RootsTrue
<1>3. CASE CheckDone \/ ReadEvents \/ ProcessUnwanted \/ ProcessOther
  BY <1>3, <1>s DEF CheckDone, ReadEvents, ProcessUnwanted, ProcessOther, Processing
<1>4. CASE ProcessOverflow
  BY <1>4, <1>s, <1>e DEF ProcessOverflow, Processing, Reinitialize, ClearWatch, StartWalk
<1>5. CASE ProcessCreate
  BY <1>5, <1>s, <1>e DEF ProcessCreate, Processing, ForgetPaths, StartWalk
<1>6. CASE ProcessDeleteSelf
  <2>1. pc' = "check" /\ cache' = cache
    BY <1>6 DEF ProcessDeleteSelf, StartCheck
  <2>2. RootsTrue'
    <3>1. CASE UNCHANGED rootpaths
      BY <3>1 DEF WalkInv, RootsTrue
    <3>2. CASE DropRoot(CurRoot)
      <4>1. rootpaths' = RemoveRootPath(rootpaths, CurRoot)
        BY <3>2 DEF DropRoot
      <4>2. QED
        BY <4>1 DEF WalkInv, RootsTrue, RemoveRootPath, ReplaceAt
    <3>3. QED
      BY <1>6, <3>1, <3>2 DEF ProcessDeleteSelf, CeaseIfRoot
  <2>3. QED
    BY <2>1, <2>2 DEF WalkInv, CacheApart, NoDuplicateWd
<1>7. QED
  BY <1>1, <1>2, <1>3, <1>4, <1>5, <1>6, <1>m DEF Thread, Check, Process

\* The invariant of the walk.
LEMMA WalkInvariant ==
  ASSUME RootsApart, "rename" \notin FsOps
  PROVE  Spec => [](Inv /\ ReportInv /\ WalkInv)
<1>1. Init => WalkInv
  <2>1. ASSUME Init PROVE WalkInv
    <3>1. cache = <<>> /\ todo = <<>> /\ rootpaths = RootPaths
      BY <2>1 DEF Init
    <3>2. QED
      BY <3>1 DEF WalkInv, RootsTrue, CacheApart, NoDuplicateWd, TodoApart, CacheBehind
  <2>2. QED
    BY <2>1
<1>2. ASSUME Inv, ReportInv, WalkInv, [Next]_vars PROVE WalkInv'
  <2>1. CASE Container \/ UNCHANGED vars
    <3>1. UNCHANGED <<pc, cache, rootpaths, rooti, todo>>
      BY <2>1 DEF Container, vars, tvars, rootvars, walkvars
    <3>2. QED
      BY <1>2, <3>1 DEF WalkInv, RootsTrue, CacheApart, NoDuplicateWd, TodoApart, CacheBehind
  <2>2. CASE Thread
    BY <1>2, <2>2, ThreadWalkInv
  <2>3. QED
    BY <1>2, <2>1, <2>2 DEF Next
<1>3. QED
  BY <1>1, <1>2, ReportInvariant, PTL DEF Spec

\* "adding a second cache for the grandchild would leave the cache in a confused
\* state": for every subject whose root paths are apart, and every container that
\* renames no directory, no descriptor is cached twice.  nftw comes to no path
\* twice, whatever is created and removed while it walks and in whatever order a
\* directory is read; and a descriptor that inotify_add_watch returns a second time
\* is of a directory whose path is not in the cache.
THEOREM NoDescriptorTwice ==
  ASSUME RootsApart, "rename" \notin FsOps
  PROVE  Spec => []NoDuplicateWd
<1>1. WalkInv => NoDuplicateWd
  BY DEF WalkInv
<1>2. QED
  BY <1>1, WalkInvariant, PTL

----------------------------------------------------------------------------
(* Every directory to watch is watched                                      *)

\* From its creation to its entry in the cache, a directory the subject asks for is
\* at every moment cached, ahead of the walk, or announced by a pending event, or its
\* event was lost.

TreePaths == {tree[i] : i \in DOMAIN tree}

\* The subject asks for the directory at q because of its root path k.
WantedBy(k, q) ==
    IF ~Recursive THEN q = RootPaths[k]
    ELSE /\ AtOrBelow(RootPaths[k], q)
         /\ MaxDepth = 0 \/ Len(q) - Len(RootPaths[k]) < MaxDepth
         /\ \A c \in Len(RootPaths[k]) .. Len(q) : q[c] \notin Ignores

Wanted(q) == \E k \in DOMAIN RootPaths : WantedBy(k, q)

Cached(q) == \E l \in DOMAIN cache : cache[l].path = q

\* The walk has still to come to q.
Coming(q) ==
    /\ pc = "walk"
    /\ \/ \E k \in DOMAIN todo : Ahead(todo[k], q)
       \/ \E j \in DOMAIN RootPaths : j > rooti /\ AtOrBelow(RootPaths[j], q)

Found(q) == Cached(q) \/ Coming(q)

\* A pending event will make the thread look at q.
Announced(q) ==
    \E e \in Pendings : e.kind = "CREATE" /\ e.wd # NoWd /\ Append(e.src, e.name) = q

\* The directories form a tree that has the roots.
TreeSound ==
    /\ \A i, j \in DOMAIN tree : tree[i] = tree[j] => i = j
    /\ \A i \in DOMAIN tree : \A c \in 1 .. Len(tree[i]) : SubSeq(tree[i], 1, c) \in TreePaths
    /\ \A k \in DOMAIN RootPaths : RootPaths[k] \in TreePaths

\* Every watch is live, the only one of its directory, and reports what is created.
WatchesSound ==
    /\ \A w \in DOMAIN kwatch : kwatch[w].live /\ "CREATE" \in kwatch[w].mask
    /\ \A w \in DOMAIN kwatch : "MODIFY" \in kwatch[w].mask => "MODIFY" \in EventMask
    /\ \A v, w \in DOMAIN kwatch : kwatch[v].ino = kwatch[w].ino => v = w

\* No pending event is one the thread discards.
PendingSound == \A e \in Pendings :
    e.wd # NoWd => e.kind \in {"CREATE", "MODIFY"} \cap EventMask

RootsSame == rootpaths = RootPaths /\ rootpathc = Len(RootPaths)

\* What nftw has to visit is there, and is below directories the subject asks for.
Reached(m) ==
    /\ m.path \in TreePaths
    /\ m.level = Len(m.path) - Len(RootPaths[rooti])
    /\ Recursive \/ m.path = RootPaths[rooti]
    /\ \A c \in Len(RootPaths[rooti]) .. Len(m.path) - 1 : m.path[c] \notin Ignores
    /\ m.dir # {} =>
          Recursive /\ Wanted(m.path) /\ \E i \in DOMAIN tree : m.dir = {i} /\ tree[i] = m.path

WalkSound == pc = "walk" => \A k \in DOMAIN todo : Reached(todo[k])

CacheSound == \A l \in DOMAIN cache : cache[l].path \in TreePaths /\ Wanted(cache[l].path)

\* What was ever watched is cached, or will be when the walk is over.
WatchedFound == \A w \in DOMAIN kwatch :
    Wanted(tree[kwatch[w].ino]) /\ Found(tree[kwatch[w].ino])

\* So are the roots ...
RootsFound == \A k \in DOMAIN RootPaths : Wanted(RootPaths[k]) => Found(RootPaths[k])

\* ... and what is in a cached directory, unless an event will see to it.
ChildrenFound == \A l \in DOMAIN cache, n \in Name :
    LET q == Append(cache[l].path, n) IN
    q \in TreePaths /\ Wanted(q) => Found(q) \/ Announced(q) \/ lost

CoverInv ==
    /\ TreeSound /\ WatchesSound /\ PendingSound /\ RootsSame
    /\ WalkSound /\ CacheSound
    /\ WatchedFound /\ RootsFound /\ ChildrenFound

----------------------------------------------------------------------------
(* What the subject asks for                                                *)

\* A directory is below the container's root.
LEMMA TreePathPlain ==
  ASSUME Inv, NEW q \in TreePaths
  PROVE  q \in Plain /\ Len(q) \in Nat /\ Len(q) >= 1
<1>1. PICK i \in DOMAIN tree : q = tree[i]
  BY DEF TreePaths
<1>2. q \in Seq(Name) /\ q # <<>>
  BY <1>1 DEF Inv, TypeOK, KTypeOK, DirPath
<1>3. Len(q) \in Nat /\ Len(q) # 0
  BY <1>2, EmptySeq
<1>4. QED
  BY <1>2, <1>3 DEF Plain

\* So is every root.
LEMMA RootPlain ==
  ASSUME Inv, TreeSound, NEW k \in DOMAIN RootPaths
  PROVE  RootPaths[k] \in Plain /\ Len(RootPaths[k]) \in Nat /\ Len(RootPaths[k]) >= 1
BY TreePathPlain DEF TreeSound

\* With a directory the tree has what is above it.
LEMMA TreeUp ==
  ASSUME Inv, TreeSound, NEW q \in TreePaths, NEW p \in Plain, p # <<>>, AtOrBelow(p, q)
  PROVE  p \in TreePaths
<1>1. q \in Plain /\ Len(q) \in Nat
  BY TreePathPlain
<1>2. PICK i \in DOMAIN tree : q = tree[i]
  BY DEF TreePaths
<1>3. Len(p) \in Nat /\ Len(p) # 0
  BY EmptySeq DEF Plain
<1>4. Len(p) \in 1 .. Len(q)
  BY <1>1, <1>3 DEF AtOrBelow
<1>5. SubSeq(q, 1, Len(p)) \in TreePaths
  BY <1>2, <1>4 DEF TreeSound
<1> DEFINE b == SubSeq(q, 1, Len(p))
<1>6. b \in Seq(Name) /\ Len(b) = Len(p) /\ \A c \in 1 .. Len(p) : b[c] = q[c]
  BY <1>1, <1>3, <1>4 DEF Plain
<1> HIDE DEF b
<1>7. b = p
  BY <1>3, <1>6, SeqEqual DEF AtOrBelow, Plain
<1>8. QED
  BY <1>5, <1>7 DEF b

\* With a directory the subject asks for what is above it.
LEMMA WantedUp ==
  ASSUME Inv, TreeSound, NEW k \in DOMAIN RootPaths, NEW p \in Plain, NEW q \in Plain,
         Recursive, WantedBy(k, q), AtOrBelow(RootPaths[k], p), AtOrBelow(p, q)
  PROVE  WantedBy(k, p)
<1> DEFINE root == RootPaths[k]
<1>1. Len(root) \in Nat /\ Len(root) >= 1 /\ Len(p) \in Nat /\ Len(q) \in Nat /\ MaxDepth \in Nat
  BY RootPlain, FlagAssumption DEF Plain
<1>2. Len(p) <= Len(q) /\ \A c \in 1 .. Len(p) : q[c] = p[c]
  BY DEF AtOrBelow
<1>3. /\ MaxDepth = 0 \/ Len(q) - Len(root) < MaxDepth
      /\ \A c \in Len(root) .. Len(q) : q[c] \notin Ignores
  BY DEF WantedBy
<1> HIDE DEF root
<1>4. \A c \in Len(root) .. Len(p) : c \in 1 .. Len(p) /\ c \in Len(root) .. Len(q)
  BY <1>1, <1>2
<1>5. \A c \in Len(root) .. Len(p) : p[c] \notin Ignores
  BY <1>2, <1>3, <1>4
<1>6. MaxDepth = 0 \/ Len(p) - Len(root) < MaxDepth
  BY <1>1, <1>2, <1>3
<1>7. QED
  BY <1>5, <1>6 DEF WantedBy, root

\* A directory belongs to one root.
LEMMA WantedByOne ==
  ASSUME RootsApart, Inv, TreeSound, NEW k \in DOMAIN RootPaths, NEW q \in Plain,
         Wanted(q), AtOrBelow(RootPaths[k], q)
  PROVE  WantedBy(k, q)
<1>1. PICK j \in DOMAIN RootPaths : WantedBy(j, q)
  BY DEF Wanted
<1>2. AtOrBelow(RootPaths[j], q)
  <2>1. CASE Recursive
    BY <1>1, <2>1 DEF WantedBy
  <2>2. CASE ~Recursive
    <3>1. q = RootPaths[j]
      BY <1>1, <2>2 DEF WantedBy
    <3>2. QED
      BY <3>1, BelowOrder
  <2>3. QED
    BY <2>1, <2>2
<1>3. QED
  BY <1>1, <1>2, RootsAreApart

\* An item of the walk of a root.
AtRoot(m) ==
    /\ m.path \in Plain
    /\ rooti \in DOMAIN RootPaths /\ AtOrBelow(RootPaths[rooti], m.path) /\ Reached(m)

\* What traverse_tree passes over is not asked for, nor is anything below it.
LEMMA SkippedUnwanted ==
  ASSUME RootsApart, Inv, TreeSound, NEW m \in Item, AtRoot(m),
         NEW q \in Plain, AtOrBelow(m.path, q), Wanted(q)
  PROVE  ~SkippedByRule(m)
<1> DEFINE root == RootPaths[rooti]
           n == Len(m.path)
<1>1. SUFFICES ASSUME Recursive, SkippedByRule(m) PROVE FALSE
  BY DEF SkippedByRule
<1>2. /\ rooti \in DOMAIN RootPaths /\ root \in Plain /\ Len(root) \in Nat /\ Len(root) >= 1
      /\ m.path \in Plain /\ n \in Nat /\ Len(q) \in Nat /\ MaxDepth \in Nat
  BY RootPlain, FlagAssumption DEF AtRoot, Plain
<1>3. AtOrBelow(root, q)
  BY <1>2, BelowOrder DEF AtRoot
<1>4. WantedBy(rooti, q)
  BY <1>2, <1>3, WantedByOne
<1>5. /\ MaxDepth = 0 \/ Len(q) - Len(root) < MaxDepth
      /\ \A c \in Len(root) .. Len(q) : q[c] \notin Ignores
  BY <1>1, <1>4 DEF WantedBy
<1>6. /\ Len(root) <= n /\ n <= Len(q) /\ \A c \in 1 .. n : q[c] = m.path[c]
      /\ m.level = n - Len(root)
  BY DEF AtRoot, AtOrBelow, Reached
<1>7. Last(m.path) = m.path[n]
  BY DEF Last
<1> HIDE DEF root, n
<1>8. n \in 1 .. n /\ n \in Len(root) .. Len(q)
  BY <1>2, <1>6
<1>9. Last(m.path) \notin Ignores
  BY <1>5, <1>6, <1>7, <1>8
<1>10. ~(MaxDepth # 0 /\ m.level + 1 > MaxDepth)
  BY <1>2, <1>5, <1>6
<1>11. QED
  BY <1>1, <1>9, <1>10 DEF SkippedByRule

\* What it does not pass over is.
LEMMA VisitedWanted ==
  ASSUME Inv, TreeSound, NEW m \in Item, AtRoot(m), ~SkippedByRule(m)
  PROVE  Wanted(m.path)
<1> DEFINE root == RootPaths[rooti]
           n == Len(m.path)
<1>1. CASE ~Recursive
  BY <1>1 DEF AtRoot, Reached, Wanted, WantedBy
<1>2. CASE Recursive
  <2>1. /\ rooti \in DOMAIN RootPaths /\ Len(root) \in Nat /\ Len(root) >= 1
        /\ n \in Nat /\ MaxDepth \in Nat
    BY RootPlain, FlagAssumption DEF AtRoot, Plain
  <2>2. /\ Len(root) <= n /\ m.level = n - Len(root)
        /\ \A c \in Len(root) .. n - 1 : m.path[c] \notin Ignores
    BY DEF AtRoot, AtOrBelow, Reached
  <2>3. m.path[n] \notin Ignores /\ ~(MaxDepth # 0 /\ m.level + 1 > MaxDepth)
    BY <1>2 DEF SkippedByRule, Last
  <2> HIDE DEF root, n
  <2>4. \A c \in Len(root) .. n : c \in Len(root) .. n - 1 \/ c = n
    BY <2>1
  <2>5. \A c \in Len(root) .. n : m.path[c] \notin Ignores
    BY <2>2, <2>3, <2>4
  <2>6. MaxDepth = 0 \/ n - Len(root) < MaxDepth
    BY <2>1, <2>2, <2>3
  <2>7. WantedBy(rooti, m.path)
    BY <1>2, <2>5, <2>6 DEF WantedBy, AtRoot, root, n
  <2>8. QED
    BY <2>1, <2>7 DEF Wanted
<1>3. QED
  BY <1>1, <1>2

----------------------------------------------------------------------------
(* The walk loses nothing                                                   *)

\* What was found stays found.
FoundStays == \A q \in TreePaths : Wanted(q) /\ Found(q) => Found(q)'

\* A step that changes neither directories, watches nor cache keeps the invariant,
\* when it loses nothing that was found and no announcement that is needed.
LEMMA ThreadKeeps ==
  ASSUME Inv, CoverInv, UNCHANGED <<tree, kwatch, cache, lost, rootpaths, rootpathc>>,
         WalkSound', FoundStays, Pendings' \subseteq Pendings,
         \A q \in TreePaths : Wanted(q) /\ Announced(q) => Announced(q)' \/ Found(q)' \/ lost
  PROVE  CoverInv'
<1>1. TreePaths' = TreePaths
  BY DEF TreePaths
<1>2. TreeSound' /\ WatchesSound' /\ PendingSound' /\ RootsSame' /\ CacheSound'
  BY <1>1 DEF CoverInv, TreeSound, WatchesSound, PendingSound, RootsSame, CacheSound
<1>3. WatchedFound'
  <2>1. ASSUME NEW w \in DOMAIN kwatch
        PROVE  Wanted(tree[kwatch[w].ino]) /\ Found(tree[kwatch[w].ino])'
    <3>1. Wanted(tree[kwatch[w].ino]) /\ Found(tree[kwatch[w].ino])
      BY DEF CoverInv, WatchedFound
    <3>2. kwatch[w].ino \in DOMAIN tree
      BY DEF CoverInv, WatchesSound, Inv, LiveDirsExist, LiveWatches
    <3>3. PICK q \in TreePaths : q = tree[kwatch[w].ino]
      BY <3>2 DEF TreePaths
    <3>4. Found(q)'
      BY <3>1, <3>3 DEF FoundStays
    <3>5. QED
      BY <3>1, <3>3, <3>4 DEF Found, Cached, Coming
  <2>2. QED
    BY <2>1 DEF WatchedFound
<1>4. RootsFound'
  BY DEF CoverInv, RootsFound, TreeSound, FoundStays
<1>5. ChildrenFound'
  <2>1. SUFFICES ASSUME NEW l \in DOMAIN cache, NEW n \in Name, NEW q \in TreePaths,
                        q = Append(cache[l].path, n), Wanted(q)
                 PROVE  Found(q)' \/ Announced(q)' \/ lost
    BY <1>1 DEF ChildrenFound
  <2>2. Found(q) \/ Announced(q) \/ lost
    BY <2>1 DEF CoverInv, ChildrenFound
  <2>3. QED
    BY <2>1, <2>2 DEF FoundStays
<1>6. QED
  BY <1>2, <1>3, <1>4, <1>5 DEF CoverInv

\* The elements of nftw's list when others have taken the place of the first.
LEMMA SplicedItems ==
  ASSUME TypeOK, todo # <<>>, NEW a \in Seq(Item), todo' = a \o Tail(todo)
  PROVE  /\ \A k \in DOMAIN todo' :
               \/ \E l \in DOMAIN a : todo'[k] = a[l]
               \/ \E l \in DOMAIN todo : todo'[k] = todo[l]
         /\ \A l \in DOMAIN a : \E k \in DOMAIN todo' : todo'[k] = a[l]
         /\ \A l \in DOMAIN todo : l # 1 => \E k \in DOMAIN todo' : todo'[k] = todo[l]
<1>1. PICK q \in Seq(Item) : q = todo
  BY DEF TypeOK
<1>2. PICK r : r = todo'
  OBVIOUS
<1>3. r = a \o Tail(q) /\ q # <<>>
  BY <1>1, <1>2
<1>4. \A k \in DOMAIN r :
        \/ k \in DOMAIN a /\ r[k] = a[k]
        \/ /\ k \notin DOMAIN a
           /\ k - Len(a) + 1 \in DOMAIN q \ {1} /\ r[k] = q[k - Len(a) + 1]
  BY <1>3, Spliced
<1>a. \A k \in DOMAIN a : k \in DOMAIN r /\ r[k] = a[k]
  BY <1>3, Spliced
<1>b. \A l \in DOMAIN q \ {1} : l + Len(a) - 1 \in DOMAIN r /\ r[l + Len(a) - 1] = q[l]
  BY <1>3, Spliced
<1>5. \A k \in DOMAIN r : (\E l \in DOMAIN a : r[k] = a[l]) \/ (\E l \in DOMAIN q : r[k] = q[l])
  BY <1>4
<1>6. \A l \in DOMAIN a : \E k \in DOMAIN r : r[k] = a[l]
  BY <1>a
<1>7. ASSUME NEW l \in DOMAIN q, l # 1 PROVE \E k \in DOMAIN r : r[k] = q[l]
  BY <1>b, <1>7
<1>8. QED
  BY <1>1, <1>2, <1>5, <1>6, <1>7

\* Then what was found stays found if that is so of what was ahead by way of the first.
LEMMA SplicedFound ==
  ASSUME Inv, WalkSound, pc = "walk", pc' = "walk", UNCHANGED <<tree, rooti>>,
         todo # <<>>, NEW a \in Seq(Item), todo' = a \o Tail(todo),
         \A q \in TreePaths : Cached(q) => Cached(q)',
         \A q \in TreePaths : Wanted(q) /\ Ahead(todo[1], q) =>
            Cached(q)' \/ \E l \in DOMAIN a : Ahead(a[l], q),
         \A l \in DOMAIN a : Reached(a[l])
  PROVE  FoundStays /\ WalkSound'
<1>1. /\ \A k \in DOMAIN todo' :
            \/ \E l \in DOMAIN a : todo'[k] = a[l]
            \/ \E l \in DOMAIN todo : todo'[k] = todo[l]
      /\ \A l \in DOMAIN a : \E k \in DOMAIN todo' : todo'[k] = a[l]
      /\ \A l \in DOMAIN todo : l # 1 => \E k \in DOMAIN todo' : todo'[k] = todo[l]
  BY SplicedItems DEF Inv
<1>2. ASSUME NEW q \in TreePaths, Wanted(q), Found(q) PROVE Found(q)'
  <2>1. CASE Cached(q)
    BY <2>1 DEF Found
  <2>2. CASE \E k \in DOMAIN todo : Ahead(todo[k], q)
    <3>1. PICK k \in DOMAIN todo : Ahead(todo[k], q)
      BY <2>2
    <3>2. CASE k = 1
      <4>1. CASE Cached(q)'
        BY <4>1 DEF Found
      <4>2. CASE \E l \in DOMAIN a : Ahead(a[l], q)
        <5>1. PICK l \in DOMAIN a : Ahead(a[l], q)
          BY <4>2
        <5>2. PICK o \in DOMAIN todo' : todo'[o] = a[l]
          BY <1>1
        <5>3. Ahead(todo'[o], q)
          BY <5>1, <5>2
        <5>4. QED
          BY <5>3 DEF Found, Coming, Ahead
      <4>3. QED
        BY <1>2, <3>1, <3>2, <4>1, <4>2
    <3>3. CASE k # 1
      <4>1. PICK o \in DOMAIN todo' : todo'[o] = todo[k]
        BY <1>1, <3>3
      <4>2. Ahead(todo'[o], q)
        BY <3>1, <4>1
      <4>3. QED
        BY <4>2 DEF Found, Coming, Ahead
    <3>4. QED
      BY <3>2, <3>3
  <2>3. CASE \E j \in DOMAIN RootPaths : j > rooti /\ AtOrBelow(RootPaths[j], q)
    BY <2>3 DEF Found, Coming
  <2>4. QED
    BY <1>2, <2>1, <2>2, <2>3 DEF Found, Coming
<1>3. TreePaths' = TreePaths
  BY DEF TreePaths
<1>4. ASSUME NEW k \in DOMAIN todo' PROVE Reached(todo'[k])
  BY <1>1 DEF WalkSound
<1>5. WalkSound'
  BY <1>3, <1>4 DEF WalkSound, Reached
<1>6. QED
  BY <1>2, <1>5 DEF FoundStays

\* What is known of the directory nftw is at.
LEMMA HeadItem ==
  ASSUME Inv, WalkInv, CoverInv, pc = "walk", todo # <<>>
  PROVE  /\ 1 \in DOMAIN todo /\ Head(todo) = todo[1] /\ todo[1] \in Item
         /\ AtRoot(todo[1]) /\ DirsAt(todo[1].path) # {}
<1>1. todo \in Seq(Item) /\ 1 \in DOMAIN todo /\ Head(todo) = todo[1] /\ todo[1] \in Item
  BY EmptySeq DEF Inv, TypeOK
<1>2. AtRoot(todo[1])
  BY <1>1 DEF AtRoot, WalkInv, TodoApart, CoverInv, WalkSound
<1>3. todo[1].path \in TreePaths /\ Resolve(todo[1].path) = todo[1].path
  BY <1>2, ResolvePlain DEF AtRoot, Reached
<1>4. QED
  BY <1>1, <1>2, <1>3 DEF TreePaths, DirsAt

\* The next root.
LEMMA WalkRootCover ==
  ASSUME RootsApart, Inv, CoverInv, WalkRoot
  PROVE  CoverInv'
<1>1. /\ pc = "walk" /\ todo = <<>> /\ rooti < rootpathc /\ rooti' = rooti + 1
      /\ UNCHANGED <<tree, kwatch, cache, lost, rootpaths, rootpathc, queue, buf>>
  BY DEF WalkRoot, fsvars, kvars, rootvars, bufvars
<1>2. /\ rooti \in Nat /\ rooti + 1 \in DOMAIN RootPaths
      /\ rootpaths[rooti + 1] = RootPaths[rooti + 1] /\ RootPaths[rooti + 1] # NULL
  <2>1. rooti \in Nat /\ rootpaths = RootPaths /\ rootpathc = Len(RootPaths)
        /\ RootPaths \in Seq(Path \ {NULL})
    BY RootAssumption DEF Inv, TypeOK, CoverInv, RootsSame
  <2>2. QED
    BY <1>1, <2>1
<1>r. PICK root : root = RootPaths[rooti + 1]
  OBVIOUS
<1>m. PICK m : m = [path |-> root, level |-> 0, dir |-> {}]
  OBVIOUS
<1>3. todo' = <<m>> /\ pc' = "walk"
  BY <1>1, <1>2, <1>r, <1>m DEF WalkRoot
<1>4. m.path = root /\ m.level = 0 /\ m.dir = {}
  BY <1>m
<1>5. DOMAIN todo' = {1} /\ todo'[1] = m
  BY <1>3
<1>6. root \in Plain /\ Len(root) \in Nat /\ root \in TreePaths
  BY <1>2, <1>r, RootPlain DEF CoverInv, TreeSound
<1>7. WalkSound'
  <2>1. TreePaths' = TreePaths
    BY <1>1 DEF TreePaths
  <2>2. \A c \in Len(root) .. Len(root) - 1 : FALSE
    BY <1>6
  <2>3. Len(root) - Len(root) = 0
    BY <1>6
  <2>4. Reached(m)'
    <3>1. RootPaths[rooti'] = root
      BY <1>1, <1>r
    <3>2. QED
      BY <1>4, <1>6, <2>1, <2>2, <2>3, <3>1 DEF Reached
  <2>5. QED
    BY <1>5, <2>4 DEF WalkSound, Reached
<1>8. FoundStays
  <2>1. SUFFICES ASSUME NEW q \in TreePaths, Found(q) PROVE Found(q)'
    BY DEF FoundStays
  <2>2. CASE Cached(q)
    BY <1>1, <2>2 DEF Found, Cached
  <2>3. CASE Coming(q)
    <3>1. PICK j \in DOMAIN RootPaths : j > rooti /\ AtOrBelow(RootPaths[j], q)
      BY <1>1, <2>3 DEF Coming
    <3>2. CASE j = rooti + 1
      <4>1. Ahead(m, q)
        BY <1>4, <1>r, <3>1, <3>2 DEF Ahead
      <4>2. QED
        BY <1>3, <1>5, <4>1 DEF Found, Coming, Ahead
    <3>3. CASE j # rooti + 1
      <4>1. j \in Nat
        BY RootAssumption
      <4>2. j > rooti + 1
        BY <1>2, <3>1, <3>3, <4>1
      <4>3. QED
        BY <1>1, <1>3, <3>1, <4>2 DEF Found, Coming
    <3>4. QED
      BY <3>2, <3>3
  <2>4. QED
    BY <2>1, <2>2, <2>3 DEF Found
<1>9. QED
  <2>1. Pendings' = Pendings
    BY <1>1 DEF Pendings
  <2>2. \A q : Announced(q) => Announced(q)'
    BY <2>1 DEF Announced
  <2>3. QED
    BY <1>1, <1>7, <1>8, <2>1, <2>2, ThreadKeeps

\* traverse_tree passes over a directory.
LEMMA WalkSkipCover ==
  ASSUME RootsApart, Inv, WalkInv, CoverInv, WalkSkip
  PROVE  CoverInv'
<1>1. /\ pc = "walk" /\ pc' = "walk" /\ todo # <<>> /\ todo' = Tail(todo) /\ todo \in Seq(Item)
      /\ UNCHANGED <<tree, kwatch, cache, lost, rootpaths, rootpathc, rooti, queue, buf>>
  BY DEF WalkSkip, Visiting, fsvars, kvars, rootvars, bufvars, Inv, TypeOK
<1>2. /\ todo[1] \in Item /\ Head(todo) = todo[1] /\ AtRoot(todo[1]) /\ DirsAt(todo[1].path) # {}
  BY <1>1, HeadItem
<1>3. SkippedByRule(todo[1])
  BY <1>2 DEF WalkSkip, Exists
<1>4. PICK a \in Seq(Item) : a = <<>> /\ todo' = a \o Tail(todo)
  <2>1. Tail(todo) \in Seq(Item) /\ <<>> \in Seq(Item)
    BY <1>1
  <2>2. <<>> \o Tail(todo) = Tail(todo)
    BY <2>1, ConcatEmptySeq
  <2>3. QED
    BY <1>1, <2>1, <2>2
<1>5. \A q \in TreePaths : ~(Wanted(q) /\ Ahead(todo[1], q))
  BY <1>2, <1>3, SkippedUnwanted, TreePathPlain DEF CoverInv, Ahead
<1>6. FoundStays /\ WalkSound'
  <2>1. \A q \in TreePaths : Cached(q) => Cached(q)'
    BY <1>1 DEF Cached
  <2>2. \A l \in DOMAIN a : Reached(a[l])
    BY <1>4
  <2>3. WalkSound
    BY DEF CoverInv
  <2>4. QED
    BY <1>1, <1>4, <1>5, <2>1, <2>2, <2>3, SplicedFound
<1>7. Pendings' = Pendings
  BY <1>1 DEF Pendings
<1>8. \A q : Announced(q) => Announced(q)'
  BY <1>7 DEF Announced
<1>9. QED
  BY <1>1, <1>6, <1>7, <1>8, ThreadKeeps

\* inotify_add_watch does not fail: every watch is of another directory.
LEMMA EnoughWatches ==
  ASSUME Growing, Inv, WatchesSound, NEW i \in DOMAIN tree
  PROVE  ~NoSpaceFor(i)
<1>1. SUFFICES ASSUME WatchesOn({i}) = {} PROVE ~(Cardinality(LiveWatches) >= MaxWatches)
  BY DEF NoSpaceFor
<1> DEFINE S == LiveWatches
           T == Inode \ {i}
           f == [w \in S |-> kwatch[w].ino]
<1>2. i \in Inode /\ kwatch \in Seq(KWatch) /\ MaxWatches \in Nat
  BY LimitAssumption DEF Inv, TypeOK, KTypeOK
<1>3. \A w \in S : w \in DOMAIN kwatch /\ kwatch[w].ino \in T
  <2>1. \A w \in DOMAIN kwatch : kwatch[w] \in KWatch
    BY <1>2
  <2>2. \A w \in DOMAIN kwatch : kwatch[w].ino \in Inode
    BY <2>1 DEF KWatch
  <2>3. QED
    BY <1>1, <2>2 DEF LiveWatches, WatchesOn
<1>4. \A v, w \in S : kwatch[v].ino = kwatch[w].ino => v = w
  BY <1>3 DEF WatchesSound
<1> HIDE DEF S, T
<1>5. f \in Injection(S, T)
  BY <1>3, <1>4 DEF Injection, IsInjective
<1>6. IsFiniteSet(Inode) /\ Cardinality(Inode) <= MaxWatches /\ Cardinality(Inode) \in Nat
  BY FS_CardinalityType DEF Growing
<1>7. IsFiniteSet(T) /\ Cardinality(T) = Cardinality(Inode) - 1
  BY <1>2, <1>6, FS_RemoveElement DEF T
<1> HIDE DEF f
<1>8. IsFiniteSet(S) /\ Cardinality(S) <= Cardinality(T)
  BY <1>5, <1>7, FS_Injection
<1>9. Cardinality(S) \in Nat
  BY <1>8, FS_CardinalityType
<1>10. QED
  BY <1>2, <1>6, <1>7, <1>8, <1>9 DEF S

\* So nftw gives up on no root.
LEMMA NoAbort ==
  ASSUME Growing, Inv, WalkInv, CoverInv
  PROVE  ~WalkAbort
<1>1. SUFFICES ASSUME WalkAbort PROVE FALSE
  OBVIOUS
<1>2. Head(todo) = todo[1] /\ DirsAt(todo[1].path) # {}
  BY <1>1, HeadItem DEF WalkAbort, Visiting
<1>3. PICK i \in DirsAt(todo[1].path) : NoSpaceFor(i)
  BY <1>1, <1>2 DEF WalkAbort, Exists
<1>4. i \in DOMAIN tree
  BY DEF DirsAt
<1>5. QED
  BY <1>3, <1>4, EnoughWatches DEF CoverInv

\* readdir returns every name.
LEMMA EveryNameListed ==
  ASSUME NEW S, IsFiniteSet(S), NEW order \in SetToSeqs(S)
  PROVE  \A n \in S : \E k \in DOMAIN order : order[k] = n
<1> DEFINE D == 1 .. Cardinality(S)
<1>1. Cardinality(S) \in Nat /\ IsFiniteSet(D) /\ Cardinality(D) = Cardinality(S)
  BY FS_CardinalityType, FS_Interval
<1>2. order \in [D -> S] /\ \A j, k \in D : j # k => order[j] # order[k]
  BY DEF SetToSeqs
<1> HIDE DEF D
<1>3. order \in Injection(D, S)
  BY <1>2 DEF Injection, IsInjective
<1>4. order \in Surjection(D, S)
  BY <1>1, <1>3, FS_Injection
<1>5. QED
  BY <1>2, <1>4 DEF Surjection

\* nftw reads a directory: what is below it is now at or below one of its names.
LEMMA WalkListCover ==
  ASSUME RootsApart, Inv, WalkInv, CoverInv, WalkList
  PROVE  CoverInv'
<1>1. /\ pc = "walk" /\ pc' = "walk" /\ todo # <<>> /\ todo \in Seq(Item)
      /\ UNCHANGED <<tree, kwatch, cache, lost, rootpaths, rootpathc, rooti, queue, buf>>
  BY DEF WalkList, fsvars, kvars, rootvars, bufvars, Inv, TypeOK
<1>2. PICK m \in Item : m = todo[1] /\ m = Head(todo) /\ m.dir # {} /\ AtRoot(m)
  BY <1>1, HeadItem DEF WalkList
<1>3. PICK i \in DOMAIN tree : m.dir = {i} /\ tree[i] = m.path /\ Recursive /\ Wanted(m.path)
  BY <1>2 DEF AtRoot, Reached
<1>n. PICK names : names = ChildNames(i)
  OBVIOUS
<1>4. names \subseteq Name /\ IsFiniteSet(names)
  BY <1>n, NameAssumption, FS_Subset DEF ChildNames
<1>5. PICK order \in SetToSeqs(names) :
        todo' = [k \in DOMAIN order |-> [path |-> FormatPath(m.path, order[k]),
                                         level |-> m.level + 1, dir |-> {}]] \o Tail(todo)
  <2>1. UNION {ChildNames(j) : j \in m.dir \cap DOMAIN tree} = names
    BY <1>3, <1>n
  <2>2. QED
    BY <1>2, <2>1 DEF WalkList
<1>6. /\ Cardinality(names) \in Nat /\ order \in [1 .. Cardinality(names) -> names]
  BY <1>4, FS_CardinalityType DEF SetToSeqs
<1>a. PICK a : a = [k \in DOMAIN order |-> [path |-> FormatPath(m.path, order[k]),
                                            level |-> m.level + 1, dir |-> {}]]
  OBVIOUS
<1> DEFINE root == RootPaths[rooti]
<1>7. /\ m.path \in Plain /\ m.level \in Nat /\ rooti \in DOMAIN RootPaths
      /\ Len(m.path) \in Nat /\ Len(root) \in Nat /\ Len(root) >= 1 /\ Len(root) <= Len(m.path)
      /\ m.level = Len(m.path) - Len(root)
  BY <1>2, RootPlain DEF AtRoot, Reached, AtOrBelow, Item, Plain, CoverInv
<1>8. ASSUME NEW k \in DOMAIN order
      PROVE  /\ a[k].path = Append(m.path, order[k]) /\ a[k].level = m.level + 1 /\ a[k].dir = {}
             /\ order[k] \in Name /\ a[k] \in Item
  <2>1. a[k] = [path |-> Append(m.path, order[k]), level |-> m.level + 1, dir |-> {}]
    BY <1>a DEF FormatPath
  <2>2. order[k] \in Name
    BY <1>4, <1>6
  <2>3. Append(m.path, order[k]) \in Path
    BY <2>2 DEF Item, Path
  <2>4. PICK p \in Path : p = Append(m.path, order[k])
    BY <2>3
  <2>5. PICK l \in Nat : l = m.level + 1
    <3>1. m.level \in Nat
      BY DEF Item
    <3>2. QED
      BY <3>1
  <2>6. a[k] = [path |-> p, level |-> l, dir |-> {}]
    BY <2>1, <2>4, <2>5
  <2>7. QED
    BY <2>2, <2>4, <2>5, <2>6 DEF Item
<1>9. a \in Seq(Item) /\ todo' = a \o Tail(todo) /\ DOMAIN a = DOMAIN order
  <2>1. DOMAIN a = DOMAIN order
    BY <1>a
  <2>2. a \in [1 .. Cardinality(names) -> Item]
    BY <1>6, <1>8, <1>a
  <2>3. a \in Seq(Item)
    BY <1>6, <2>2
  <2>4. QED
    BY <1>5, <1>a, <2>1, <2>3
<1>10. ASSUME NEW l \in DOMAIN a PROVE Reached(a[l])
  <2>1. PICK n \in Name, p \in Plain :
          /\ n = order[l] /\ p = Append(m.path, n) /\ Len(p) = Len(m.path) + 1
          /\ \A c \in 1 .. Len(m.path) : p[c] = m.path[c]
    <3>1. order[l] \in Name
      BY <1>8, <1>9
    <3>2. Append(m.path, order[l]) \in Plain
      BY <1>7, <3>1, ChildBelow
    <3>3. Len(Append(m.path, order[l])) = Len(m.path) + 1
      BY <1>7, <3>1, ChildBelow
    <3>4. \A c \in 1 .. Len(m.path) : Append(m.path, order[l])[c] = m.path[c]
      BY <1>7, <3>1 DEF Plain
    <3>5. QED
      BY <3>1, <3>2, <3>3, <3>4
  <2>2. a[l].path = p /\ a[l].level = m.level + 1 /\ a[l].dir = {}
    BY <1>8, <1>9, <2>1
  <2>3. p \in TreePaths
    <3>1. n \in ChildNames(i)
      BY <1>6, <1>9, <1>n, <2>1
    <3>2. QED
      BY <1>3, <2>1, <3>1 DEF ChildNames, TreePaths
  <2>4. WantedBy(rooti, m.path)
    BY <1>2, <1>3, <1>7, WantedByOne DEF AtRoot, CoverInv
  <2>5. \A c \in Len(root) .. Len(p) - 1 : p[c] \notin Ignores
    <3>1. \A c \in Len(root) .. Len(m.path) : m.path[c] \notin Ignores
      BY <1>3, <2>4 DEF WantedBy
    <3> HIDE DEF root
    <3>2. \A c \in Len(root) .. Len(p) - 1 : c \in 1 .. Len(m.path) /\ c \in Len(root) .. Len(m.path)
      BY <1>7, <2>1
    <3>3. QED
      BY <2>1, <3>1, <3>2
  <2>6. m.level + 1 = Len(p) - Len(root)
    <3> HIDE DEF root
    <3>1. QED
      BY <1>7, <2>1
  <2>7. QED
    BY <1>3, <2>2, <2>3, <2>5, <2>6 DEF Reached
<1>11. ASSUME NEW q \in TreePaths, Ahead(todo[1], q)
       PROVE  \E l \in DOMAIN a : Ahead(a[l], q)
  <2>1. AtOrBelow(m.path, q) /\ q # m.path /\ q \in Plain
    BY <1>2, <1>11, TreePathPlain DEF Ahead
  <2>2. PICK n \in Name : n = q[Len(m.path) + 1] /\ AtOrBelow(Append(m.path, n), q)
    BY <1>7, <2>1, BelowChild
  <2>3. Append(m.path, n) \in Plain /\ Append(m.path, n) # <<>>
    BY <1>7, ChildBelow, EmptySeq DEF Plain
  <2>4. Append(m.path, n) \in TreePaths
    BY <2>2, <2>3, TreeUp DEF CoverInv
  <2>5. n \in names
    BY <1>3, <1>n, <2>4 DEF ChildNames, TreePaths
  <2>6. PICK l \in DOMAIN order : order[l] = n
    BY <1>4, <2>5, EveryNameListed
  <2>7. a[l].path = Append(m.path, n) /\ a[l].dir = {} /\ l \in DOMAIN a
    BY <1>8, <1>9, <2>6
  <2>8. QED
    BY <2>2, <2>7 DEF Ahead
<1>12. FoundStays /\ WalkSound'
  <2>1. \A q \in TreePaths : Cached(q) => Cached(q)'
    BY <1>1 DEF Cached
  <2>2. WalkSound
    BY DEF CoverInv
  <2>3. QED
    BY <1>1, <1>9, <1>10, <1>11, <2>1, <2>2, SplicedFound
<1>13. Pendings' = Pendings
  BY <1>1 DEF Pendings
<1>14. \A q : Announced(q) => Announced(q)'
  BY <1>13 DEF Announced
<1>15. QED
  BY <1>1, <1>12, <1>13, <1>14, ThreadKeeps

\* inotify_add_watch: one watch per directory, with the mask it was given.
LEMMA AddWatchSound ==
  ASSUME Inv, WatchesSound, tree' = tree, NEW i \in DOMAIN tree, NEW mask \in SUBSET Kind,
         AddWatch(i, mask), "CREATE" \in mask, "MODIFY" \in mask => "MODIFY" \in EventMask
  PROVE  /\ WatchesSound'
         /\ \A w \in DOMAIN kwatch' :
               \/ w \in DOMAIN kwatch /\ kwatch'[w].ino = kwatch[w].ino
               \/ kwatch'[w].ino = i
<1>1. /\ DOMAIN kwatch \subseteq DOMAIN kwatch'
      /\ kwatch'[AddedWd(i)].live /\ kwatch'[AddedWd(i)].ino = i
      /\ \A w \in DOMAIN kwatch' : w \in DOMAIN kwatch =>
            kwatch'[w].live = kwatch[w].live /\ kwatch'[w].ino = kwatch[w].ino
      /\ \A w \in DOMAIN kwatch' : w \notin DOMAIN kwatch => w = AddedWd(i)
  BY AddWatchType DEF Inv, KInv, TypeOK
<1>2. /\ kwatch \in Seq(KWatch) /\ Len(kwatch) \in Nat /\ DOMAIN kwatch = 1 .. Len(kwatch)
      /\ \A w \in DOMAIN kwatch : kwatch[w] \in KWatch
  BY DEF Inv, TypeOK, KTypeOK
<1>3. ASSUME NEW w \in DOMAIN kwatch'
      PROVE  kwatch'[w].mask = mask \/ (w \in DOMAIN kwatch /\ kwatch'[w].mask = kwatch[w].mask)
  <2>1. CASE WatchesOn({i}) # {}
    <3>1. kwatch' = [kwatch EXCEPT ![AddedWd(i)].mask = mask]
      BY <2>1 DEF AddWatch
    <3>2. QED
      BY <1>2, <3>1 DEF KWatch
  <2>2. CASE WatchesOn({i}) = {}
    <3>1. PICK x : x = [ino |-> i, mask |-> mask, live |-> TRUE]
      OBVIOUS
    <3>2. kwatch' = Append(kwatch, x) /\ x.mask = mask
      BY <2>2, <3>1 DEF AddWatch
    <3>3. w \in 1 .. Len(kwatch) + 1
      BY <1>2, <3>2
    <3>4. CASE w = Len(kwatch) + 1
      BY <1>2, <3>2, <3>4
    <3>5. CASE w \in 1 .. Len(kwatch)
      BY <1>2, <3>2, <3>5
    <3>6. QED
      BY <1>2, <3>3, <3>4, <3>5
  <2>3. QED
    BY <2>1, <2>2
<1>4. ASSUME NEW w \in DOMAIN kwatch'
      PROVE  /\ kwatch'[w].live /\ "CREATE" \in kwatch'[w].mask
             /\ "MODIFY" \in kwatch'[w].mask => "MODIFY" \in EventMask
  <2>1. kwatch'[w].live
    BY <1>1 DEF WatchesSound
  <2>2. QED
    BY <1>3, <2>1 DEF WatchesSound
<1>5. ASSUME NEW v \in DOMAIN kwatch, NEW w \in DOMAIN kwatch', w \notin DOMAIN kwatch,
             kwatch'[v].ino = kwatch'[w].ino
      PROVE  FALSE
  <2>1. w = AddedWd(i) /\ kwatch[v].ino = i /\ kwatch[v].live
    BY <1>1, <1>5 DEF WatchesSound
  <2>2. WatchesOn({i}) # {}
    BY <2>1 DEF WatchesOn, LiveWatches
  <2>3. AddedWd(i) \in WatchesOn({i})
    BY <2>2 DEF AddedWd
  <2>4. QED
    BY <1>5, <2>1, <2>3 DEF WatchesOn, LiveWatches
<1>6. ASSUME NEW v \in DOMAIN kwatch', NEW w \in DOMAIN kwatch', kwatch'[v].ino = kwatch'[w].ino
      PROVE  v = w
  <2>1. CASE v \in DOMAIN kwatch /\ w \in DOMAIN kwatch
    BY <1>1, <1>6, <2>1 DEF WatchesSound
  <2>2. CASE v \notin DOMAIN kwatch /\ w \notin DOMAIN kwatch
    BY <1>1, <2>2
  <2>3. QED
    BY <1>5, <1>6, <2>1, <2>2
<1>7. \A w \in DOMAIN kwatch' :
          \/ w \in DOMAIN kwatch /\ kwatch'[w].ino = kwatch[w].ino
          \/ kwatch'[w].ino = i
  BY <1>1
<1>8. WatchesSound'
  BY <1>4, <1>6 DEF WatchesSound
<1>9. QED
  BY <1>7, <1>8

\* What was found stays found: then the new entry of the cache, and the new watch,
\* keep the invariant.
LEMMA GrownKeeps ==
  ASSUME Inv, CoverInv, UNCHANGED <<tree, lost, rootpaths, rootpathc>>, Pendings' = Pendings,
         WatchesSound', WalkSound', FoundStays,
         NEW p \in TreePaths, Wanted(p), Found(p)',
         \A w \in DOMAIN kwatch' :
            \/ w \in DOMAIN kwatch /\ kwatch'[w].ino = kwatch[w].ino
            \/ tree[kwatch'[w].ino] = p,
         \A l \in DOMAIN cache' :
            (l \in DOMAIN cache /\ cache'[l] = cache[l]) \/ cache'[l].path = p,
         \A n \in Name : Append(p, n) \in TreePaths /\ Wanted(Append(p, n)) => Found(Append(p, n))
  PROVE  CoverInv'
<1>1. TreePaths' = TreePaths
  BY DEF TreePaths
<1>2. TreeSound' /\ PendingSound' /\ RootsSame'
  BY <1>1 DEF CoverInv, TreeSound, PendingSound, RootsSame
<1>3. CacheSound'
  <2>1. ASSUME NEW l \in DOMAIN cache' PROVE cache'[l].path \in TreePaths /\ Wanted(cache'[l].path)
    BY DEF CoverInv, CacheSound
  <2>2. QED
    BY <1>1, <2>1 DEF CacheSound
<1>4. WatchedFound'
  <2>1. ASSUME NEW w \in DOMAIN kwatch'
        PROVE  Wanted(tree'[kwatch'[w].ino]) /\ Found(tree[kwatch[w].ino])'
    <3>1. CASE tree[kwatch'[w].ino] = p
      BY <3>1 DEF Found, Cached, Coming
    <3>2. CASE w \in DOMAIN kwatch /\ kwatch'[w].ino = kwatch[w].ino
      <4>1. Wanted(tree[kwatch[w].ino]) /\ Found(tree[kwatch[w].ino])
        BY <3>2 DEF CoverInv, WatchedFound
      <4>2. kwatch[w].ino \in DOMAIN tree
        BY <3>2 DEF CoverInv, WatchesSound, Inv, LiveDirsExist, LiveWatches
      <4>3. PICK q \in TreePaths : q = tree[kwatch[w].ino]
        BY <4>2 DEF TreePaths
      <4>4. Found(q)'
        BY <4>1, <4>3 DEF FoundStays
      <4>5. QED
        BY <3>2, <4>1, <4>3, <4>4 DEF Found, Cached, Coming
    <3>3. QED
      BY <3>1, <3>2
  <2>2. QED
    BY <2>1 DEF WatchedFound
<1>5. RootsFound'
  BY DEF CoverInv, RootsFound, TreeSound, FoundStays
<1>6. ChildrenFound'
  <2>1. SUFFICES ASSUME NEW l \in DOMAIN cache', NEW n \in Name, NEW q \in TreePaths,
                        q = Append(cache'[l].path, n), Wanted(q)
                 PROVE  Found(q)' \/ Announced(q)' \/ lost
    BY <1>1 DEF ChildrenFound
  <2>2. Found(q) \/ Announced(q) \/ lost
    <3>1. CASE l \in DOMAIN cache /\ cache'[l] = cache[l]
      BY <2>1, <3>1 DEF CoverInv, ChildrenFound
    <3>2. CASE cache'[l].path = p
      BY <2>1, <3>2
    <3>3. QED
      BY <3>1, <3>2
  <2>3. Announced(q) => Announced(q)'
    BY DEF Announced
  <2>4. QED
    BY <2>1, <2>2, <2>3 DEF FoundStays
<1>7. QED
  BY <1>2, <1>3, <1>4, <1>5, <1>6 DEF CoverInv

\* watch_path adds a watch: its directory is cached, and what is below it is listed.
LEMMA WalkVisitCover ==
  ASSUME RootsApart, Inv, WalkInv, CoverInv, "CREATE" \in EventMask, WalkVisit
  PROVE  CoverInv'
<1>1. /\ pc = "walk" /\ pc' = "walk" /\ todo # <<>> /\ todo \in Seq(Item) /\ cache \in Seq(Entry)
      /\ UNCHANGED <<tree, lost, rootpaths, rootpathc, rooti, queue, buf>>
  BY DEF WalkVisit, Visiting, fsvars, rootvars, bufvars, Inv, TypeOK
<1>2. PICK m \in Item : m = todo[1] /\ m = Head(todo) /\ m.dir = {} /\ AtRoot(m) /\ 1 \in DOMAIN todo
  BY <1>1, HeadItem DEF WalkVisit, Visiting
<1>3. PICK i \in DirsAt(m.path) :
        /\ ~SkippedByRule(m)
        /\ AddWatch(i, WatchMask(m.path)) /\ AppendEntry(AddedWd(i), m.path)
        /\ todo' = (IF Recursive THEN <<[m EXCEPT !.dir = {i}]>> ELSE <<>>) \o Tail(todo)
  BY <1>2 DEF WalkVisit
<1>4. m.path \in Plain /\ tree[i] = m.path /\ i \in DOMAIN tree /\ m.path \in TreePaths
  <2>1. m.path \in Plain
    BY <1>2 DEF AtRoot
  <2>2. QED
    BY <1>3, <2>1, ResolvePlain DEF DirsAt, TreePaths
<1>5. Wanted(m.path)
  BY <1>2, <1>3, VisitedWanted DEF CoverInv
<1>6. /\ \A l \in DOMAIN cache' : (l \in DOMAIN cache /\ cache'[l] = cache[l]) \/ cache'[l].path = m.path
      /\ \A l \in DOMAIN cache : l \in DOMAIN cache' /\ cache'[l] = cache[l]
      /\ Cached(m.path)'
  <2> DEFINE new == [wd |-> AddedWd(i), path |-> m.path]
             n == Len(cache)
  <2>1. /\ n \in Nat /\ DOMAIN cache = 1 .. n /\ DOMAIN cache' = 1 .. n + 1
        /\ cache'[n + 1] = new /\ \A l \in 1 .. n : cache'[l] = cache[l]
        /\ new.path = m.path
    BY <1>1, <1>3 DEF AppendEntry
  <2> HIDE DEF new, n
  <2>2. n + 1 \in DOMAIN cache' /\ cache'[n + 1].path = m.path
    BY <2>1
  <2>3. QED
    BY <2>1, <2>2 DEF Cached
<1>7. /\ WatchesSound'
      /\ \A w \in DOMAIN kwatch' :
            \/ w \in DOMAIN kwatch /\ kwatch'[w].ino = kwatch[w].ino
            \/ tree[kwatch'[w].ino] = m.path
  <2> DEFINE mask == WatchMask(m.path)
  <2>1. /\ mask \in SUBSET Kind /\ "CREATE" \in mask
        /\ "MODIFY" \in mask => "MODIFY" \in EventMask
    BY MaskAssumption DEF WatchMask, TreeMask, Kind
  <2>2. AddWatch(i, mask) /\ tree' = tree /\ WatchesSound
    BY <1>1, <1>3 DEF CoverInv
  <2> HIDE DEF mask
  <2>3. QED
    BY <1>4, <2>1, <2>2, AddWatchSound
<1>8. PICK x : x = [m EXCEPT !.dir = {i}]
  OBVIOUS
<1>9. x \in Item /\ x.path = m.path /\ x.level = m.level /\ x.dir = {i}
  <2>1. i \in Inode /\ m \in [path : Path, level : Nat, dir : SUBSET Inode]
    BY <1>4 DEF Inv, TypeOK, KTypeOK, Item
  <2>2. QED
    BY <1>8, <2>1 DEF Item
<1>10. PICK a \in Seq(Item) :
         /\ todo' = a \o Tail(todo)
         /\ IF Recursive THEN a = <<x>> ELSE a = <<>>
  <2>1. <<x>> \in Seq(Item) /\ <<>> \in Seq(Item)
    BY <1>9
  <2>2. QED
    BY <1>3, <1>8, <2>1
<1>11. \A l \in DOMAIN a : Recursive /\ a[l] = x
  BY <1>10
<1>12. FoundStays /\ WalkSound'
  <2>1. \A q \in TreePaths : Cached(q) => Cached(q)'
    BY <1>6 DEF Cached
  <2>2. ASSUME NEW q \in TreePaths, Wanted(q), Ahead(todo[1], q)
        PROVE  Cached(q)' \/ \E l \in DOMAIN a : Ahead(a[l], q)
    <3>1. AtOrBelow(m.path, q) /\ q \in Plain
      BY <1>2, <2>2, TreePathPlain DEF Ahead
    <3>2. CASE q = m.path
      BY <1>6, <3>2
    <3>3. CASE q # m.path /\ Recursive
      <4>1. 1 \in DOMAIN a /\ a[1] = x
        BY <1>10, <3>3
      <4>2. Ahead(x, q)
        BY <1>9, <3>1, <3>3 DEF Ahead
      <4>3. QED
        BY <4>1, <4>2
    <3>4. CASE ~Recursive
      <4>1. m.path = RootPaths[rooti] /\ rooti \in DOMAIN RootPaths
        BY <1>2, <3>4 DEF AtRoot, Reached
      <4>2. WantedBy(rooti, q)
        BY <2>2, <3>1, <4>1, WantedByOne DEF CoverInv
      <4>3. QED
        BY <3>2, <3>4, <4>1, <4>2 DEF WantedBy
    <3>5. QED
      BY <3>2, <3>3, <3>4
  <2>3. ASSUME NEW l \in DOMAIN a PROVE Reached(a[l])
    <3>1. Recursive /\ a[l] = x /\ Reached(m)
      BY <1>2, <1>11 DEF AtRoot
    <3>2. QED
      BY <1>4, <1>5, <1>9, <3>1 DEF Reached
  <2>4. WalkSound
    BY DEF CoverInv
  <2>5. QED
    BY <1>1, <1>10, <2>1, <2>2, <2>3, <2>4, SplicedFound
<1>13. ASSUME NEW n \in Name, Append(m.path, n) \in TreePaths
       PROVE  Found(Append(m.path, n))
  <2>1. AtOrBelow(m.path, Append(m.path, n))
    BY <1>4, ChildBelow
  <2>2. Ahead(todo[1], Append(m.path, n))
    BY <1>2, <2>1 DEF Ahead
  <2>3. QED
    BY <1>1, <1>2, <2>2 DEF Found, Coming
<1>14. Pendings' = Pendings
  BY <1>1 DEF Pendings
<1>15. Found(m.path)'
  BY <1>6 DEF Found
<1>16. PICK p \in TreePaths : p = m.path
  BY <1>4
<1>17. /\ Wanted(p) /\ Found(p)'
       /\ \A w \in DOMAIN kwatch' :
            \/ w \in DOMAIN kwatch /\ kwatch'[w].ino = kwatch[w].ino
            \/ tree[kwatch'[w].ino] = p
       /\ \A l \in DOMAIN cache' : (l \in DOMAIN cache /\ cache'[l] = cache[l]) \/ cache'[l].path = p
       /\ \A n \in Name : Append(p, n) \in TreePaths /\ Wanted(Append(p, n)) => Found(Append(p, n))
  BY <1>5, <1>6, <1>7, <1>13, <1>15, <1>16
<1>18. QED
  BY <1>1, <1>7, <1>12, <1>14, <1>17, GrownKeeps

----------------------------------------------------------------------------
(* The event loop loses nothing                                             *)

\* A descriptor whose directory is cached is cached with it.
LEMMA WatchCached ==
  ASSUME Inv, ReportInv, WalkInv, CoverInv, NEW w \in DOMAIN kwatch, Cached(tree[kwatch[w].ino])
  PROVE  \E l \in DOMAIN cache : cache[l].wd = w /\ cache[l].path = tree[kwatch[w].ino]
<1>1. PICK l \in DOMAIN cache : cache[l].path = tree[kwatch[w].ino]
  BY DEF Cached
<1>2. PICK v : v = cache[l].wd
  OBVIOUS
<1>3. v \in DOMAIN kwatch /\ (kwatch[v].live => Resolve(cache[l].path) = tree[kwatch[v].ino])
  BY <1>2 DEF ReportInv, CacheTrue, Elems
<1>4. \A u \in DOMAIN kwatch : kwatch[u].live /\ kwatch[u].ino \in DOMAIN tree
  BY DEF CoverInv, WatchesSound, Inv, LiveDirsExist, LiveWatches
<1>5. Resolve(cache[l].path) = cache[l].path
  BY ResolvePlain DEF WalkInv, CacheApart
<1>6. kwatch[v].ino = kwatch[w].ino
  BY <1>1, <1>3, <1>4, <1>5 DEF CoverInv, TreeSound
<1>7. v = w
  BY <1>3, <1>6 DEF CoverInv, WatchesSound
<1>8. QED
  BY <1>1, <1>2, <1>7

\* Between two walks every pending event is of a cached descriptor, and its directory
\* is where the cache says.
LEMMA PendingKnown ==
  ASSUME Inv, ReportInv, WalkInv, CoverInv, pc # "walk", NEW e \in Pendings, e.wd # NoWd
  PROVE  FindWatch(cache, e.wd) > 0 /\ WdToPathName(cache, e.wd) = e.src
<1>1. e.wd \in DOMAIN kwatch /\ kwatch[e.wd].live /\ e.src = tree[kwatch[e.wd].ino]
  BY DEF ReportInv, EventsTrue, CoverInv, WatchesSound
<1>2. Cached(tree[kwatch[e.wd].ino])
  BY <1>1 DEF CoverInv, WatchedFound, Found, Coming
<1>3. PICK l \in DOMAIN cache : cache[l].wd = e.wd /\ cache[l].path = e.src
  BY <1>1, <1>2, WatchCached
<1>4. cache \in Seq(Entry) /\ l \in 1 .. Len(cache)
  BY DEF Inv, TypeOK
<1>5. /\ FindWatch(cache, e.wd) \in 0 .. Len(cache) /\ FindWatch(cache, e.wd) > 0
      /\ cache[FindWatch(cache, e.wd)].wd = e.wd
  BY <1>3, <1>4, FindWatchFound
<1>6. FindWatch(cache, e.wd) \in DOMAIN cache
  BY <1>4, <1>5
<1>7. FindWatch(cache, e.wd) = l
  BY <1>3, <1>5, <1>6 DEF WalkInv, NoDuplicateWd
<1>8. QED
  BY <1>3, <1>5, <1>7 DEF WdToPathName

\* path_name_to_cache_slot finds a cached path only.
LEMMA PathFound ==
  ASSUME NEW c \in Seq(Entry), NEW p, PathNameToCacheSlot(c, p) # 0
  PROVE  \E l \in DOMAIN c : c[l].path = p
<1> DEFINE I == {i \in 1 .. Len(c) : c[i].path = p}
<1>1. PathNameToCacheSlot(c, p) = IF I # {} THEN Min(I) ELSE 0
  BY DEF PathNameToCacheSlot, SelectInSeq
<1>2. PICK i \in I : TRUE
  BY <1>1
<1>3. QED
  BY <1>2

\* A buffer without its first event.
LEMMA ConsumedElems ==
  ASSUME NEW q \in Seq(Event), q # <<>>
  PROVE  Elems(q) \subseteq Elems(Tail(q)) \cup {Head(q)}
<1>1. ASSUME NEW k \in DOMAIN q, k # 1 PROVE q[k] \in Elems(Tail(q))
  <2>1. Len(q) \in Nat /\ Tail(q) \in Seq(Event) /\ Len(Tail(q)) = Len(q) - 1 /\ k \in 1 .. Len(q)
    BY EmptySeq
  <2>2. k - 1 \in 1 .. Len(Tail(q)) /\ Tail(q)[k - 1] = q[k]
    BY <1>1, <2>1
  <2>3. QED
    BY <2>1, <2>2 DEF Elems
<1>2. q[1] = Head(q)
  OBVIOUS
<1>3. QED
  BY <1>1, <1>2 DEF Elems

\* read takes events from the queue in order, and drops none.
LEMMA ReadPendings ==
  ASSUME Inv, ReadEvents
  PROVE  Pendings' = Pendings
<1>1. buf = <<>> /\ queue \in Seq(Event) /\ Len(queue) \in Nat
  BY DEF ReadEvents, Inv, TypeOK, KTypeOK
<1>2. PICK n \in Nat : /\ n >= 1 /\ n <= Len(queue) /\ buf' = SubSeq(queue, 1, n)
                       /\ queue' = SubSeq(queue, n + 1, Len(queue))
  BY FlagAssumption DEF ReadEvents
<1>3. Pendings' \subseteq Pendings
  <2>1. Elems(buf') \subseteq Elems(queue)
    BY <1>1, <1>2, SubSeqElems
  <2>2. Elems(queue') \subseteq Elems(queue)
    <3>1. n + 1 \in Nat \ {0} /\ Len(queue) <= Len(queue)
      BY <1>1, <1>2
    <3>2. QED
      BY <1>1, <1>2, <3>1, SubSeqElems
  <2>3. QED
    BY <2>1, <2>2 DEF Pendings, Elems
<1>4. ASSUME NEW k \in DOMAIN queue PROVE queue[k] \in Elems(buf') \cup Elems(queue')
  <2>1. k \in 1 .. Len(queue)
    BY <1>1
  <2>2. CASE k <= n
    <3>1. k \in DOMAIN buf' /\ buf'[k] = queue[k]
      BY <1>1, <1>2, <2>1, <2>2
    <3>2. QED
      BY <3>1 DEF Elems
  <2>3. CASE ~(k <= n)
    <3>1. k - n \in DOMAIN queue' /\ queue'[k - n] = queue[k]
      BY <1>1, <1>2, <2>1, <2>3
    <3>2. QED
      BY <3>1 DEF Elems
  <2>4. QED
    BY <2>2, <2>3
<1>5. Elems(buf) = {}
  BY <1>1 DEF Elems
<1>6. Pendings \subseteq Pendings'
  BY <1>4, <1>5 DEF Pendings, Elems
<1>7. QED
  BY <1>3, <1>6

\* A step outside the walk that leaves the cache as it is and consumes no announcement.
LEMMA LoopKeeps ==
  ASSUME Inv, CoverInv, UNCHANGED <<tree, kwatch, cache, lost, rootpaths, rootpathc>>,
         pc # "walk", pc' # "walk", Pendings' \subseteq Pendings,
         \A q \in TreePaths : Wanted(q) /\ Announced(q) => Announced(q)' \/ Cached(q) \/ lost
  PROVE  CoverInv'
<1>1. \A q : Found(q) => Cached(q)
  BY DEF Found, Coming
<1>2. \A q : Cached(q) => Found(q)'
  BY DEF Found, Cached
<1>3. FoundStays
  BY <1>1, <1>2 DEF FoundStays
<1>4. WalkSound'
  BY DEF WalkSound
<1>5. \A q \in TreePaths : Wanted(q) /\ Announced(q) => Announced(q)' \/ Found(q)' \/ lost
  BY <1>2
<1>6. QED
  BY <1>3, <1>4, <1>5, ThreadKeeps

\* watch_subtree returns: nothing was left to come.
LEMMA WalkEndCover ==
  ASSUME Inv, CoverInv, WalkDone \/ WalkDoneNoEventfd
  PROVE  CoverInv'
<1>1. /\ todo = <<>> /\ rooti >= rootpathc /\ pc' # "walk"
      /\ UNCHANGED <<tree, kwatch, cache, lost, rootpaths, rootpathc, queue, buf>>
  BY DEF WalkDone, WalkDoneNoEventfd, fsvars, kvars, rootvars, bufvars
<1>2. \A q : ~Coming(q)
  <2>1. rooti \in Nat /\ rootpathc = Len(RootPaths) /\ RootPaths \in Seq(Path \ {NULL})
    BY RootAssumption DEF Inv, TypeOK, CoverInv, RootsSame
  <2>2. \A j \in DOMAIN RootPaths : ~(j > rooti)
    BY <1>1, <2>1
  <2>3. QED
    BY <1>1, <2>2 DEF Coming
<1>3. FoundStays
  BY <1>1, <1>2 DEF FoundStays, Found, Cached
<1>4. WalkSound'
  BY <1>1 DEF WalkSound
<1>5. Pendings' = Pendings
  BY <1>1 DEF Pendings
<1>6. \A q : Announced(q) => Announced(q)'
  BY <1>5 DEF Announced
<1>7. QED
  BY <1>1, <1>3, <1>4, <1>5, <1>6, ThreadKeeps

\* check_cache_consistency finds every cached directory.
LEMMA CheckCover ==
  ASSUME Inv, WalkInv, CoverInv, Check
  PROVE  CoverInv'
<1>1. /\ pc = "check" /\ pc' # "walk"
      /\ UNCHANGED <<tree, kwatch, lost, rootpaths, rootpathc, queue, buf>>
  BY DEF Check, CheckEntry, CheckDone, fsvars, kvars, rootvars, bufvars
<1>2. cache' = cache
  <2>1. CASE CheckEntry
    <3>1. idx \in DOMAIN cache
      BY <2>1 DEF CheckEntry, Inv, TypeOK
    <3>2. cache[idx].path \in TreePaths /\ Resolve(cache[idx].path) = cache[idx].path
      BY <3>1, ResolvePlain DEF CoverInv, CacheSound, WalkInv, CacheApart
    <3>3. Exists(cache[idx].path)
      BY <3>2 DEF Exists, DirsAt, TreePaths
    <3>4. QED
      BY <2>1, <3>3 DEF CheckEntry
  <2>2. CASE CheckDone
    BY <2>2 DEF CheckDone
  <2>3. QED
    BY <2>1, <2>2 DEF Check
<1>3. Pendings' = Pendings
  BY <1>1 DEF Pendings
<1>4. \A q : Announced(q) => Announced(q)'
  BY <1>3 DEF Announced
<1>5. QED
  BY <1>1, <1>2, <1>3, <1>4, LoopKeeps

\* The first read of process_inotify_events
LEMMA ReadCover ==
  ASSUME Inv, CoverInv, ReadEvents
  PROVE  CoverInv'
<1>1. /\ pc = "loop" /\ pc' = "loop"
      /\ UNCHANGED <<tree, kwatch, cache, lost, rootpaths, rootpathc>>
  BY DEF ReadEvents, fsvars, rootvars
<1>2. Pendings' = Pendings
  BY ReadPendings
<1>3. \A q : Announced(q) => Announced(q)'
  BY <1>2 DEF Announced
<1>4. QED
  BY <1>1, <1>2, <1>3, LoopKeeps

\* What the thread is about to process, and what it leaves pending.
LEMMA CurPending ==
  ASSUME Inv, ReportInv, WalkInv, CoverInv, Processing
  PROVE  /\ Cur \in Pendings
         /\ Cur.wd # NoWd => Accepted /\ CurPath = Cur.src /\ Cur.kind \in {"CREATE", "MODIFY"}
         /\ Consume /\ queue' = queue =>
               /\ Pendings' \subseteq Pendings
               /\ \A q : Announced(q) => \/ Announced(q)'
                                         \/ /\ Cur.kind = "CREATE" /\ Cur.wd # NoWd
                                            /\ Append(Cur.src, Cur.name) = q
<1>1. buf \in Seq(Event) /\ buf # <<>> /\ pc # "walk"
  BY DEF Processing, Inv, TypeOK
<1>2. Cur \in Pendings
  BY <1>1, TailElems DEF Cur, Pendings
<1>3. ASSUME Cur.wd # NoWd
      PROVE  Accepted /\ CurPath = Cur.src /\ Cur.kind \in {"CREATE", "MODIFY"}
  <2>1. FindWatch(cache, Cur.wd) > 0 /\ WdToPathName(cache, Cur.wd) = Cur.src
    BY <1>1, <1>2, <1>3, PendingKnown
  <2>2. Cur.kind \in {"CREATE", "MODIFY"} \cap EventMask
    BY <1>2, <1>3 DEF CoverInv, PendingSound
  <2>3. QED
    BY <1>3, <2>1, <2>2 DEF Accepted, CurPath
<1>4. ASSUME Consume, queue' = queue
      PROVE  Pendings' \subseteq Pendings /\ Pendings \subseteq Pendings' \cup {Cur}
  <2>1. buf' = Tail(buf)
    BY <1>4 DEF Consume
  <2>2. Elems(Tail(buf)) \subseteq Elems(buf) /\ Elems(buf) \subseteq Elems(Tail(buf)) \cup {Cur}
    BY <1>1, TailElems, ConsumedElems DEF Cur
  <2>3. Pendings' = Elems(Tail(buf)) \cup Elems(queue)
    BY <1>4, <2>1 DEF Pendings
  <2>4. QED
    BY <2>2, <2>3 DEF Pendings
<1>5. ASSUME Consume, queue' = queue, NEW q, Announced(q)
      PROVE  \/ Announced(q)'
             \/ Cur.kind = "CREATE" /\ Cur.wd # NoWd /\ Append(Cur.src, Cur.name) = q
  <2>1. PICK e \in Pendings : e.kind = "CREATE" /\ e.wd # NoWd /\ Append(e.src, e.name) = q
    BY <1>5 DEF Announced
  <2>2. e \in Pendings' \/ e = Cur
    BY <1>4, <1>5
  <2>3. QED
    BY <2>1, <2>2 DEF Announced
<1>6. QED
  BY <1>2, <1>3, <1>4, <1>5

\* Only IN_CREATE and IN_MODIFY are processed, and the overflow event.
LEMMA ProcessGrowing ==
  ASSUME Inv, ReportInv, WalkInv, CoverInv, Process
  PROVE  ProcessOverflow \/ ProcessCreate \/ ProcessOther
<1>1. Processing
  BY DEF Process, ProcessUnwanted, ProcessOverflow, ProcessCreate, ProcessDeleteSelf,
         MovedFromMatched, MovedFromUnknown, MovedFromOut, MovedFromHanging, ProcessingMovedFrom,
         MoveSelfFollow, MoveSelfCease, ProcessOther
<1>2. Cur.wd # NoWd => Accepted /\ Cur.kind \in {"CREATE", "MODIFY"}
  BY <1>1, CurPending
<1>3. Accepted => Cur.wd # NoWd
  BY DEF Accepted
<1>4. QED
  BY <1>2, <1>3 DEF Process, ProcessUnwanted, ProcessDeleteSelf, MovedFromMatched,
         MovedFromUnknown, MovedFromOut, MovedFromHanging, ProcessingMovedFrom,
         MoveSelfFollow, MoveSelfCease

\* An event that announces nothing.
LEMMA ProcessPlainCover ==
  ASSUME Inv, ReportInv, WalkInv, CoverInv, ProcessOverflow \/ ProcessOther
  PROVE  CoverInv'
<1>1. Processing /\ pc = "loop"
  BY DEF ProcessOverflow, ProcessOther, Processing
<1>2. ~(Cur.kind = "CREATE" /\ Cur.wd # NoWd)
  BY DEF ProcessOverflow, ProcessOther
<1>3. ASSUME Cur.wd = NoWd PROVE ~(FindWatch(cache, Cur.wd) > 0)
  <2>1. SUFFICES ASSUME FindWatch(cache, NoWd) > 0 PROVE FALSE
    BY <1>3
  <2>2. cache \in Seq(Entry) /\ kwatch \in Seq(KWatch)
    BY DEF Inv, TypeOK, KTypeOK
  <2>3. FindWatch(cache, NoWd) \in DOMAIN cache /\ cache[FindWatch(cache, NoWd)].wd = NoWd
    BY <2>1, <2>2, FindWatchFound
  <2>4. NoWd \in DOMAIN kwatch
    BY <2>3 DEF ReportInv, CacheTrue, Elems
  <2>5. QED
    BY <2>2, <2>4 DEF NoWd
<1>4. /\ pc' = pc /\ Consume
      /\ UNCHANGED <<tree, kwatch, cache, lost, rootpaths, rootpathc, queue>>
  BY <1>3 DEF ProcessOverflow, ProcessOther, fsvars, kvars, rootvars
<1>5. Pendings' \subseteq Pendings /\ \A q : Announced(q) => Announced(q)'
  BY <1>1, <1>2, <1>4, CurPending
<1>6. QED
  BY <1>1, <1>4, <1>5, LoopKeeps

\* A new walk comes to everything the subject asks for.
LEMMA WalkAgain ==
  ASSUME RootsApart, Inv, CoverInv, UNCHANGED <<tree, kwatch, lost, rootpaths, rootpathc>>,
         Pendings' \subseteq Pendings, cache' = <<>>, pc' = "walk", rooti' = 0, todo' = <<>>
  PROVE  CoverInv'
<1>1. TreePaths' = TreePaths
  BY DEF TreePaths
<1>2. TreeSound' /\ WatchesSound' /\ PendingSound' /\ RootsSame'
  BY <1>1 DEF CoverInv, TreeSound, WatchesSound, PendingSound, RootsSame
<1>3. WalkSound' /\ CacheSound' /\ ChildrenFound'
  BY DEF WalkSound, CacheSound, ChildrenFound
<1>4. ASSUME NEW q \in TreePaths, Wanted(q)
      PROVE  \E j \in DOMAIN RootPaths : j > 0 /\ AtOrBelow(RootPaths[j], q)
  <2>1. PICK j \in DOMAIN RootPaths : WantedBy(j, q)
    BY <1>4 DEF Wanted
  <2>2. j > 0
    BY RootAssumption
  <2>3. q \in Plain
    BY TreePathPlain
  <2>4. AtOrBelow(q, q)
    BY <2>3, BelowOrder
  <2>5. AtOrBelow(RootPaths[j], q)
    BY <2>1, <2>4 DEF WantedBy
  <2>6. QED
    BY <2>2, <2>5
<1>5. ASSUME NEW q \in TreePaths, Wanted(q) PROVE Found(q)'
  BY <1>4, <1>5 DEF Found, Coming
<1>6. RootsFound'
  BY <1>5 DEF RootsFound, CoverInv, TreeSound
<1>7. WatchedFound'
  <2>1. ASSUME NEW w \in DOMAIN kwatch
        PROVE  Wanted(tree[kwatch[w].ino]) /\ Found(tree[kwatch[w].ino])'
    <3>1. Wanted(tree[kwatch[w].ino])
      BY DEF CoverInv, WatchedFound
    <3>2. kwatch[w].ino \in DOMAIN tree
      BY DEF CoverInv, WatchesSound, Inv, LiveDirsExist, LiveWatches
    <3>3. PICK q \in TreePaths : q = tree[kwatch[w].ino]
      BY <3>2 DEF TreePaths
    <3>4. Found(q)'
      BY <1>5, <3>1, <3>3
    <3>5. QED
      BY <3>1, <3>3, <3>4 DEF Found, Cached, Coming
  <2>2. QED
    BY <2>1 DEF WatchedFound
<1>8. QED
  BY <1>2, <1>3, <1>6, <1>7 DEF CoverInv

\* A directory appeared: it is cached, the subject does not ask for it, or all is
\* walked again.
LEMMA ProcessCreateCover ==
  ASSUME RootsApart, Inv, ReportInv, WalkInv, CoverInv, ProcessCreate
  PROVE  CoverInv'
<1>1. /\ Processing /\ pc = "loop" /\ Accepted /\ Consume
      /\ UNCHANGED <<tree, kwatch, lost, rootpaths, rootpathc, queue>>
  BY DEF ProcessCreate, Processing, fsvars, kvars, rootvars
<1>2. /\ Pendings' \subseteq Pendings /\ CurPath = Cur.src
      /\ \A q : Announced(q) => Announced(q)' \/ Append(Cur.src, Cur.name) = q
  BY <1>1, CurPending DEF Accepted
<1>3. CASE NewDirectory
  <2>1. cache' = <<>> /\ pc' = "walk" /\ rooti' = 0 /\ todo' = <<>>
    BY <1>3 DEF ProcessCreate, ForgetPaths, StartWalk
  <2>2. QED
    BY <1>1, <1>2, <2>1, WalkAgain
<1>4. CASE ~NewDirectory
  <2>1. cache' = cache /\ pc' = pc
    BY <1>4 DEF ProcessCreate
  <2>2. ASSUME NEW q \in TreePaths, Wanted(q), Append(Cur.src, Cur.name) = q
        PROVE  Cached(q)
    <3>1. CASE Recursive
      <4>1. PathNameToCacheSlot(cache, q) # 0
        BY <1>2, <1>4, <2>2, <3>1 DEF NewDirectory, FormatPath
      <4>2. QED
        BY <4>1, PathFound DEF Cached, Inv, TypeOK
    <3>2. CASE ~Recursive
      <4>1. PICK k \in DOMAIN RootPaths : q = RootPaths[k]
        BY <2>2, <3>2 DEF Wanted, WantedBy
      <4>2. Found(q)
        BY <2>2, <4>1 DEF CoverInv, RootsFound
      <4>3. QED
        BY <1>1, <4>2 DEF Found, Coming
    <3>3. QED
      BY <3>1, <3>2
  <2>3. \A q \in TreePaths : Wanted(q) /\ Announced(q) => Announced(q)' \/ Cached(q) \/ lost
    BY <1>2, <2>2
  <2>4. QED
    BY <1>1, <1>2, <2>1, <2>3, LoopKeeps
<1>5. QED
  BY <1>3, <1>4

\* No step of the thread loses a directory.
LEMMA ThreadCover ==
  ASSUME RootsApart, Growing, Inv, ReportInv, WalkInv, CoverInv, Thread
  PROVE  CoverInv'
<1>1. CASE Walk
  <2>1. "CREATE" \in EventMask
    BY DEF Growing
  <2>2. QED
    BY <1>1, <2>1, WalkRootCover, WalkVisitCover, WalkSkipCover, NoAbort, WalkListCover, WalkEndCover
       DEF Walk
<1>2. CASE Check
  BY <1>2, CheckCover
<1>3. CASE ReadEvents
  BY <1>3, ReadCover
<1>4. CASE Process
  BY <1>4, ProcessGrowing, ProcessPlainCover, ProcessCreateCover
<1>5. CASE RemoveSubtree
  BY <1>5 DEF RemoveSubtree, RemoveEntry, RemoveFailed, RemoveDone, ReportInv, NeverRebuilt
<1>6. QED
  BY <1>1, <1>2, <1>3, <1>4, <1>5 DEF Thread

----------------------------------------------------------------------------
(* The kernel announces what is created                                     *)

\* A queued event stays queued, and a new one is queued, merged or dropped.
LEMMA EnqueueAdds ==
  ASSUME NEW q \in Seq(Event), NEW e
  PROVE  /\ Elems(q) \subseteq Elems(Enqueue(q, e))
         /\ Overflowed(Enqueue(q, e)) \/ \E f \in Elems(Enqueue(q, e)) : SameEvent(f, e)
<1>1. ASSUME NEW f
      PROVE  /\ Elems(q) \subseteq Elems(Append(q, f))
             /\ \E k \in DOMAIN Append(q, f) : Append(q, f)[k] = f
  <2>1. Len(q) \in Nat /\ DOMAIN q = 1 .. Len(q) /\ DOMAIN Append(q, f) = 1 .. Len(q) + 1
    OBVIOUS
  <2>2. Append(q, f)[Len(q) + 1] = f /\ Len(q) + 1 \in DOMAIN Append(q, f)
    BY <2>1
  <2>3. \A k \in DOMAIN q : k \in DOMAIN Append(q, f) /\ Append(q, f)[k] = q[k]
    BY <2>1
  <2>4. QED
    BY <2>2, <2>3 DEF Elems
<1>2. CASE Len(q) >= QueueLimit
  <2>1. CASE Overflowed(q)
    BY <1>2, <2>1 DEF Enqueue
  <2>2. CASE ~Overflowed(q)
    <3>1. Enqueue(q, e) = Append(q, OverflowEvent)
      BY <1>2, <2>2 DEF Enqueue
    <3>2. OverflowEvent.kind = "Q_OVERFLOW"
      BY DEF OverflowEvent
    <3>3. QED
      BY <1>1, <3>1, <3>2 DEF Overflowed
  <2>3. QED
    BY <2>1, <2>2
<1>3. CASE ~(Len(q) >= QueueLimit) /\ q # <<>> /\ SameEvent(q[Len(q)], e)
  <2>1. Enqueue(q, e) = q
    BY <1>3 DEF Enqueue
  <2>2. Len(q) \in DOMAIN q
    BY <1>3, EmptySeq
  <2>3. QED
    BY <1>3, <2>1, <2>2 DEF Elems
<1>4. CASE ~(Len(q) >= QueueLimit) /\ ~(q # <<>> /\ SameEvent(q[Len(q)], e))
  <2>1. Enqueue(q, e) = Append(q, e)
    BY <1>4 DEF Enqueue
  <2>2. SameEvent(e, e)
    BY DEF SameEvent
  <2>3. QED
    BY <1>1, <2>1, <2>2 DEF Elems
<1>5. QED
  BY <1>2, <1>3, <1>4

\* What the kernel queues for something that happens in a directory of D.
LEMMA NotifyAdds ==
  ASSUME KInv, NEW q \in Seq(Event), NEW D, NEW kind \in Kind, NEW name \in Name \cup {Empty}
  PROVE  LET r == Notify(q, D, kind, name) IN
         /\ Elems(q) \subseteq Elems(r)
         /\ \A e \in Elems(r) : \/ e \in Elems(q) \/ e.wd = NoWd
                                \/ /\ e.kind = kind /\ e.wd \in DOMAIN kwatch
                                   /\ kind \in kwatch[e.wd].mask \cup {"IGNORED"}
         /\ (\E v \in WatchesOn(D) : kind \in kwatch[v].mask) =>
               \/ Overflowed(r)
               \/ \E e \in Elems(r) : e.wd \in WatchesOn(D) /\ e.kind = kind /\ e.name = name
<1> DEFINE W == {w \in WatchesOn(D) : kind \in kwatch[w].mask \cup {"IGNORED"}}
           r == Notify(q, D, kind, name)
<1>1. CASE W = {}
  <2>1. r = q
    BY <1>1 DEF Notify
  <2>2. ~\E v \in WatchesOn(D) : kind \in kwatch[v].mask
    BY <1>1
  <2>3. QED
    BY <2>1, <2>2
<1>2. CASE W # {}
  <2>1. PICK w \in W : w = CHOOSE v \in W : TRUE
    BY <1>2
  <2>2. PICK e : e = [wd |-> w, kind |-> kind, name |-> name, src |-> tree[kwatch[w].ino], inst |-> inst]
    OBVIOUS
  <2>3. r = Enqueue(q, e)
    BY <1>2, <2>1, <2>2 DEF Notify
  <2>4. /\ w \in WatchesOn(D) /\ w \in LiveWatches /\ w \in DOMAIN kwatch /\ w \in Int
        /\ kind \in kwatch[w].mask \cup {"IGNORED"}
    BY <2>1 DEF WatchesOn, LiveWatches, KTypeOK, KInv
  <2> HIDE DEF W, r
  <2>5. e \in Event
    <3>1. tree[kwatch[w].ino] \in Path
      BY <2>4, DirPathType DEF KTypeOK, LiveDirsExist, KInv
    <3>2. QED
      BY <2>2, <2>4, <3>1 DEF Event, KTypeOK, KInv
  <2>6. e.wd = w /\ e.kind = kind /\ e.name = name
    BY <2>2
  <2>7. Elems(r) \subseteq Elems(q) \cup {e, OverflowEvent}
    BY <2>3, <2>5, EnqueueElems
  <2>8. Elems(q) \subseteq Elems(r) /\ (Overflowed(r) \/ \E f \in Elems(r) : SameEvent(f, e))
    BY <2>3, EnqueueAdds
  <2>9. OverflowEvent.wd = NoWd
    BY DEF OverflowEvent
  <2>10. \A f : SameEvent(f, e) => f.wd \in WatchesOn(D) /\ f.kind = kind /\ f.name = name
    BY <2>4, <2>6 DEF SameEvent
  <2>11. \A f \in Elems(r) : \/ f \in Elems(q) \/ f.wd = NoWd
                             \/ /\ f.kind = kind /\ f.wd \in DOMAIN kwatch
                                /\ kind \in kwatch[f.wd].mask \cup {"IGNORED"}
    BY <2>4, <2>6, <2>7, <2>9
  <2>12. QED
    BY <2>8, <2>10, <2>11 DEF r
<1>3. QED
  BY <1>1, <1>2

\* What is pending after the container did something, when tree keeps what it had.
LEMMA NotifiedPending ==
  ASSUME Inv, CoverInv, UNCHANGED <<kwatch, tvars>>, NEW D, NEW kind \in {"CREATE", "MODIFY"},
         NEW name \in Name \cup {Empty}, SetQueue(Notify(queue, D, kind, name)),
         "CREATE" \in EventMask
  PROVE  /\ PendingSound'
         /\ Pendings \subseteq Pendings' /\ \A q : Announced(q) => Announced(q)'
         /\ lost => lost'
         /\ (\E v \in WatchesOn(D) : kind \in kwatch[v].mask) =>
               \/ lost'
               \/ \E e \in Pendings' : e.wd \in WatchesOn(D) /\ e.kind = kind /\ e.name = name
<1>1. queue \in Seq(Event) /\ KInv /\ buf' = buf /\ kind \in Kind
  BY DEF Inv, TypeOK, KTypeOK, KInv, tvars, bufvars, Kind
<1> DEFINE r == Notify(queue, D, kind, name)
<1>3. queue' = r /\ lost' = (lost \/ Overflowed(r))
  BY DEF SetQueue
<1>4. /\ Elems(queue) \subseteq Elems(r)
      /\ \A e \in Elems(r) : \/ e \in Elems(queue) \/ e.wd = NoWd
                             \/ /\ e.kind = kind /\ e.wd \in DOMAIN kwatch
                                /\ kind \in kwatch[e.wd].mask \cup {"IGNORED"}
      /\ (\E v \in WatchesOn(D) : kind \in kwatch[v].mask) =>
            \/ Overflowed(r)
            \/ \E e \in Elems(r) : e.wd \in WatchesOn(D) /\ e.kind = kind /\ e.name = name
  <2>1. Elems(queue) \subseteq Elems(r)
    BY <1>1, NotifyAdds
  <2>2. ASSUME NEW e \in Elems(r)
        PROVE  \/ e \in Elems(queue) \/ e.wd = NoWd
               \/ /\ e.kind = kind /\ e.wd \in DOMAIN kwatch
                  /\ kind \in kwatch[e.wd].mask \cup {"IGNORED"}
    BY <1>1, NotifyAdds
  <2>3. ASSUME \E v \in WatchesOn(D) : kind \in kwatch[v].mask
        PROVE  \/ Overflowed(r)
               \/ \E e \in Elems(r) : e.wd \in WatchesOn(D) /\ e.kind = kind /\ e.name = name
    BY <1>1, <2>3, NotifyAdds
  <2>4. QED
    BY <2>1, <2>2, <2>3
<1> HIDE DEF r
<1>5. Pendings' = Elems(buf) \cup Elems(r)
  BY <1>1, <1>3 DEF Pendings
<1>6. Pendings \subseteq Pendings'
  BY <1>4, <1>5 DEF Pendings
<1>7. \A q : Announced(q) => Announced(q)'
  BY <1>6 DEF Announced
<1>8. ASSUME NEW e \in Pendings', e.wd # NoWd PROVE e.kind \in {"CREATE", "MODIFY"} \cap EventMask
  <2>1. CASE e \in Pendings
    BY <1>8, <2>1 DEF CoverInv, PendingSound
  <2>2. CASE e.kind = kind /\ e.wd \in DOMAIN kwatch /\ kind \in kwatch[e.wd].mask \cup {"IGNORED"}
    <3>1. kind = "MODIFY" => kind \in EventMask
      BY <2>2 DEF CoverInv, WatchesSound
    <3>2. QED
      BY <2>2, <3>1
  <2>3. QED
    BY <1>4, <1>5, <1>8, <2>1, <2>2 DEF Pendings
<1>9. PendingSound'
  BY <1>8 DEF PendingSound
<1>10. QED
  BY <1>3, <1>4, <1>5, <1>6, <1>7, <1>9

\* A file changes.
LEMMA ModifyCover ==
  ASSUME Growing, Inv, CoverInv, NEW i \in Inode, Modify(i), UNCHANGED tvars
  PROVE  CoverInv'
<1>1. /\ UNCHANGED <<tree, kwatch, cache, pc, todo, rooti, rootpaths, rootpathc>>
      /\ "CREATE" \in EventMask /\ SetQueue(Notify(queue, {i}, "MODIFY", Empty))
  BY DEF Modify, tvars, rootvars, walkvars, Growing
<1>2. PendingSound' /\ (\A q : Announced(q) => Announced(q)') /\ (lost => lost')
  BY <1>1, NotifiedPending
<1>3. TreePaths' = TreePaths
  BY <1>1 DEF TreePaths
<1>4. TreeSound' /\ WatchesSound' /\ RootsSame' /\ CacheSound'
  BY <1>1, <1>3 DEF CoverInv, TreeSound, WatchesSound, RootsSame, CacheSound
<1>5. WalkSound'
  BY <1>1, <1>3 DEF CoverInv, WalkSound, Reached
<1>6. \A q : Found(q)' <=> Found(q)
  BY <1>1 DEF Found, Cached, Coming
<1>7. WatchedFound' /\ RootsFound'
  BY <1>1 DEF CoverInv, WatchedFound, RootsFound, Found, Cached, Coming
<1>8. ChildrenFound'
  <2>1. SUFFICES ASSUME NEW l \in DOMAIN cache, NEW n \in Name, NEW q \in TreePaths,
                        q = Append(cache[l].path, n), Wanted(q)
                 PROVE  Found(q)' \/ Announced(q)' \/ lost'
    BY <1>1, <1>3 DEF ChildrenFound
  <2>2. Found(q) \/ Announced(q) \/ lost
    BY <2>1 DEF CoverInv, ChildrenFound
  <2>3. QED
    BY <1>2, <1>6, <2>2
<1>9. QED
  BY <1>2, <1>4, <1>5, <1>7, <1>8 DEF CoverInv

\* A directory appears in p: an event announces it if p is cached.
LEMMA MkdirCover ==
  ASSUME Growing, Inv, ReportInv, WalkInv, CoverInv, NEW i \in Inode, NEW p \in Places,
         NEW n \in Name, Mkdir(i, p, n, OpenDirs), UNCHANGED tvars
  PROVE  CoverInv'
<1> DEFINE new == Append(p, n)
<1>1. /\ UNCHANGED <<kwatch, cache, pc, todo, rooti, rootpaths, rootpathc>>
      /\ "CREATE" \in EventMask /\ SetQueue(Notify(queue, DirsAt(p), "CREATE", n))
      /\ i \notin DOMAIN tree /\ DirsAt(new) = {}
      /\ tree' = [j \in DOMAIN tree \cup {i} |-> IF j = i THEN new ELSE tree[j]]
  BY DEF Mkdir, Exists, tvars, rootvars, walkvars, Growing
<1>2. /\ PendingSound' /\ (\A q : Announced(q) => Announced(q)') /\ (lost => lost')
      /\ (\E v \in WatchesOn(DirsAt(p)) : "CREATE" \in kwatch[v].mask) =>
               \/ lost'
               \/ \E e \in Pendings' : /\ e.wd \in WatchesOn(DirsAt(p))
                                       /\ e.kind = "CREATE" /\ e.name = n
  <2>1. PICK D : D = DirsAt(p)
    OBVIOUS
  <2>2. SetQueue(Notify(queue, D, "CREATE", n))
    BY <1>1, <2>1
  <2>3. UNCHANGED <<kwatch, tvars>> /\ n \in Name \cup {Empty} /\ "CREATE" \in {"CREATE", "MODIFY"}
    BY <1>1
  <2>4. PendingSound' /\ (\A q : Announced(q) => Announced(q)') /\ (lost => lost')
    BY <1>1, <2>2, <2>3, NotifiedPending
  <2>5. ASSUME \E v \in WatchesOn(D) : "CREATE" \in kwatch[v].mask
        PROVE  \/ lost'
               \/ \E e \in Pendings' : e.wd \in WatchesOn(D) /\ e.kind = "CREATE" /\ e.name = n
    BY <1>1, <2>2, <2>3, <2>5, NotifiedPending
  <2>6. QED
    BY <2>1, <2>4, <2>5
<1>3. p \in Plain /\ new \in Plain /\ Len(p) \in Nat /\ Len(new) = Len(p) + 1
  <2>1. p \in Plain
    BY PlaceType DEF Inv, TypeOK, Plain
  <2>2. QED
    BY <2>1, ChildBelow DEF Plain
<1>4. new \notin TreePaths /\ TreePaths' = TreePaths \cup {new}
  <2>1. Resolve(new) = new
    BY <1>3, ResolvePlain
  <2> HIDE DEF new
  <2>2. new \notin TreePaths
    BY <1>1, <2>1 DEF DirsAt, TreePaths
  <2>3. DOMAIN tree' = DOMAIN tree \cup {i} /\ tree'[i] = new /\ \A j \in DOMAIN tree : tree'[j] = tree[j]
    BY <1>1
  <2>4. QED
    BY <2>2, <2>3 DEF TreePaths
<1>5. /\ DOMAIN tree' = DOMAIN tree \cup {i} /\ tree'[i] = new
      /\ \A j \in DOMAIN tree : tree'[j] = tree[j] /\ tree[j] \in TreePaths /\ tree[j] # new
  <2> HIDE DEF new
  <2>1. QED
    BY <1>1, <1>4 DEF TreePaths
<1>6. TreeSound'
  <2>1. \A j, k \in DOMAIN tree' : tree'[j] = tree'[k] => j = k
    <3> HIDE DEF new
    <3>1. QED
      BY <1>5 DEF CoverInv, TreeSound
  <2>2. ASSUME NEW j \in DOMAIN tree', NEW c \in 1 .. Len(tree'[j])
        PROVE  SubSeq(tree'[j], 1, c) \in TreePaths'
    <3>1. CASE j \in DOMAIN tree
      BY <1>4, <1>5, <2>2, <3>1 DEF CoverInv, TreeSound
    <3>2. CASE j = i
      <4>1. c \in 1 .. Len(p) + 1 /\ tree'[j] = new
        BY <1>3, <1>5, <2>2, <3>2
      <4>2. CASE c = Len(p) + 1
        <5>1. SubSeq(new, 1, Len(new)) = new
          BY <1>3 DEF Plain
        <5>2. QED
          BY <1>3, <1>4, <4>1, <4>2, <5>1
      <4>3. CASE c \in 1 .. Len(p)
        <5>1. p # <<>>
          BY <4>3
        <5>2. p \in TreePaths
          BY <5>1 DEF Places, TreePaths
        <5>3. SubSeq(p, 1, c) \in TreePaths
          BY <4>3, <5>2 DEF CoverInv, TreeSound, TreePaths
        <5>4. SubSeq(new, 1, c) = SubSeq(p, 1, c)
          BY <1>3, <4>3 DEF Plain
        <5>5. QED
          BY <1>4, <4>1, <5>3, <5>4
      <4>4. QED
        BY <1>3, <4>1, <4>2, <4>3
    <3>3. QED
      BY <1>5, <3>1, <3>2
  <2>3. \A k \in DOMAIN RootPaths : RootPaths[k] \in TreePaths'
    BY <1>4 DEF CoverInv, TreeSound
  <2>4. QED
    BY <2>1, <2>2, <2>3 DEF TreeSound
<1> HIDE DEF new
<1>7. WatchesSound' /\ RootsSame' /\ CacheSound'
  BY <1>1, <1>4 DEF CoverInv, WatchesSound, RootsSame, CacheSound
<1>8. WalkSound'
  <2>1. ASSUME pc = "walk", NEW k \in DOMAIN todo PROVE Reached(todo[k])'
    <3>1. Reached(todo[k])
      BY <2>1 DEF CoverInv, WalkSound
    <3>2. todo[k].path \in TreePaths'
      BY <1>4, <3>1 DEF Reached
    <3>3. todo[k].dir # {} => \E j \in DOMAIN tree' : todo[k].dir = {j} /\ tree'[j] = todo[k].path
      BY <1>5, <3>1 DEF Reached
    <3>4. QED
      BY <1>1, <3>1, <3>2, <3>3 DEF Reached
  <2>2. QED
    BY <1>1, <2>1 DEF WalkSound
<1>9. \A q : Found(q)' <=> Found(q)
  BY <1>1 DEF Found, Cached, Coming
<1>10. WatchedFound'
  <2>1. ASSUME NEW w \in DOMAIN kwatch
        PROVE  Wanted(tree'[kwatch[w].ino]) /\ Found(tree[kwatch[w].ino])'
    <3>1. Wanted(tree[kwatch[w].ino]) /\ Found(tree[kwatch[w].ino])
      BY DEF CoverInv, WatchedFound
    <3>2. kwatch[w].ino \in DOMAIN tree
      BY DEF CoverInv, WatchesSound, Inv, LiveDirsExist, LiveWatches
    <3>3. tree'[kwatch'[w].ino] = tree[kwatch[w].ino]
      BY <1>1, <1>5, <3>2
    <3>4. QED
      BY <1>1, <3>1, <3>3 DEF Found, Cached, Coming
  <2>2. QED
    BY <1>1, <2>1 DEF WatchedFound
<1>11. RootsFound'
  BY <1>9 DEF CoverInv, RootsFound
<1>12. ChildrenFound'
  <2>1. SUFFICES ASSUME NEW l \in DOMAIN cache, NEW b \in Name, NEW q \in TreePaths',
                        q = Append(cache[l].path, b), Wanted(q)
                 PROVE  Found(q)' \/ Announced(q)' \/ lost'
    BY <1>1 DEF ChildrenFound
  <2>2. CASE q \in TreePaths
    <3>1. Found(q) \/ Announced(q) \/ lost
      BY <2>1, <2>2 DEF CoverInv, ChildrenFound
    <3>2. QED
      BY <1>2, <1>9, <3>1
  <2>3. CASE q = new
    <3>1. cache[l].path = p
      <4>1. cache[l].path \in Plain
        BY DEF WalkInv, CacheApart
      <4>2. PICK r \in Seq(Name) : r = cache[l].path
        BY <4>1 DEF Plain
      <4>3. Append(r, b) = Append(p, n) /\ p \in Seq(Name)
        BY <1>3, <2>1, <2>3, <4>2 DEF new, Plain
      <4>4. r = p
        BY <4>3, AppendProperties
      <4>5. QED
        BY <4>2, <4>4
    <3>2. PICK w \in DOMAIN kwatch : w = cache[l].wd
      BY DEF ReportInv, CacheTrue, Elems
    <3>3. kwatch[w].live /\ "CREATE" \in kwatch[w].mask /\ kwatch[w].ino \in DOMAIN tree
      BY DEF CoverInv, WatchesSound, Inv, LiveDirsExist, LiveWatches
    <3>4. Resolve(p) = p
      BY <1>3, ResolvePlain
    <3>5. tree[kwatch[w].ino] = p
      BY <3>1, <3>2, <3>3, <3>4 DEF ReportInv, CacheTrue, Elems
    <3>6. w \in WatchesOn(DirsAt(p))
      BY <3>3, <3>4, <3>5 DEF WatchesOn, LiveWatches, DirsAt
    <3>7. CASE lost'
      BY <3>7
    <3>8. CASE ~lost'
      <4>1. PICK e \in Pendings' : e.wd \in WatchesOn(DirsAt(p)) /\ e.kind = "CREATE" /\ e.name = n
        BY <1>2, <3>3, <3>6, <3>8
      <4>2. e.wd \in DOMAIN kwatch /\ kwatch[e.wd].live /\ tree[kwatch[e.wd].ino] = p
            /\ kwatch[e.wd].ino \in DOMAIN tree
        BY <3>4, <4>1 DEF WatchesOn, LiveWatches, DirsAt
      <4>3. e.wd # NoWd
        BY <4>2 DEF NoWd, Inv, TypeOK, KTypeOK
      <4>4. ReportInv'
        <5>1. Container
          BY DEF Container
        <5>2. "rename" \notin FsOps
          BY DEF Growing
        <5>3. QED
          BY <5>1, <5>2, ContainerReport
      <4>5. e.src = tree'[kwatch'[e.wd].ino]
        BY <1>1, <4>1, <4>2, <4>3, <4>4 DEF ReportInv, EventsTrue
      <4>6. e.src = p
        BY <1>1, <1>5, <4>2, <4>5
      <4>7. Append(e.src, e.name) = q
        BY <2>3, <4>1, <4>6 DEF new
      <4>8. QED
        BY <4>1, <4>3, <4>7 DEF Announced
    <3>9. QED
      BY <3>7, <3>8
  <2>4. QED
    BY <1>4, <2>1, <2>2, <2>3
<1>13. QED
  BY <1>2, <1>6, <1>7, <1>8, <1>10, <1>11, <1>12 DEF CoverInv

----------------------------------------------------------------------------
(* The theorems                                                             *)

\* A watcher starts with everything ahead of it.
LEMMA InitCover ==
  ASSUME RootsApart, Growing, Init
  PROVE  CoverInv
<1>1. /\ tree \in InitTrees /\ kwatch = <<>> /\ queue = <<>> /\ pc = "walk" /\ rooti = 0
      /\ todo = <<>> /\ cache = <<>> /\ buf = <<>> /\ RootsSame
  BY DEF Init, KInit, RootsSame
<1>2. TreeSound
  BY <1>1 DEF Growing, TreeSound, TreePaths
<1>3. Pendings = {}
  BY <1>1 DEF Pendings, Elems
<1>4. WatchesSound /\ PendingSound /\ WalkSound /\ CacheSound /\ WatchedFound /\ ChildrenFound
  BY <1>1, <1>3 DEF WatchesSound, PendingSound, WalkSound, CacheSound, WatchedFound, ChildrenFound
<1>5. ASSUME NEW k \in DOMAIN RootPaths PROVE Found(RootPaths[k])
  <2>1. RootPaths[k] \in Plain /\ k > rooti
    BY <1>1, RootAssumption DEF RootsApart, Plain
  <2>2. AtOrBelow(RootPaths[k], RootPaths[k])
    BY <2>1, BelowOrder
  <2>3. QED
    BY <1>1, <2>1, <2>2 DEF Found, Coming
<1>6. QED
  BY <1>1, <1>2, <1>4, <1>5 DEF CoverInv, RootsFound

\* The container does nothing but create directories and change files.
LEMMA ContainerCover ==
  ASSUME Growing, Inv, ReportInv, WalkInv, CoverInv, Container
  PROVE  CoverInv'
<1>1. UNCHANGED tvars
  BY DEF Container
<1>2. "rmdir" \notin FsOps /\ "rename" \notin FsOps
  BY DEF Growing
<1>3. \/ \E i \in Inode, p \in Places, n \in Name : Mkdir(i, p, n, OpenDirs)
      \/ \E i \in Inode : Modify(i)
  BY <1>2 DEF Container, Rmdir, Rename, FsOp
<1>4. QED
  BY <1>1, <1>3, MkdirCover, ModifyCover

\* The invariant.
LEMMA CoverInvariant ==
  ASSUME RootsApart, Growing
  PROVE  Spec => [](Inv /\ ReportInv /\ WalkInv /\ CoverInv)
<1>1. "rename" \notin FsOps
  BY DEF Growing
<1>2. Init => CoverInv
  BY InitCover
<1>3. ASSUME Inv, ReportInv, WalkInv, CoverInv, [Next]_vars PROVE CoverInv'
  <2>1. CASE UNCHANGED vars
    <3>1. UNCHANGED <<tree, kwatch, queue, lost, pc, cache, todo, rooti, rootpaths, rootpathc, buf>>
      BY <2>1 DEF vars, fsvars, kvars, tvars, rootvars, walkvars, bufvars
    <3>2. Pendings' = Pendings /\ TreePaths' = TreePaths
      BY <3>1 DEF Pendings, TreePaths
    <3>3. \A q : (Found(q)' <=> Found(q)) /\ (Announced(q)' <=> Announced(q))
      BY <3>1, <3>2 DEF Found, Cached, Coming, Announced
    <3>4. FoundStays
      BY <3>3 DEF FoundStays
    <3>5. WalkSound'
      BY <1>3, <3>1, <3>2 DEF CoverInv, WalkSound, Reached
    <3>6. QED
      BY <1>3, <3>1, <3>2, <3>3, <3>4, <3>5, ThreadKeeps
  <2>2. CASE Container
    BY <1>3, <2>2, ContainerCover
  <2>3. CASE Thread
    BY <1>3, <2>3, ThreadCover
  <2>4. QED
    BY <1>3, <2>1, <2>2, <2>3 DEF Next
<1>4. Spec => [](Inv /\ ReportInv /\ WalkInv)
  BY <1>1, WalkInvariant
<1>5. QED
  BY <1>2, <1>3, <1>4, PTL DEF Spec

\* The directories of the specification's ToWatch are the wanted ones.
LEMMA ToWatchWanted ==
  ASSUME Inv, TreeSound, NEW i \in DOMAIN tree
  PROVE  i \in ToWatch <=> Wanted(tree[i])
<1>1. PICK q \in TreePaths : q = tree[i]
  BY DEF TreePaths
<1>2. q \in Plain
  BY TreePathPlain
<1>3. ASSUME NEW k \in DOMAIN RootPaths
      PROVE  IsPrefix(RootPaths[k], q) <=> AtOrBelow(RootPaths[k], q)
  BY <1>2, RootPlain, PrefixIsBelow
<1>4. QED
  BY <1>1, <1>3 DEF ToWatch, Wanted, WantedBy

\* When nothing is pending and nothing was lost, everything wanted is cached: of what
\* is not, take the one with the shortest path; what it is in is cached.
LEMMA AllCached ==
  ASSUME Inv, CoverInv, pc # "walk", Pendings = {}, ~lost, NEW x \in TreePaths, Wanted(x)
  PROVE  Cached(x)
<1>1. \A q : Found(q) => Cached(q)
  BY DEF Found, Coming
<1>2. \A q : ~Announced(q)
  BY DEF Announced
<1> DEFINE Missed == {q \in TreePaths : Wanted(q) /\ ~Cached(q)}
           S == {Len(q) : q \in Missed}
<1>3. SUFFICES ASSUME Missed # {} PROVE FALSE
  OBVIOUS
<1>4. S \subseteq Nat /\ S # {}
  BY <1>3, TreePathPlain
<1>5. Min(S) \in S /\ \A y \in S : Min(S) <= y
  BY <1>4, MinNat, Zenon
<1>6. PICK q \in Missed : \A r \in Missed : Len(q) <= Len(r)
  BY <1>5
<1>7. q \in TreePaths /\ Wanted(q) /\ ~Cached(q) /\ q \in Plain /\ Len(q) \in Nat /\ Len(q) >= 1
  BY TreePathPlain
<1>8. PICK k \in DOMAIN RootPaths : WantedBy(k, q)
  BY <1>7 DEF Wanted
<1>9. PICK root \in Plain : root = RootPaths[k] /\ Len(root) \in Nat /\ Len(root) >= 1
  BY RootPlain DEF CoverInv
<1>10. q # root
  BY <1>1, <1>7, <1>9 DEF CoverInv, RootsFound
<1>11. Recursive /\ AtOrBelow(root, q)
  BY <1>8, <1>9, <1>10 DEF WantedBy
<1>12. Len(root) < Len(q)
  <2>1. Len(root) <= Len(q) /\ \A c \in 1 .. Len(root) : q[c] = root[c]
    BY <1>11 DEF AtOrBelow
  <2>2. Len(root) # Len(q)
    BY <1>7, <1>9, <1>10, <2>1, SeqEqual DEF Plain
  <2>3. QED
    BY <1>7, <1>9, <2>1, <2>2
<1>13. PICK p \in Plain : /\ Len(p) = Len(q) - 1
                          /\ \A c \in 1 .. Len(p) : p[c] = q[c]
  <2>1. PICK m \in Nat : m = Len(q) - 1
    BY <1>7
  <2>2. PICK f : f = [c \in 1 .. m |-> q[c]]
    OBVIOUS
  <2>3. f \in Seq(Name) /\ Len(f) = m /\ \A c \in 1 .. m : f[c] = q[c]
    BY <1>7, <2>1, <2>2 DEF Plain
  <2>4. QED
    BY <2>1, <2>3 DEF Plain
<1>14. q = Append(p, q[Len(q)]) /\ q[Len(q)] \in Name
  <2>1. q[Len(q)] \in Name /\ p \in Seq(Name) /\ q \in Seq(Name)
    BY <1>7 DEF Plain
  <2>2. PICK n \in Name : n = q[Len(q)]
    BY <2>1
  <2>3. PICK r : r = Append(p, n)
    OBVIOUS
  <2>4. /\ r \in Seq(Name) /\ Len(r) = Len(q) /\ r[Len(q)] = n
        /\ \A c \in 1 .. Len(q) - 1 : r[c] = q[c]
    BY <1>7, <1>13, <2>1, <2>3
  <2>5. \A c \in 1 .. Len(q) : r[c] = q[c]
    BY <1>7, <2>2, <2>4
  <2>6. r = q
    BY <1>7, <2>1, <2>4, <2>5, SeqEqual
  <2>7. QED
    BY <2>1, <2>2, <2>3, <2>6
<1>15. AtOrBelow(p, q) /\ AtOrBelow(root, p)
  <2>1. AtOrBelow(p, q)
    BY <1>7, <1>13 DEF AtOrBelow
  <2>2. Len(root) <= Len(p)
    BY <1>7, <1>9, <1>12, <1>13
  <2>3. QED
    BY <1>7, <1>9, <1>11, <2>1, <2>2, AboveChain
<1>16. p # <<>>
  BY <1>7, <1>9, <1>12, <1>13
<1>17. p \in TreePaths
  BY <1>7, <1>15, <1>16, TreeUp DEF CoverInv
<1>18. WantedBy(k, p)
  BY <1>7, <1>8, <1>9, <1>11, <1>15, WantedUp DEF CoverInv
<1>19. Cached(p)
  <2>1. Wanted(p)
    BY <1>18 DEF Wanted
  <2>2. ~(Len(q) <= Len(p))
    BY <1>7, <1>13
  <2>3. QED
    BY <1>6, <1>17, <2>1, <2>2
<1>20. PICK l \in DOMAIN cache : cache[l].path = p
  BY <1>19 DEF Cached
<1>21. Found(q)
  BY <1>2, <1>7, <1>14, <1>20 DEF CoverInv, ChildrenFound
<1>22. QED
  BY <1>1, <1>7, <1>21

\* "an internal data structure is kept up-to-date based on create [...] events": for
\* every subject that asks for IN_CREATE and whose root paths are apart, and every
\* container that creates directories anywhere and at any time, once every event is
\* processed the cache has exactly the directories the subject asks for, each with a
\* live watch on that directory, unless the kernel dropped events.
THEOREM EveryDirectoryCovered ==
  ASSUME RootsApart, Growing
  PROVE  Spec => []Coverage
<1>1. ASSUME Inv, ReportInv, WalkInv, CoverInv PROVE Coverage
  <2>1. SUFFICES ASSUME Quiet, ~lost
                 PROVE  /\ AllCovered
                        /\ {cache[k].path : k \in DOMAIN cache} = {tree[i] : i \in ToWatch}
    BY DEF Coverage
  <2>2. pc # "walk" /\ Pendings = {}
    <3>1. pc = "loop" /\ buf \in Seq(Event) /\ queue \in Seq(Event) /\ buf \o queue = <<>>
      BY <1>1, <2>1 DEF Quiet, Pending, Inv, TypeOK, KTypeOK
    <3>2. Len(buf) + Len(queue) = 0 /\ Len(buf) \in Nat /\ Len(queue) \in Nat
      BY <3>1
    <3>3. buf = <<>> /\ queue = <<>>
      BY <3>1, <3>2, EmptySeq
    <3>4. QED
      BY <3>1, <3>3 DEF Pendings, Elems
  <2>3. \A i \in DOMAIN tree : i \in ToWatch <=> Wanted(tree[i])
    BY <1>1, ToWatchWanted DEF CoverInv
  <2>4. ToWatch \subseteq DOMAIN tree
    BY DEF ToWatch
  <2>5. ASSUME NEW i \in ToWatch PROVE Cached(tree[i])
    <3>1. tree[i] \in TreePaths /\ Wanted(tree[i])
      BY <2>3, <2>4 DEF TreePaths
    <3>2. QED
      BY <1>1, <2>1, <2>2, <3>1, AllCached
  <2>6. ASSUME NEW i \in ToWatch PROVE Covered(i)
    <3>1. PICK l \in DOMAIN cache : cache[l].path = tree[i]
      BY <2>5 DEF Cached
    <3>2. PICK w \in DOMAIN kwatch : w = cache[l].wd
      BY <1>1 DEF ReportInv, CacheTrue, Elems
    <3>3. kwatch[w].live /\ kwatch[w].ino \in DOMAIN tree
      BY <1>1 DEF CoverInv, WatchesSound, Inv, LiveDirsExist, LiveWatches
    <3>4. Resolve(cache[l].path) = cache[l].path
      BY <1>1, ResolvePlain DEF WalkInv, CacheApart
    <3>5. tree[kwatch[w].ino] = tree[i]
      BY <1>1, <3>1, <3>2, <3>3, <3>4 DEF ReportInv, CacheTrue, Elems
    <3>6. kwatch[w].ino = i
      BY <1>1, <2>4, <3>3, <3>5 DEF CoverInv, TreeSound
    <3>7. QED
      BY <2>4, <3>1, <3>2, <3>3, <3>6 DEF Covered, WatchesOn, LiveWatches
  <2>7. ASSUME NEW k \in DOMAIN cache PROVE \E i \in ToWatch : cache[k].path = tree[i]
    <3>1. cache[k].path \in TreePaths /\ Wanted(cache[k].path)
      BY <1>1 DEF CoverInv, CacheSound
    <3>2. QED
      BY <2>3, <3>1 DEF TreePaths
  <2>8. {cache[k].path : k \in DOMAIN cache} = {tree[i] : i \in ToWatch}
    BY <2>5, <2>7 DEF Cached
  <2>9. QED
    BY <2>6, <2>8 DEF AllCovered
<1>2. QED
  BY <1>1, CoverInvariant, PTL

\* For the same subjects and containers no event makes process_next_inotify_event
\* discard the rest of its buffer: between two walks every pending event is of a
\* cached descriptor.
THEOREM NoEventUnknown ==
  ASSUME RootsApart, Growing
  PROVE  Spec => []NothingUnknown
<1>1. ASSUME Inv, ReportInv, WalkInv, CoverInv PROVE NothingUnknown
  <2>1. SUFFICES ASSUME pc = "loop", NEW k \in DOMAIN Pending, Pending[k].wd # NoWd
                 PROVE  FindWatch(cache, Pending[k].wd) > 0
    BY DEF NothingUnknown
  <2>2. buf \in Seq(Event) /\ queue \in Seq(Event)
    BY <1>1 DEF Inv, TypeOK, KTypeOK
  <2>3. Pending[k] \in Pendings
    <3>1. /\ Len(buf) \in Nat /\ Len(queue) \in Nat /\ k \in 1 .. Len(buf) + Len(queue)
      BY <2>2 DEF Pending
    <3>2. CASE k \in 1 .. Len(buf)
      <4>1. Pending[k] = buf[k] /\ k \in DOMAIN buf
        BY <2>2, <3>2 DEF Pending
      <4>2. QED
        BY <4>1 DEF Pendings, Elems
    <3>3. CASE k \notin 1 .. Len(buf)
      <4>1. Pending[k] = queue[k - Len(buf)] /\ k - Len(buf) \in DOMAIN queue
        BY <2>2, <3>1, <3>3 DEF Pending
      <4>2. QED
        BY <4>1 DEF Pendings, Elems
    <3>4. QED
      BY <3>2, <3>3
  <2>4. QED
    BY <1>1, <2>1, <2>3, PendingKnown
<1>2. QED
  BY <1>1, CoverInvariant, PTL
=============================================================================
