---------------------------- MODULE ArgusdProofs ----------------------------
(***************************************************************************)
(* Theorems about ArgusdImpl, for every number of threads, stacks, callers  *)
(* and calls, every set of requests and every order of steps.                *)
(***************************************************************************)
EXTENDS ArgusdImpl, LookupLemmas, FiniteSetTheorems, SequenceTheorems, TLAPS

----------------------------------------------------------------------------
(* The inductive invariant                                                  *)

\* A thread that has started knows its key and, from Begin on, has a struct with
\* some key; the static pointer, once set, leads to a struct.
Started(t) ==
    /\ pc[t] # "free" => key[t] \in Key
    /\ pc[t] \notin {"free", "begin"} => watch[t] \in Stack /\ struct[watch[t]].key \in Key
    /\ pc[t] = "visit" => walker \in Stack

ThreadInv ==
    /\ TTypeOK
    /\ \A t \in Stack : Started(t)
    /\ walker # NoStack => watch[walker] \in Stack

\* A handler that is to kill or to start has a pid to do it for, and the flag
\* of a pid exists before its second subject is started.
InCall(o, D) ==
    /\ o.at = "kill" => o.kill # <<>>
    /\ o.at \in {"wait", "start"} => o.start # <<>>
    /\ o.at \in {"kill", "wait", "start"} =>
          /\ o.req \in Requests
          /\ o.sid \in 0 .. o.req.subjects - 1
          /\ o.at \in {"kill", "wait"} => o.sid = 0
    /\ o.at = "start" /\ o.sid > 0 => Head(o.start) \in D

HandlerInv ==
    /\ ITypeOK
    /\ \A c \in Caller : InCall(op[c], DOMAIN doneMap)

DInv == ThreadInv /\ HandlerInv

----------------------------------------------------------------------------
(* The steps of a thread                                                    *)

\* find_cached_slot returns the slot of a struct with that pid and sid.
LEMMA FindCachedSlotFound ==
  ASSUME TTypeOK, NEW k
  PROVE  /\ FindCachedSlot(k) \in 0 .. Len(wlcache)
         /\ FindCachedSlot(k) # NoSlot =>
               /\ wlcache[FindCachedSlot(k)] \in Stack
               /\ struct[wlcache[FindCachedSlot(k)]].key = k
<1> DEFINE I == {i \in 1 .. Len(wlcache) : wlcache[i] # NoStack /\ struct[wlcache[i]].key = k}
<1>1. FindCachedSlot(k) = IF I # {} THEN Min(I) ELSE 0
  BY DEF FindCachedSlot, SelectInSeq
<1>2. wlcache \in Seq(Stack \cup {NoStack}) /\ Len(wlcache) \in Nat
  BY DEF TTypeOK
<1>3. I \subseteq 1 .. Len(wlcache)
  OBVIOUS
<1>4. \A i \in I : wlcache[i] \in Stack /\ struct[wlcache[i]].key = k
  BY <1>2
<1> HIDE DEF I
<1>5. /\ FindCachedSlot(k) \in 0 .. Len(wlcache)
      /\ FindCachedSlot(k) > 0 <=> FindCachedSlot(k) \in I
  BY <1>1, <1>2, <1>3, MinOrZero, Zenon
<1>6. QED
  BY <1>2, <1>4, <1>5 DEF NoSlot

\* find_empty_cache_slot returns an index of the array, or none.
LEMMA FindEmptySlotType ==
  ASSUME TTypeOK
  PROVE  FindEmptySlot \in 0 .. Len(wlcache)
<1> DEFINE I == {i \in 1 .. Len(wlcache) : IsEmpty(wlcache[i])}
<1>1. FindEmptySlot = IF I # {} THEN Min(I) ELSE 0
  BY DEF FindEmptySlot, SelectInSeq
<1>2. Len(wlcache) \in Nat /\ I \subseteq 1 .. Len(wlcache)
  BY DEF TTypeOK
<1> HIDE DEF I
<1>3. QED
  BY <1>1, <1>2, MinOrZero, Zenon

\* A struct stays one when its fields are assigned.
LEMMA StructFields ==
  ASSUME NEW r \in Struct
  PROVE  /\ \A e \in Nat \cup {Closed} :
              [r EXCEPT !.evt = e] \in Struct /\ [r EXCEPT !.evt = e].key = r.key
         /\ \A p \in SUBSET Key :
              [r EXCEPT !.paths = p] \in Struct /\ [r EXCEPT !.paths = p].key = r.key
         /\ \A i \in Nat :
              [r EXCEPT !.slot = i] \in Struct /\ [r EXCEPT !.slot = i].key = r.key
         /\ \A e \in Nat \cup {Closed} :
              /\ [r EXCEPT !.evt = e, !.pollers = {}, !.paths = {}] \in Struct
              /\ [r EXCEPT !.evt = e, !.pollers = {}, !.paths = {}].key = r.key
BY DEF Struct

\* The same for the fields of the epoll instance.
LEMMA StructEpollFields ==
  ASSUME NEW r \in Struct, NEW p \in SUBSET Stack
  PROVE  /\ \A u \in Stack \cup {NoStack} :
              /\ [r EXCEPT !.efd = u, !.pollers = p] \in Struct
              /\ [r EXCEPT !.efd = u, !.pollers = p].key = r.key
         /\ \A e \in Nat \cup {Closed} :
              /\ [r EXCEPT !.evt = e, !.pollers = p] \in Struct
              /\ [r EXCEPT !.evt = e, !.pollers = p].key = r.key
              /\ [r EXCEPT !.evt = e, !.pollers = p, !.efd = NoStack] \in Struct
              /\ [r EXCEPT !.evt = e, !.pollers = p, !.efd = NoStack].key = r.key
BY DEF Struct

\* The empty struct and an emptied one are structs.
LEMMA StructTypes ==
  ASSUME TTypeOK
  PROVE  /\ \A k \in Key \cup {NoKey} : NewStruct(k) \in Struct
         /\ \A s \in Stack : ClearWatch(s) \in Struct /\ ClearWatch(s).key = struct[s].key
         /\ NoLocal \in Local
<1>1. \A k \in Key \cup {NoKey} : NewStruct(k) \in Struct
  BY DEF NewStruct, Struct, NoSlot, Closed, NoStack
<1>2. ASSUME NEW s \in Stack
      PROVE  ClearWatch(s) \in Struct /\ ClearWatch(s).key = struct[s].key
  <2>1. struct[s] \in Struct
    BY DEF TTypeOK
  <2>2. QED
    BY <2>1, StructFields, Zenon DEF ClearWatch
<1>3. NoLocal \in Local
  BY DEF NoLocal, Local, NoSlot, NoStack
<1>4. QED
  BY <1>1, <1>2, <1>3

\* What a step does to the structs: one of them is replaced by another that has
\* a key if the old one had.
LEMMA OneStruct ==
  ASSUME ThreadInv, NEW t \in Stack, NEW s \in Stack, NEW x \in Struct,
         struct[s].key \in Key => x.key \in Key,
         struct' = [struct EXCEPT ![s] = x]
  PROVE  /\ struct' \in [Stack -> Struct]
         /\ struct'[s] = x
         /\ \A u \in Stack : struct[u].key \in Key => struct'[u].key \in Key
<1>1. struct \in [Stack -> Struct]
  BY DEF ThreadInv, TTypeOK
<1>2. QED
  BY <1>1

\* start_inotify_watcher up to reinitialize
LEMMA BeginInv ==
  ASSUME ThreadInv, NEW t \in Stack, Begin(t)
  PROVE  ThreadInv'
<1> DEFINE i == FindCachedSlot(key[t])
           s == IF i # NoSlot THEN wlcache[i] ELSE t
           rebuild == i # NoSlot /\ struct[s].slot # NoSlot
           x == IF rebuild THEN ClearWatch(s)
                ELSE IF i # NoSlot THEN struct[s] ELSE NewStruct(key[t])
           l == [NoLocal EXCEPT !.rebuild = rebuild]
<1>1. TTypeOK /\ pc[t] = "begin" /\ key[t] \in Key
  BY DEF ThreadInv, Started, Begin
<1>2. s \in Stack /\ (i # NoSlot => struct[s].key = key[t])
  BY <1>1, FindCachedSlotFound
<1>3. /\ watch' = [watch EXCEPT ![t] = s]
      /\ local' = [local EXCEPT ![t] = l]
      /\ struct' = [struct EXCEPT ![s] = x]
      /\ pc' = [pc EXCEPT ![t] = "walk"]
      /\ UNCHANGED <<key, wlcache, walker, churn, asked>>
  BY DEF Begin
<1>4. x \in Struct /\ x.key = key[t]
  <2>1. struct[s] \in Struct
    BY <1>1, <1>2 DEF TTypeOK
  <2>2. NewStruct(key[t]).key = key[t]
    BY DEF NewStruct
  <2>3. QED
    BY <1>1, <1>2, <2>1, <2>2, StructTypes
<1>5. l \in Local
  BY DEF NoLocal, Local, NoSlot, NoStack
<1>11. robbed' \subseteq Pid
  <2>1. robbed' \subseteq robbed \cup {key[u][1] : u \in Users(t)} /\ robbed \subseteq Pid
    BY <1>1 DEF Begin, TTypeOK
  <2>2. ASSUME NEW u \in Users(t) PROVE key[u][1] \in Pid
    BY DEF Users, Live, ThreadInv, Started, Key
  <2>3. QED
    BY <2>1, <2>2
<1> HIDE DEF i, s, rebuild, x, l
<1>6. /\ struct' \in [Stack -> Struct]
      /\ struct'[s] = x
      /\ \A u \in Stack : struct[u].key \in Key => struct'[u].key \in Key
  BY <1>1, <1>2, <1>3, <1>4, OneStruct
<1>7. TTypeOK'
  BY <1>1, <1>2, <1>3, <1>5, <1>6, <1>11 DEF TTypeOK, PC
<1>8. ASSUME NEW u \in Stack PROVE Started(u)'
  <2>1. Started(u)
    BY DEF ThreadInv
  <2>2. CASE u = t
    BY <1>1, <1>2, <1>3, <1>4, <1>6, <2>2 DEF Started, TTypeOK
  <2>3. CASE u # t
    BY <1>1, <1>2, <1>3, <1>6, <2>1, <2>3 DEF Started, TTypeOK
  <2>4. QED
    BY <2>2, <2>3
<1>9. (walker # NoStack => watch[walker] \in Stack)'
  BY <1>1, <1>2, <1>3 DEF ThreadInv, TTypeOK
<1>10. QED
  BY <1>7, <1>8, <1>9 DEF ThreadInv

\* watch_path_recursive
LEMMA WalkInv ==
  ASSUME ThreadInv, NEW t \in Stack, Walk(t)
  PROVE  ThreadInv'
<1>1. /\ TTypeOK /\ pc[t] = "walk" /\ watch[t] \in Stack
      /\ pc' = [pc EXCEPT ![t] = "visit"] /\ walker' = t
      /\ UNCHANGED <<key, watch, local, struct, wlcache, churn, asked, robbed>>
  BY DEF ThreadInv, Started, Walk, avars
<1>2. TTypeOK'
  BY <1>1 DEF TTypeOK, PC
<1>3. ASSUME NEW u \in Stack PROVE Started(u)'
  BY <1>1 DEF ThreadInv, Started, TTypeOK
<1>4. QED
  BY <1>1, <1>2, <1>3 DEF ThreadInv

\* A step of a thread that has a struct, by which it goes anywhere but to visit,
\* one struct changes, and no pointer does.
LEMMA FrameInv ==
  ASSUME ThreadInv, NEW t \in Stack, pc[t] \notin {"free", "begin"},
         NEW q \in PC, q # "visit", pc' = [pc EXCEPT ![t] = q],
         NEW s \in Stack, NEW x \in Struct, struct[s].key \in Key => x.key \in Key,
         struct' = [struct EXCEPT ![s] = x],
         local' \in [Stack -> Local], wlcache' \in Seq(Stack \cup {NoStack}),
         churn' \in Nat, robbed' \subseteq Pid, UNCHANGED <<key, watch, walker, asked>>
  PROVE  ThreadInv'
<1>1. /\ struct' \in [Stack -> Struct]
      /\ \A u \in Stack : struct[u].key \in Key => struct'[u].key \in Key
  BY OneStruct
<1>2. TTypeOK'
  BY <1>1 DEF ThreadInv, TTypeOK
<1>3. ASSUME NEW u \in Stack PROVE Started(u)'
  <2>1. Started(u) /\ Started(t) /\ pc \in [Stack -> PC]
    BY DEF ThreadInv, TTypeOK
  <2>2. CASE u = t
    BY <1>1, <2>1, <2>2 DEF Started
  <2>3. CASE u # t
    BY <1>1, <2>1, <2>3 DEF Started
  <2>4. QED
    BY <2>2, <2>3
<1>4. QED
  BY <1>2, <1>3 DEF ThreadInv

\* The thread waits on an epoll instance, or on none.
LEMMA BackToLoopType ==
  ASSUME TTypeOK, NEW t \in Stack, watch[t] \in Stack, struct' \in [Stack -> Struct],
         BackToLoop(t)
  PROVE  local' \in [Stack -> Local]
<1> DEFINE e == struct'[watch[t]].efd
           l == [NoLocal EXCEPT !.ep = e]
<1>1. e \in Stack \cup {NoStack}
  BY DEF Struct
<1>2. local' = [local EXCEPT ![t] = l] /\ local \in [Stack -> Local]
  BY DEF BackToLoop, W, TTypeOK
<1> HIDE DEF e
<1>3. l \in Local
  BY <1>1 DEF NoLocal, Local, NoSlot
<1> HIDE DEF l
<1>4. QED
  BY <1>2, <1>3

\* traverse_tree: the struct it adds to is that of the last walk.
LEMMA VisitInv ==
  ASSUME ThreadInv, NEW t \in Stack, Visit(t)
  PROVE  ThreadInv'
<1> DEFINE s == watch[walker]
           p == struct[s].paths \cup {struct[watch[t]].key}
           x == [struct[s] EXCEPT !.paths = p]
<1>1. /\ TTypeOK /\ pc[t] = "visit" /\ watch[t] \in Stack
      /\ struct[watch[t]].key \in Key /\ walker \in Stack
  BY DEF ThreadInv, Started, Visit
<1>2. s \in Stack
  BY <1>1 DEF ThreadInv, Stack, NoStack
<1>3. struct[s] \in Struct
  BY <1>1, <1>2 DEF TTypeOK
<1>4. p \in SUBSET Key
  BY <1>1, <1>3 DEF Struct
<1> HIDE DEF p
<1>5. x \in Struct /\ x.key = struct[s].key
  BY <1>3, <1>4, StructFields, Zenon
<1>6. struct' = [struct EXCEPT ![s] = x]
  BY Zenon DEF Visit, W, p
<1> HIDE DEF s, x
<1>7. UNCHANGED <<key, watch, local, wlcache, walker, churn, asked, robbed>>
  BY DEF Visit, avars
<1>8. PICK q \in {"back", "register"} : pc' = [pc EXCEPT ![t] = q]
  BY DEF Visit
<1>9. QED
  BY <1>1, <1>2, <1>5, <1>6, <1>7, <1>8, FrameInv DEF TTypeOK, PC

\* A step of a thread that has a struct, by which no struct and no pointer changes.
LEMMA CalmInv ==
  ASSUME ThreadInv, NEW t \in Stack, pc[t] \notin {"free", "begin"},
         NEW q \in PC, q # "visit", pc' = [pc EXCEPT ![t] = q],
         struct' = struct, local' \in [Stack -> Local],
         wlcache' \in Seq(Stack \cup {NoStack}), churn' \in Nat,
         UNCHANGED <<key, watch, walker, asked, robbed>>
  PROVE  ThreadInv'
<1>1. watch[t] \in Stack /\ struct \in [Stack -> Struct] /\ robbed' \subseteq Pid
  BY DEF ThreadInv, Started, TTypeOK
<1>2. struct[watch[t]] \in Struct /\ struct' = [struct EXCEPT ![watch[t]] = struct[watch[t]]]
  BY <1>1
<1>3. QED
  BY <1>1, <1>2, FrameInv

\* An assignment to a slot of wlcache.
LEMMA SlotType ==
  ASSUME TTypeOK, NEW f, DOMAIN f = DOMAIN wlcache,
         \A i \in DOMAIN wlcache : f[i] \in Stack \cup {NoStack} \/ f[i] = wlcache[i],
         f = [i \in DOMAIN f |-> f[i]]
  PROVE  f \in Seq(Stack \cup {NoStack})
<1>1. wlcache \in Seq(Stack \cup {NoStack}) /\ Len(wlcache) \in Nat
  BY DEF TTypeOK
<1>2. f \in [1 .. Len(wlcache) -> Stack \cup {NoStack}]
  BY <1>1
<1>3. QED
  BY <1>1, <1>2

\* process_next_inotify_event after a walk
LEMMA PutBackInv ==
  ASSUME ThreadInv, NEW t \in Stack, PutBack(t)
  PROVE  ThreadInv'
<1>1. TTypeOK /\ pc[t] = "back" /\ watch[t] \in Stack
  BY DEF ThreadInv, Started, PutBack
<1>2. /\ pc' = [pc EXCEPT ![t] = "loop"] /\ struct' = struct /\ BackToLoop(t)
      /\ wlcache' = [i \in DOMAIN wlcache |->
                       IF i = struct[watch[t]].slot THEN watch[t] ELSE wlcache[i]]
      /\ UNCHANGED <<key, watch, walker, churn, asked, robbed>>
  BY DEF PutBack, W, avars
<1>3. local' \in [Stack -> Local] /\ churn' \in Nat
  BY <1>1, <1>2, BackToLoopType DEF TTypeOK
<1>4. wlcache' \in Seq(Stack \cup {NoStack})
  BY <1>1, <1>2, SlotType
<1>5. QED
  BY <1>1, <1>2, <1>3, <1>4, CalmInv DEF PC

\* The struct with a new eventfd is a struct.
LEMMA NewEventfdType ==
  ASSUME TTypeOK, NEW t \in Stack, watch[t] \in Stack
  PROVE  NewEventfd(t) \in Struct /\ NewEventfd(t).key = struct[watch[t]].key
<1> DEFINE p == IF local[t].rebuild THEN {struct[watch[t]].efd} \ {NoStack} ELSE {}
<1>1. struct[watch[t]] \in Struct
  BY DEF TTypeOK
<1>2. p \in SUBSET Stack
  BY <1>1 DEF Struct
<1> HIDE DEF p
<1>3. 0 \in Nat \cup {Closed}
  OBVIOUS
<1>4. NewEventfd(t) = [struct[watch[t]] EXCEPT !.evt = 0, !.pollers = p]
  BY DEF NewEventfd, W, p
<1>5. ASSUME NEW r \in Struct
      PROVE  /\ [r EXCEPT !.evt = 0, !.pollers = p] \in Struct
             /\ [r EXCEPT !.evt = 0, !.pollers = p].key = r.key
  BY <1>2, <1>3, StructEpollFields
<1>6. QED
  BY <1>1, <1>4, <1>5, Zenon

\* epoll_create1, add_epoll_ctl_fds and the way back to the loop
LEMMA EnterLoopInv ==
  ASSUME ThreadInv, NEW t \in Stack, pc[t] \notin {"free", "begin"},
         NEW s \in Struct, s.key = struct[watch[t]].key, EnterLoop(t, s),
         wlcache' \in Seq(Stack \cup {NoStack}), UNCHANGED <<key, watch, walker, churn, asked, robbed>>
  PROVE  ThreadInv'
<1> DEFINE p == s.pollers \cup {t}
           y == [s EXCEPT !.efd = t, !.pollers = p]
           x == IF local[t].caller = "start" THEN y ELSE s
<1>1. TTypeOK /\ watch[t] \in Stack
  BY DEF ThreadInv, Started
<1>2. p \in SUBSET Stack
  BY DEF Struct
<1> HIDE DEF p
<1>3. y \in Struct /\ y.key = s.key
  BY <1>2, StructEpollFields, Zenon
<1>4. /\ pc' = [pc EXCEPT ![t] = "loop"]
      /\ struct' = [struct EXCEPT ![watch[t]] = x]
      /\ BackToLoop(t)
  BY DEF EnterLoop, W, p
<1> HIDE DEF y
<1>5. x \in Struct /\ x.key = struct[watch[t]].key
  BY <1>3
<1> HIDE DEF x
<1>6. struct' \in [Stack -> Struct]
  BY <1>1, <1>4, <1>5, OneStruct
<1>7. local' \in [Stack -> Local]
  BY <1>1, <1>4, <1>6, BackToLoopType
<1>8. QED
  BY <1>1, <1>4, <1>5, <1>7, FrameInv DEF TTypeOK, PC

\* reinitialize, when the struct is found
LEMMA AlreadyCachedInv ==
  ASSUME ThreadInv, NEW t \in Stack, AlreadyCached(t)
  PROVE  ThreadInv'
<1>1. TTypeOK /\ pc[t] = "register" /\ watch[t] \in Stack
  BY DEF ThreadInv, Started, AlreadyCached
<1>2. /\ EnterLoop(t, NewEventfd(t))
      /\ wlcache' \in Seq(Stack \cup {NoStack}) /\ UNCHANGED <<key, watch, walker, churn, asked, robbed>>
  BY <1>1 DEF AlreadyCached, TTypeOK, avars
<1>3. QED
  BY <1>1, <1>2, NewEventfdType, EnterLoopInv

\* find_empty_cache_slot: the array may grow.
LEMMA PickSlotInv ==
  ASSUME ThreadInv, NEW t \in Stack, PickSlot(t)
  PROVE  ThreadInv'
<1> DEFINE more == [i \in 1 .. AllocInc |-> NoStack]
           n == IF FindEmptySlot = NoSlot THEN Len(wlcache) + 1 ELSE FindEmptySlot
<1>1. TTypeOK /\ pc[t] = "register" /\ watch[t] \in Stack
  BY DEF ThreadInv, Started, PickSlot
<1>2. more \in Seq(Stack \cup {NoStack})
  BY AllocAssumption
<1>3. FindEmptySlot \in 0 .. Len(wlcache) /\ wlcache \in Seq(Stack \cup {NoStack})
  BY <1>1, FindEmptySlotType DEF TTypeOK
<1>4. n \in Nat
  BY <1>3
<1>5. /\ pc' = [pc EXCEPT ![t] = "put"]
      /\ struct' = [struct EXCEPT ![watch[t]] = NewEventfd(t)]
      /\ local' = [local EXCEPT ![t].pick = n]
      /\ UNCHANGED <<key, watch, walker, churn, asked, robbed>>
  BY DEF PickSlot, W, avars
<1>6. wlcache' = IF FindEmptySlot = NoSlot THEN wlcache \o more ELSE wlcache
  BY DEF PickSlot
<1> HIDE DEF more, n
<1>7. wlcache' \in Seq(Stack \cup {NoStack})
  BY <1>2, <1>3, <1>6
<1>8. local' \in [Stack -> Local]
  <2>1. ASSUME NEW r \in Local PROVE [r EXCEPT !.pick = n] \in Local
    BY <1>4 DEF Local
  <2>2. local \in [Stack -> Local]
    BY <1>1 DEF TTypeOK
  <2>3. QED
    BY <1>5, <2>1, <2>2
<1>9. QED
  BY <1>1, <1>5, <1>7, <1>8, NewEventfdType, FrameInv DEF TTypeOK, PC

\* add_watch_to_cache
LEMMA PutInv ==
  ASSUME ThreadInv, NEW t \in Stack, Put(t)
  PROVE  ThreadInv'
<1> DEFINE n == local[t].pick
           x == [struct[watch[t]] EXCEPT !.slot = n]
<1>1. TTypeOK /\ pc[t] = "put" /\ watch[t] \in Stack
  BY DEF ThreadInv, Started, Put
<1>2. struct[watch[t]] \in Struct /\ n \in Nat
  BY <1>1 DEF TTypeOK, Local
<1>3. EnterLoop(t, x) /\ wlcache' = [wlcache EXCEPT ![n] = watch[t]]
      /\ UNCHANGED <<key, watch, walker, churn, asked, robbed>>
  BY Zenon DEF Put, W, avars
<1> HIDE DEF n
<1>4. x \in Struct /\ x.key = struct[watch[t]].key
  BY <1>2, StructFields, Zenon
<1> HIDE DEF x
<1>5. wlcache' \in Seq(Stack \cup {NoStack})
  <2>1. wlcache \in Seq(Stack \cup {NoStack}) /\ Len(wlcache) \in Nat
    BY <1>1 DEF TTypeOK
  <2>2. wlcache \in [1 .. Len(wlcache) -> Stack \cup {NoStack}]
    BY <2>1
  <2>3. wlcache' \in [1 .. Len(wlcache) -> Stack \cup {NoStack}]
    BY <1>1, <1>3, <2>2, Zenon
  <2>4. QED
    BY <2>1, <2>3
<1>6. QED
  BY <1>1, <1>3, <1>4, <1>5, EnterLoopInv

\* The loop reads its eventfd.
LEMMA ReadEventfdInv ==
  ASSUME ThreadInv, NEW t \in Stack, ReadEventfd(t)
  PROVE  ThreadInv'
<1> DEFINE x == [struct[watch[t]] EXCEPT !.evt = 0]
<1>1. TTypeOK /\ pc[t] = "loop" /\ watch[t] \in Stack
  BY DEF ThreadInv, Started, ReadEventfd, KillPending
<1>2. struct[watch[t]] \in Struct /\ pc \in [Stack -> PC]
  BY <1>1 DEF TTypeOK
<1>3. struct' = [struct EXCEPT ![watch[t]] = x]
  BY Zenon DEF ReadEventfd, W
<1>4. ASSUME NEW r \in Struct
      PROVE  [r EXCEPT !.evt = 0] \in Struct /\ [r EXCEPT !.evt = 0].key = r.key
  BY StructFields
<1>5. x \in Struct /\ x.key = struct[watch[t]].key
  BY <1>2, <1>4, Zenon
<1> HIDE DEF x
<1>6. struct' \in [Stack -> Struct]
  BY <1>1, <1>3, <1>5, OneStruct
<1>7. /\ UNCHANGED <<key, watch, wlcache, walker, churn, asked, robbed>>
      /\ \/ pc' = [pc EXCEPT ![t] = "out"] /\ local' = local
         \/ pc' = pc /\ BackToLoop(t)
  BY DEF ReadEventfd, avars
<1>8. local' \in [Stack -> Local]
  BY <1>1, <1>6, <1>7, BackToLoopType DEF TTypeOK
<1>9. PICK q \in {"loop", "out"} : pc' = [pc EXCEPT ![t] = q]
  BY <1>1, <1>2, <1>7
<1>10. QED
  BY <1>1, <1>3, <1>5, <1>7, <1>8, <1>9, FrameInv DEF TTypeOK, PC

\* A directory was created.
LEMMA RewalkInv ==
  ASSUME ThreadInv, NEW t \in Stack, Rewalk(t)
  PROVE  ThreadInv'
<1> DEFINE x == [struct[watch[t]] EXCEPT !.paths = {}]
<1>1. TTypeOK /\ pc[t] = "loop" /\ watch[t] \in Stack
  BY DEF ThreadInv, Started, Rewalk, Event
<1>2. struct[watch[t]] \in Struct /\ {} \in SUBSET Key
  BY <1>1 DEF TTypeOK
<1>3. struct' = [struct EXCEPT ![watch[t]] = x]
  BY Zenon DEF Rewalk, W
<1>4. x \in Struct /\ x.key = struct[watch[t]].key
  BY <1>2, StructFields, Zenon
<1> HIDE DEF x
<1>5. /\ pc' = [pc EXCEPT ![t] = "walk"]
      /\ local' = [local EXCEPT ![t].caller = "rewalk"]
      /\ UNCHANGED <<key, watch, wlcache, walker, asked, robbed>>
      /\ churn > 0 /\ churn' = churn - 1
  BY DEF Rewalk, Event, avars
<1>6. local' \in [Stack -> Local]
  <2>1. ASSUME NEW r \in Local PROVE [r EXCEPT !.caller = "rewalk"] \in Local
    BY DEF Local
  <2>2. local \in [Stack -> Local]
    BY <1>1 DEF TTypeOK
  <2>3. QED
    BY <1>5, <2>1, <2>2
<1>7. churn' \in Nat
  BY <1>1, <1>5 DEF TTypeOK
<1>8. QED
  BY <1>1, <1>3, <1>4, <1>5, <1>6, <1>7, FrameInv DEF TTypeOK, PC

\* A rebuild.
LEMMA RebuildInv ==
  ASSUME ThreadInv, NEW t \in Stack, Rebuild(t)
  PROVE  ThreadInv'
<1> DEFINE rebuild == struct[watch[t]].slot # NoSlot
           x == IF rebuild THEN ClearWatch(watch[t]) ELSE struct[watch[t]]
<1>1. TTypeOK /\ pc[t] = "rebuild" /\ watch[t] \in Stack
  BY DEF ThreadInv, Started, Rebuild
<1>2. struct[watch[t]] \in Struct
  BY <1>1 DEF TTypeOK
<1>3. x \in Struct /\ x.key = struct[watch[t]].key
  BY <1>1, <1>2, StructTypes
<1>4. /\ pc' = [pc EXCEPT ![t] = "walk"]
      /\ local' = [local EXCEPT ![t].caller = "rebuild", ![t].rebuild = rebuild]
      /\ struct' = [struct EXCEPT ![watch[t]] = x]
      /\ UNCHANGED <<key, watch, wlcache, walker, churn, asked, robbed>>
  BY Zenon DEF Rebuild, W, avars
<1>5. rebuild \in BOOLEAN
  OBVIOUS
<1> HIDE DEF rebuild, x
<1>6. local' \in [Stack -> Local]
  <2>1. local \in [Stack -> Local]
    BY <1>1 DEF TTypeOK
  <2>2. ASSUME NEW r \in Local PROVE [r EXCEPT !.caller = "rebuild"] \in Local
    BY DEF Local
  <2>3. ASSUME NEW r \in Local PROVE [r EXCEPT !.rebuild = rebuild] \in Local
    BY <1>5 DEF Local
  <2>4. PICK f : f = [local EXCEPT ![t].caller = "rebuild"]
    OBVIOUS
  <2>5. f \in [Stack -> Local]
    BY <2>1, <2>2, <2>4
  <2>6. local' = [f EXCEPT ![t].rebuild = rebuild]
    BY <1>4, <2>4
  <2>7. QED
    BY <2>3, <2>5, <2>6
<1>7. churn' \in Nat
  BY <1>1, <1>4 DEF TTypeOK
<1>8. QED
  BY <1>1, <1>3, <1>4, <1>6, <1>7, FrameInv DEF TTypeOK, PC

\* The end of start_inotify_watcher.
LEMMA OutInv ==
  ASSUME ThreadInv, NEW t \in Stack, Out(t)
  PROVE  ThreadInv'
<1> DEFINE y == IF struct[watch[t]].slot # NoSlot THEN ClearWatch(watch[t]) ELSE struct[watch[t]]
           x == [y EXCEPT !.evt = Closed, !.pollers = {}, !.efd = NoStack]
<1>1. TTypeOK /\ pc[t] = "out" /\ watch[t] \in Stack
  BY DEF ThreadInv, Started, Out
<1>2. struct[watch[t]] \in Struct /\ {} \in SUBSET Stack
  BY <1>1 DEF TTypeOK
<1>3. ASSUME NEW r \in Struct
      PROVE  /\ [r EXCEPT !.evt = Closed, !.pollers = {}, !.efd = NoStack] \in Struct
             /\ [r EXCEPT !.evt = Closed, !.pollers = {}, !.efd = NoStack].key = r.key
  BY <1>2, StructEpollFields
<1>4. y \in Struct /\ y.key = struct[watch[t]].key
  BY <1>1, <1>2, StructTypes
<1>5. struct' = [struct EXCEPT ![watch[t]] = x]
  BY Zenon DEF Out, W
<1> HIDE DEF y
<1>6. x \in Struct /\ x.key = struct[watch[t]].key
  BY <1>3, <1>4, Zenon
<1> HIDE DEF x
<1>7. /\ pc' = [pc EXCEPT ![t] = "ended"]
      /\ local' = [local EXCEPT ![t] = NoLocal]
      /\ UNCHANGED <<key, watch, wlcache, walker, churn, asked>>
  BY DEF Out
<1>8. local' \in [Stack -> Local]
  BY <1>1, <1>7, StructTypes DEF TTypeOK
<1>9. robbed' \subseteq Pid
  <2>1. ASSUME NEW u \in Users(W(t)) PROVE key[u][1] \in Pid
    BY DEF Users, Live, ThreadInv, Started, Key
  <2>2. robbed \subseteq Pid
    BY <1>1 DEF TTypeOK
  <2>3. QED
    BY <2>1, <2>2 DEF Out
<1>10. QED
  BY <1>1, <1>5, <1>6, <1>7, <1>8, <1>9, FrameInv DEF TTypeOK, PC

\* A directory or a root was moved, or a descriptor is not found.
LEMMA EventInv ==
  ASSUME ThreadInv, NEW t \in Stack, Removal(t) \/ Follow(t) \/ Inconsistent(t)
  PROVE  ThreadInv'
<1>1. TTypeOK /\ pc[t] = "loop" /\ watch[t] \in Stack
  BY DEF ThreadInv, Started, Removal, Follow, Inconsistent, Event
<1>2. /\ UNCHANGED <<key, watch, local, struct, wlcache, asked, robbed>>
      /\ churn > 0 /\ churn' = churn - 1
      /\ walker' \in {walker, t}
  BY DEF Removal, Follow, Inconsistent, Event, avars
<1>3. PICK q \in {"remove", "rebuild"} : pc' = [pc EXCEPT ![t] = q]
  BY DEF Removal, Follow, Inconsistent
<1>4. TTypeOK'
  BY <1>1, <1>2, <1>3 DEF TTypeOK, PC
<1>5. ASSUME NEW u \in Stack PROVE Started(u)'
  BY <1>1, <1>2, <1>3 DEF ThreadInv, Started, TTypeOK
<1>6. QED
  BY <1>1, <1>2, <1>4, <1>5 DEF ThreadInv

\* remove_subtree
LEMMA RemoveInv ==
  ASSUME ThreadInv, NEW t \in Stack, RemoveEntry(t) \/ RemoveDone(t) \/ RemoveFailed(t)
  PROVE  ThreadInv'
<1>1. TTypeOK /\ pc[t] = "remove" /\ watch[t] \in Stack /\ pc \in [Stack -> PC]
  BY DEF ThreadInv, Started, RemoveEntry, RemoveDone, RemoveFailed, TTypeOK
<1>2. /\ UNCHANGED <<key, watch, struct, walker, churn, asked, robbed>>
      /\ BackToLoop(t) \/ local' = local
  BY DEF RemoveEntry, RemoveDone, RemoveFailed, avars
<1>3. local' \in [Stack -> Local] /\ churn' \in Nat
  BY <1>1, <1>2, BackToLoopType DEF TTypeOK
<1>4. wlcache' \in Seq(Stack \cup {NoStack})
  <2>1. CASE wlcache' = wlcache
    BY <1>1, <2>1 DEF TTypeOK
  <2>2. CASE RemoveEntry(t)
    <3>1. PICK i \in DOMAIN wlcache : wlcache' = [wlcache EXCEPT ![i] = NoStack]
      BY <2>2 DEF RemoveEntry
    <3>2. QED
      BY <1>1, <3>1, SlotType
  <2>3. QED
    BY <2>1, <2>2 DEF RemoveDone, RemoveFailed
<1>5. PICK q \in {"remove", "loop", "rebuild"} : pc' = [pc EXCEPT ![t] = q]
  BY <1>1 DEF RemoveEntry, RemoveDone, RemoveFailed
<1>6. QED
  BY <1>1, <1>2, <1>3, <1>4, <1>5, CalmInv DEF PC

\* The epoll instance is gone.
LEMMA EpollClosedInv ==
  ASSUME ThreadInv, NEW t \in Stack, EpollClosed(t)
  PROVE  ThreadInv'
<1>1. TTypeOK /\ pc[t] = "loop" /\ watch[t] \in Stack
  BY DEF ThreadInv, Started, EpollClosed
<1>2. /\ pc' = [pc EXCEPT ![t] = "out"]
      /\ UNCHANGED <<key, watch, local, struct, wlcache, walker, churn, asked, robbed>>
  BY DEF EpollClosed, avars
<1>3. TTypeOK'
  BY <1>1, <1>2 DEF TTypeOK, PC
<1>4. ASSUME NEW u \in Stack PROVE Started(u)'
  BY <1>1, <1>2 DEF ThreadInv, Started, TTypeOK
<1>5. QED
  BY <1>2, <1>3, <1>4 DEF ThreadInv

\* Every step of a thread that an event of the container does not start.
LEMMA StepInv ==
  ASSUME ThreadInv, NEW t \in Stack, Step(t)
  PROVE  ThreadInv'
BY BeginInv, WalkInv, VisitInv, PutBackInv, AlreadyCachedInv, PickSlotInv, PutInv,
   RemoveInv, RebuildInv, ReadEventfdInv, OutInv DEF Step

\* A kill adds to the eventfds, as often as the struct is in wlcache.
LEMMA SendKillInv ==
  ASSUME ThreadInv, NEW p, SendKill(p)
  PROVE  ThreadInv'
<1> DEFINE n(s) == Cardinality({i \in DOMAIN wlcache : wlcache[i] = s})
           x(s) == [struct[s] EXCEPT !.evt = struct[s].evt + n(s)]
           y(s) == IF struct[s].key # NoKey /\ struct[s].key[1] = p /\ struct[s].evt # Closed
                   THEN x(s) ELSE struct[s]
<1>1. /\ TTypeOK /\ UNCHANGED <<pc, key, watch, local, wlcache, walker, churn, robbed>>
      /\ wlcache \in Seq(Stack \cup {NoStack})
  BY DEF ThreadInv, TTypeOK, SendKill
<1>2. ASSUME NEW s PROVE n(s) \in Nat
  <2>1. Len(wlcache) \in Nat /\ DOMAIN wlcache = 1 .. Len(wlcache)
    BY <1>1
  <2>2. IsFiniteSet(1 .. Len(wlcache))
    BY <2>1, FS_Interval
  <2>3. {i \in DOMAIN wlcache : wlcache[i] = s} \subseteq 1 .. Len(wlcache)
    BY <2>1
  <2>4. QED
    BY <2>2, <2>3, FS_Subset, FS_CardinalityType
<1>3. struct' = [s \in Stack |-> y(s)]
  BY Zenon DEF SendKill, OfPid
<1>7. asked' \in [Stack -> BOOLEAN]
  BY <1>1, Zenon DEF SendKill, TTypeOK
<1> HIDE DEF n
<1>4. ASSUME NEW s \in Stack PROVE y(s) \in Struct /\ y(s).key = struct[s].key
  <2>1. struct[s] \in Struct
    BY <1>1 DEF TTypeOK
  <2>2. CASE struct[s].evt = Closed
    BY <2>1, <2>2
  <2>3. CASE struct[s].evt # Closed
    <3>1. struct[s].evt + n(s) \in Nat \cup {Closed}
      BY <1>2, <2>1, <2>3 DEF Struct
    <3>2. x(s) \in Struct /\ x(s).key = struct[s].key
      BY <2>1, <3>1, StructFields, Zenon
    <3> HIDE DEF x
    <3>3. QED
      BY <2>1, <3>2
  <2>4. QED
    BY <2>2, <2>3
<1> HIDE DEF y
<1>5. /\ struct' \in [Stack -> Struct]
      /\ \A s \in Stack : struct'[s].key = struct[s].key
  BY <1>3, <1>4
<1>6. QED
  BY <1>1, <1>5, <1>7 DEF ThreadInv, TTypeOK, Started

\* std::thread
LEMMA SpawnInv ==
  ASSUME ThreadInv, NEW t, NEW k \in Key, Spawn(t, k)
  PROVE  ThreadInv' /\ t \in Stack
<1>1. t \in Stack
  <2>1. t \in StackFor
    BY DEF Spawn
  <2> DEFINE unused == {s \in Stack : key[s] = NoKey}
  <2>2. unused # {} => Min(unused) \in unused
    BY MinNat DEF Stack
  <2>3. QED
    BY <2>1, <2>2 DEF StackFor
<1>2. /\ TTypeOK /\ pc' = [pc EXCEPT ![t] = "begin"] /\ key' = [key EXCEPT ![t] = k]
      /\ asked' = [asked EXCEPT ![t] = FALSE]
      /\ UNCHANGED <<watch, local, struct, wlcache, walker, churn, robbed>>
  BY DEF Spawn, ThreadInv
<1>3. TTypeOK'
  BY <1>1, <1>2 DEF TTypeOK, PC
<1>4. ASSUME NEW u \in Stack PROVE Started(u)'
  BY <1>1, <1>2 DEF ThreadInv, Started, TTypeOK
<1>5. QED
  BY <1>1, <1>2, <1>3, <1>4 DEF ThreadInv

----------------------------------------------------------------------------
(* The steps of the handlers                                                *)

\* findArgusdWatcherByPids returns a handle or none.
LEMMA FindWatcherType ==
  ASSUME ITypeOK, NEW pids
  PROVE  FindWatcher(pids) \in Seq(Pid)
<1> DEFINE I == {i \in 1 .. Len(watchers) : pids # <<>> /\ Last(pids) \in Range(watchers[i])}
           n == IF I # {} THEN Min(I) ELSE 0
<1>1. FindWatcher(pids) = IF n = 0 THEN NoHandle ELSE watchers[n]
  BY DEF FindWatcher, SelectInSeq
<1>2. watchers \in Seq(Seq(Pid)) /\ Len(watchers) \in Nat /\ I \subseteq 1 .. Len(watchers)
  BY DEF ITypeOK
<1> HIDE DEF I
<1>3. n \in 0 .. Len(watchers)
  BY <1>2, MinOrZero, Zenon
<1> HIDE DEF n
<1>4. QED
  BY <1>1, <1>2, <1>3 DEF NoHandle

\* A step of a handler or of a call, by which no flag of doneMap_ goes away.
LEMMA OpFrame ==
  ASSUME HandlerInv, NEW c \in Caller, NEW o \in Op, op' = [op EXCEPT ![c] = o],
         watchers' \in Seq(Seq(Pid)), DOMAIN doneMap' \subseteq Pid,
         doneMap' \in [DOMAIN doneMap' -> BOOLEAN],
         DOMAIN doneMap \subseteq DOMAIN doneMap',
         subjectLen' \in [Stack -> Nat], calls' \in Nat, contested' \subseteq Pid,
         InCall(o, DOMAIN doneMap')
  PROVE  HandlerInv'
<1>1. op \in [Caller -> Op]
  BY DEF HandlerInv, ITypeOK
<1>2. ITypeOK'
  BY <1>1 DEF ITypeOK
<1>3. ASSUME NEW u \in Caller PROVE InCall(op'[u], DOMAIN doneMap')
  <2>1. CASE u = c
    BY <1>1, <2>1
  <2>2. CASE u # c
    BY <1>1, <2>2 DEF HandlerInv, InCall
  <2>3. QED
    BY <2>1, <2>2
<1>4. QED
  BY <1>2, <1>3 DEF HandlerInv

\* The same, for a step that changes nothing but the call record.
LEMMA OpOnly ==
  ASSUME HandlerInv, NEW c \in Caller, NEW o \in Op, op' = [op EXCEPT ![c] = o],
         UNCHANGED <<watchers, doneMap, subjectLen>>, calls' \in Nat, contested' \subseteq Pid,
         InCall(o, DOMAIN doneMap)
  PROVE  HandlerInv'
<1>1. /\ watchers' = watchers /\ doneMap' = doneMap /\ subjectLen' = subjectLen
      /\ watchers \in Seq(Seq(Pid)) /\ DOMAIN doneMap \subseteq Pid
      /\ doneMap \in [DOMAIN doneMap -> BOOLEAN] /\ subjectLen \in [Stack -> Nat]
  BY DEF HandlerInv, ITypeOK
<1>2. InCall(o, DOMAIN doneMap')
  BY <1>1, Zenon
<1>3. QED
  BY <1>1, <1>2, OpFrame

\* The call record of a thread that serves none.
LEMMA IdleType == Idle \in Op /\ \A D : InCall(Idle, D)
<1>1. <<>> \in Seq(Pid)
  OBVIOUS
<1>2. QED
  BY <1>1 DEF Idle, Op, InCall, NoHandle

\* CreateWatch up to its first effect
LEMMA CreateWatchInv ==
  ASSUME DInv, NEW c \in Caller, NEW r \in Requests, CreateWatch(c, r)
  PROVE  DInv'
<1> DEFINE h == FindWatcher(r.pids)
           o == [at |-> IF h = NoHandle THEN "start" ELSE "kill", req |-> r,
                 kill |-> h, start |-> r.pids, sid |-> 0, found |-> h]
           q == IF r.pids = <<>> THEN Idle ELSE o
<1>1. ThreadInv /\ HandlerInv /\ ITypeOK
  BY DEF DInv, HandlerInv
<1>2. /\ UNCHANGED <<tvars, watchers, doneMap, subjectLen>>
      /\ calls > 0 /\ calls' = calls - 1
      /\ contested' = contested \cup (Range(r.pids) \cap Busy)
      /\ op' = [op EXCEPT ![c] = q]
  BY Zenon DEF CreateWatch, Call
<1>3. h \in Seq(Pid) /\ r.pids \in Seq(Pid) /\ r.subjects \in Nat \ {0}
      /\ r \in [pids : Seq(Pid), subjects : Nat]
  BY <1>1, FindWatcherType, RequestAssumption
<1> HIDE DEF h
<1>4. o \in Op
  BY <1>3 DEF Op
<1>5. r.pids # <<>> => InCall(o, DOMAIN doneMap)
  BY <1>3 DEF InCall, NoHandle
<1> HIDE DEF o
<1>6. q \in Op /\ InCall(q, DOMAIN doneMap)
  BY <1>4, <1>5, IdleType
<1> HIDE DEF q
<1>7. HandlerInv'
  <2>1. calls' \in Nat
    BY <1>1, <1>2 DEF ITypeOK
  <2>2. contested' \subseteq Pid
    BY <1>1, <1>2, <1>3 DEF ITypeOK, Range
  <2>3. QED
    BY <1>1, <1>2, <1>6, <2>1, <2>2, OpOnly
<1>8. ThreadInv'
  BY <1>1, <1>2 DEF ThreadInv, TTypeOK, Started, tvars
<1>9. QED
  BY <1>7, <1>8 DEF DInv

\* DestroyWatch up to its first effect
LEMMA DestroyWatchInv ==
  ASSUME DInv, NEW c \in Caller, NEW r \in Requests, DestroyWatch(c, r)
  PROVE  DInv'
<1> DEFINE h == FindWatcher(r.pids)
           o == [at |-> IF h = NoHandle THEN "erase" ELSE "kill", req |-> r,
                 kill |-> h, start |-> <<>>, sid |-> 0, found |-> h]
<1>1. ThreadInv /\ HandlerInv /\ ITypeOK
  BY DEF DInv, HandlerInv
<1>2. /\ UNCHANGED <<tvars, watchers, doneMap, subjectLen>>
      /\ calls > 0 /\ calls' = calls - 1
      /\ contested' = contested \cup (Range(r.pids) \cap Busy)
      /\ op' = [op EXCEPT ![c] = o]
  BY Zenon DEF DestroyWatch, Call
<1>3. /\ h \in Seq(Pid) /\ r.subjects \in Nat \ {0} /\ <<>> \in Seq(Pid)
      /\ r \in [pids : Seq(Pid), subjects : Nat]
  BY <1>1, FindWatcherType, RequestAssumption
<1> HIDE DEF h
<1>4. o \in Op
  BY <1>3 DEF Op
<1>5. InCall(o, DOMAIN doneMap)
  BY <1>3 DEF InCall, NoHandle
<1> HIDE DEF o
<1>6. HandlerInv'
  <2>1. calls' \in Nat
    BY <1>1, <1>2 DEF ITypeOK
  <2>2. contested' \subseteq Pid
    BY <1>1, <1>2, <1>3, RequestAssumption DEF ITypeOK, Range
  <2>3. QED
    BY <1>1, <1>2, <1>4, <1>5, <2>1, <2>2, OpOnly
<1>7. ThreadInv'
  BY <1>1, <1>2 DEF ThreadInv, TTypeOK, Started, tvars
<1>8. QED
  BY <1>6, <1>7 DEF DInv

\* What is left of a list of pids after the first.
LEMMA TailOfPids ==
  ASSUME NEW q \in Seq(Pid), q # <<>>
  PROVE  Tail(q) \in Seq(Pid) /\ (Len(q) # 1 => Tail(q) # <<>>)
<1> DEFINE r == Tail(q)
<1>1. Len(q) \in Nat /\ r \in Seq(Pid) /\ Len(r) = Len(q) - 1
  BY HeadTailProperties
<1> HIDE DEF r
<1>2. r = <<>> => Len(r) = 0
  BY <1>1, EmptySeq
<1>3. r \in Seq(Pid) /\ (Len(q) # 1 => r # <<>>)
  BY <1>1, <1>2
<1>4. QED
  BY <1>3 DEF r

\* sendKillSignalToWatcher for one pid
LEMMA KillNextInv ==
  ASSUME DInv, NEW c \in Caller, KillNext(c)
  PROVE  DInv'
<1> DEFINE a == IF Len(op[c].kill) > 1 THEN "kill"
                ELSE IF op[c].start = <<>> THEN "erase" ELSE "wait"
           o == [op[c] EXCEPT !.kill = Tail(op[c].kill), !.at = a]
<1>1. ThreadInv /\ HandlerInv /\ ITypeOK /\ op[c] \in Op /\ InCall(op[c], DOMAIN doneMap)
  BY DEF DInv, HandlerInv, ITypeOK
<1>2. /\ op[c].at = "kill" /\ SendKill(Head(op[c].kill))
      /\ UNCHANGED <<watchers, doneMap, subjectLen, calls, contested>>
  BY DEF KillNext
<1>3. op' = [op EXCEPT ![c] = o]
  BY <1>1 DEF KillNext, ITypeOK
<1>4. /\ op[c].kill \in Seq(Pid) /\ op[c].kill # <<>>
      /\ op[c].start \in Seq(Pid) /\ op[c].req \in Requests
  BY <1>1, <1>2 DEF Op, InCall
<1>5. /\ Tail(op[c].kill) \in Seq(Pid)
      /\ Len(op[c].kill) # 1 => Tail(op[c].kill) # <<>>
  BY <1>4, TailOfPids, Zenon
<1>6. a \in {"kill", "wait", "erase"} /\ (a = "wait" => op[c].start # <<>>)
      /\ (a = "kill" => Len(op[c].kill) # 1)
  <2>1. PICK n \in Nat : n = Len(op[c].kill)
    BY <1>4, LenProperties
  <2>2. n > 1 => n # 1
    OBVIOUS
  <2>3. Len(op[c].kill) > 1 => Len(op[c].kill) # 1
    BY <2>1, <2>2, Zenon
  <2>4. QED
    BY <2>3
<1> HIDE DEF a
<1>7. o \in Op /\ o.at = a /\ o.kill = Tail(op[c].kill) /\ o.start = op[c].start
      /\ o.req = op[c].req /\ o.sid = op[c].sid
  BY <1>1, <1>5, <1>6 DEF Op
<1> HIDE DEF o
<1>8. InCall(o, DOMAIN doneMap)
  BY <1>1, <1>2, <1>5, <1>6, <1>7 DEF InCall
<1>9. HandlerInv'
  <2>1. calls' \in Nat /\ contested' \subseteq Pid
    BY <1>1, <1>2 DEF ITypeOK
  <2>2. QED
    BY <1>1, <1>2, <1>3, <1>7, <1>8, <2>1, OpOnly
<1>10. QED
  BY <1>1, <1>2, <1>9, SendKillInv DEF DInv

\* The end of the wait of CreateWatch, by the flags or by the clock
LEMMA WaitInv ==
  ASSUME DInv, NEW c \in Caller, WaitDone(c) \/ WaitTimeout(c)
  PROVE  DInv'
<1> DEFINE o == [op[c] EXCEPT !.at = "start"]
<1>1. ThreadInv /\ HandlerInv /\ ITypeOK /\ op[c] \in Op /\ InCall(op[c], DOMAIN doneMap)
  BY DEF DInv, HandlerInv, ITypeOK
<1>2. op[c].at = "wait" /\ UNCHANGED <<tvars, watchers, doneMap, subjectLen, calls, contested>>
  BY DEF WaitDone, WaitTimeout
<1>3. op' = [op EXCEPT ![c] = o]
  BY <1>1 DEF WaitDone, WaitTimeout, ITypeOK
<1>4. /\ o \in Op /\ o.at = "start" /\ o.start = op[c].start
      /\ o.req = op[c].req /\ o.sid = op[c].sid
  BY <1>1 DEF Op
<1> HIDE DEF o
<1>5. InCall(o, DOMAIN doneMap)
  BY <1>1, <1>2, <1>4 DEF InCall
<1>6. HandlerInv'
  <2>1. calls' \in Nat /\ contested' \subseteq Pid
    BY <1>1, <1>2 DEF ITypeOK
  <2>2. QED
    BY <1>1, <1>2, <1>3, <1>4, <1>5, <2>1, OpOnly
<1>7. ThreadInv'
  BY <1>1, <1>2 DEF ThreadInv, TTypeOK, Started, tvars
<1>8. QED
  BY <1>6, <1>7 DEF DInv

\* createInotifyWatcher for one pid and one subject: the flag of the pid is there
\* when its second subject is started.
LEMMA StartNextInv ==
  ASSUME DInv, NEW c \in Caller, StartNext(c)
  PROVE  DInv'
<1> DEFINE p == Head(op[c].start)
           i == op[c].sid
           last == i + 1 = op[c].req.subjects
           j == IF last THEN 0 ELSE i + 1
           st == IF last THEN Tail(op[c].start) ELSE op[c].start
           a == IF last /\ Len(op[c].start) = 1 THEN "push" ELSE "start"
           o == [op[c] EXCEPT !.sid = j, !.start = st, !.at = a]
<1>1. ThreadInv /\ HandlerInv /\ ITypeOK /\ op[c] \in Op /\ InCall(op[c], DOMAIN doneMap)
  BY DEF DInv, HandlerInv, ITypeOK
<1>2. /\ op[c].at = "start" /\ op[c].start # <<>> /\ op[c].start \in Seq(Pid)
      /\ op[c].req \in Requests /\ i \in 0 .. op[c].req.subjects - 1
      /\ i > 0 => p \in DOMAIN doneMap
  BY <1>1 DEF StartNext, InCall, Op
<1>3. p \in Pid /\ op[c].req.subjects \in Nat /\ <<p, i>> \in Key
  BY <1>2, RequestAssumption DEF Key
<1>4. PICK t \in StackFor :
        /\ Spawn(t, <<p, i>>)
        /\ subjectLen' = [subjectLen EXCEPT ![t] = op[c].req.subjects]
  BY DEF StartNext
<1>5. doneMap' = ResetDone(<<p, i>>) /\ UNCHANGED <<watchers, calls, contested>>
  BY DEF StartNext
<1>6. op' = [op EXCEPT ![c] = o]
  BY <1>1 DEF StartNext, ITypeOK
<1>7. ThreadInv'
  BY <1>1, <1>3, <1>4, SpawnInv
<1>8. subjectLen' \in [Stack -> Nat]
  BY <1>1, <1>3, <1>4 DEF ITypeOK
<1>9. /\ DOMAIN doneMap' = DOMAIN doneMap \cup {p}
      /\ doneMap' \in [DOMAIN doneMap' -> BOOLEAN]
  <2>1. /\ doneMap' = [q \in DOMAIN doneMap \cup {p} |->
                         IF q = p /\ i = 0 THEN FALSE ELSE doneMap[q]]
    BY <1>5 DEF ResetDone
  <2>2. ASSUME NEW q \in DOMAIN doneMap \cup {p}, ~(q = p /\ i = 0)
        PROVE  doneMap[q] \in BOOLEAN
    <3>1. q \in DOMAIN doneMap
      BY <1>2, <2>2
    <3>2. doneMap \in [DOMAIN doneMap -> BOOLEAN]
      BY <1>1 DEF ITypeOK
    <3>3. QED
      BY <3>1, <3>2, Zenon
  <2>3. QED
    BY <2>1, <2>2, Zenon
<1>10. j \in Nat /\ st \in Seq(Pid) /\ a \in {"push", "start"}
  BY <1>2, <1>3
<1>11. a = "start" => /\ st # <<>>
                      /\ j \in 0 .. op[c].req.subjects - 1
                      /\ j > 0 => Head(st) = p
  <2>1. ASSUME a = "start" PROVE st # <<>>
    BY <1>2, <2>1, TailOfPids
  <2>2. j \in 0 .. op[c].req.subjects - 1
    BY <1>2, <1>3
  <2>3. j > 0 => Head(st) = p
    OBVIOUS
  <2>4. QED
    BY <2>1, <2>2, <2>3
<1> HIDE DEF j, st, a
<1>12. o \in Op /\ o.at = a /\ o.start = st /\ o.sid = j /\ o.req = op[c].req
  BY <1>1, <1>10 DEF Op
<1> HIDE DEF o
<1>13. InCall(o, DOMAIN doneMap')
  BY <1>2, <1>9, <1>10, <1>11, <1>12 DEF InCall
<1>14. HandlerInv'
  <2>1. /\ watchers' \in Seq(Seq(Pid)) /\ calls' \in Nat /\ DOMAIN doneMap \subseteq Pid
        /\ contested' \subseteq Pid
    BY <1>1, <1>5 DEF ITypeOK
  <2>2. DOMAIN doneMap' \subseteq Pid /\ DOMAIN doneMap \subseteq DOMAIN doneMap'
    BY <1>3, <1>9, <2>1
  <2>3. QED
    BY <1>1, <1>6, <1>8, <1>9, <1>12, <1>13, <2>1, <2>2, OpFrame
<1>15. QED
  BY <1>7, <1>14 DEF DInv

\* The end of CreateWatch and of DestroyWatch
LEMMA ReturnInv ==
  ASSUME DInv, NEW c \in Caller, Push(c) \/ Erase(c)
  PROVE  DInv'
<1>1. ThreadInv /\ HandlerInv /\ ITypeOK /\ op[c] \in Op
  BY DEF DInv, HandlerInv, ITypeOK
<1>2. UNCHANGED <<tvars, doneMap, subjectLen, calls, contested>> /\ op' = [op EXCEPT ![c] = Idle]
  BY DEF Push, Erase
<1>3. watchers \in Seq(Seq(Pid)) /\ op[c].req.pids \in Seq(Pid)
  BY <1>1 DEF ITypeOK, Op
<1>4. watchers' \in Seq(Seq(Pid))
  <2>1. CASE Push(c)
    BY <1>3, <2>1 DEF Push, Stored
  <2>2. CASE Erase(c)
    <3> DEFINE h == op[c].found
               I == {i \in 1 .. Len(watchers) : watchers[i] = h}
               n == IF I # {} THEN Min(I) ELSE 0
    <3>1. watchers' = IF \E i \in 1 .. Len(watchers) : watchers[i] = h
                      THEN SubSeq(watchers, 1, n - 1) \o SubSeq(watchers, n + 1, Len(watchers))
                      ELSE watchers
      BY <2>2 DEF Erase, RemoveFirst, RemoveAt, SelectInSeq
    <3>2. Len(watchers) \in Nat /\ I \subseteq 1 .. Len(watchers)
      BY <1>3
    <3>3. (\E i \in 1 .. Len(watchers) : watchers[i] = h) => I # {}
      OBVIOUS
    <3> HIDE DEF I
    <3>4. n \in 0 .. Len(watchers) /\ (n = 0 => I = {})
      BY <3>2, MinOrZero, Zenon
    <3> HIDE DEF n
    <3>5. CASE n = 0
      BY <1>3, <3>1, <3>3, <3>4, <3>5
    <3>6. CASE n # 0
      <4>1. n \in 1 .. Len(watchers)
        BY <3>2, <3>4, <3>6
      <4>2. /\ SubSeq(watchers, 1, n - 1) \in Seq(Seq(Pid))
            /\ SubSeq(watchers, n + 1, Len(watchers)) \in Seq(Seq(Pid))
        BY <1>3, <3>2, <4>1
      <4>3. QED
        BY <1>3, <3>1, <4>2
    <3>7. QED
      BY <3>5, <3>6
  <2>3. QED
    BY <2>1, <2>2
<1>5. /\ doneMap' = doneMap /\ subjectLen' = subjectLen /\ calls' = calls
      /\ contested' = contested /\ contested \subseteq Pid
      /\ DOMAIN doneMap \subseteq Pid /\ doneMap \in [DOMAIN doneMap -> BOOLEAN]
      /\ subjectLen \in [Stack -> Nat] /\ calls \in Nat
  BY <1>1, <1>2 DEF ITypeOK
<1>6. HandlerInv'
  BY <1>1, <1>2, <1>4, <1>5, IdleType, OpFrame
<1>7. ThreadInv'
  BY <1>1, <1>2 DEF ThreadInv, TTypeOK, Started, tvars
<1>8. QED
  BY <1>6, <1>7 DEF DInv

\* The cleanup thread sets a flag that exists, or none.
LEMMA CleanupInv ==
  ASSUME DInv, NEW t \in Stack, Cleanup(t)
  PROVE  DInv'
<1>1. ThreadInv /\ HandlerInv /\ ITypeOK
  BY DEF DInv, HandlerInv
<1>2. /\ pc[t] = "ended" /\ pc' = [pc EXCEPT ![t] = "free"]
      /\ UNCHANGED <<key, watch, local, struct, wlcache, walker, churn, asked, robbed>>
      /\ UNCHANGED <<watchers, subjectLen, op, calls, contested>>
      /\ \/ doneMap' = [doneMap EXCEPT ![key[t][1]] = TRUE]
         \/ doneMap' = doneMap
  BY DEF Cleanup, avars
<1>3. DOMAIN doneMap' = DOMAIN doneMap /\ doneMap' \in [DOMAIN doneMap -> BOOLEAN]
  <2>1. doneMap \in [DOMAIN doneMap -> BOOLEAN]
    BY <1>1 DEF ITypeOK
  <2>2. doneMap' \in [DOMAIN doneMap -> BOOLEAN]
    BY <1>2, <2>1, Zenon
  <2>3. QED
    BY <2>2, Zenon
<1>4. HandlerInv'
  BY <1>1, <1>2, <1>3 DEF HandlerInv, ITypeOK
<1>5. ThreadInv'
  BY <1>1, <1>2 DEF ThreadInv, TTypeOK, Started, PC
<1>6. QED
  BY <1>4, <1>5 DEF DInv

----------------------------------------------------------------------------
(* The theorem                                                              *)

\* Nothing has been started at first.
LEMMA InitInv == Init => DInv
<1> SUFFICES ASSUME Init PROVE DInv
  OBVIOUS
<1>1. TTypeOK
  <2>1. NewStruct(NoKey) \in Struct
    BY DEF NewStruct, Struct, NoSlot, NoStack, Closed
  <2>2. NoLocal \in Local
    BY DEF NoLocal, Local, NoSlot, NoStack
  <2>3. QED
    BY <2>1, <2>2, AllocAssumption DEF Init, TInit, TTypeOK, PC
<1>2. ThreadInv
  BY <1>1 DEF Init, TInit, ThreadInv, Started
<1>3. ITypeOK
  BY IdleType, RequestAssumption DEF Init, ITypeOK
<1>4. \A c \in Caller : InCall(op[c], DOMAIN doneMap)
  BY IdleType DEF Init
<1>5. QED
  BY <1>2, <1>3, <1>4 DEF DInv, HandlerInv

\* Every step keeps the invariant.
LEMMA NextInv == DInv /\ [Next]_vars => DInv'
<1> SUFFICES ASSUME DInv, [Next]_vars PROVE DInv'
  OBVIOUS
<1>1. CASE Controller
  BY <1>1, CreateWatchInv, DestroyWatchInv DEF Controller
<1>2. ASSUME NEW c \in Caller, Handler(c) PROVE DInv'
  BY <1>2, KillNextInv, WaitInv, StartNextInv, ReturnInv DEF Handler
<1>3. ASSUME NEW t \in Stack, Own(t) \/ Container(t) \/ Others(t) PROVE DInv'
  <2>1. ThreadInv'
    BY <1>3, StepInv, RewalkInv, EventInv, EpollClosedInv DEF DInv, Own, Container, Others
  <2>2. UNCHANGED ivars
    BY <1>3 DEF Own, Container, Others
  <2>3. HandlerInv'
    BY <2>2 DEF DInv, HandlerInv, ITypeOK, ivars
  <2>4. QED
    BY <2>1, <2>3 DEF DInv
<1>4. CASE UNCHANGED vars
  BY <1>4 DEF DInv, ThreadInv, TTypeOK, Started, HandlerInv, ITypeOK, vars, tvars, ivars
<1>5. QED
  BY <1>1, <1>2, <1>3, <1>4, CleanupInv DEF Next

\* The daemon keeps its types, whatever the scheduler, the container and the
\* controller do: no handler starts or kills for a pid it does not have, no thread
\* uses a struct that is none, and a flag of doneMap_ is read only when it exists.
THEOREM DaemonTypeCorrect == Spec => []DaemonTypeOK
<1>1. DInv => DaemonTypeOK
  BY DEF DInv, ThreadInv, HandlerInv, DaemonTypeOK
<1>2. QED
  BY InitInv, NextInv, <1>1, PTL DEF Spec
=============================================================================
