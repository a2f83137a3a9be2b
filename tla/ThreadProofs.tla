---------------------------- MODULE ThreadProofs ----------------------------
(***************************************************************************)
(* Which kills end a thread, and whom an update waits for, for every number *)
(* of threads, calls and events and for every order of steps: threads that  *)
(* initialise at the same time, stacks that are used again, slots that      *)
(* remove_subtree empties and waits that time out are all included.         *)
(***************************************************************************)
EXTENDS ArgusdProofs

----------------------------------------------------------------------------
(* The inductive invariant                                                  *)

Robbed(t) == key[t][1] \in robbed

\* The counter of the struct's eventfd, as it is now, may reach the loop of t:
\* no reinitialize comes first.
Heeding(t) ==
    \/ pc[t] \in {"put", "loop", "remove", "back"}
    \/ pc[t] \in {"walk", "visit"} /\ local[t].caller = "rewalk"

InUse(t) == pc[t] \notin {"free", "begin", "ended"}

\* The thread has made its epoll instance, and will wait on that of its struct.
Polling(t) ==
    \/ pc[t] \in {"loop", "remove", "rebuild", "back"}
    \/ Initialising(t) /\ local[t].caller # "start"

\* The struct a thread works with is that of its own pid and sid; what it may
\* still read from the eventfd was written after it was started; and nobody has
\* closed the epoll instance it is to wait on.
Asking(t) ==
    /\ InUse(t) => struct[watch[t]].key = key[t] \/ Robbed(t)
    /\ Heeding(t) /\ struct[watch[t]].evt > 0 => asked[t] \/ Robbed(t)
    /\ Polling(t) /\ struct[watch[t]].efd = NoStack => asked[t] \/ Robbed(t)
    /\ pc[t] \in {"out", "ended"} => asked[t] \/ Robbed(t)

AskInv == \A t \in Stack : Asking(t)

----------------------------------------------------------------------------
(* Steps of a thread                                                        *)

\* What a step of thread u other than its first and its last leaves alone: the pids
\* and sids, everything of the other threads, the epoll instances, and no eventfd
\* is written to.
Gentle(u) ==
    /\ UNCHANGED <<key, watch, asked, robbed>>
    /\ \A t \in Stack : t # u => pc'[t] = pc[t] /\ local'[t] = local[t]
    /\ \A s \in Stack : struct'[s].key = struct[s].key
    /\ \A s \in Stack : struct'[s].evt > 0 => struct[s].evt > 0
    /\ \A s \in Stack : struct'[s].efd = NoStack => struct[s].efd = NoStack

\* Such a step keeps the invariant if the thread gets to hear of old kills only
\* with a counter that is 0, goes to the loop with an epoll instance, and leaves it
\* only because of a kill or because the instance is gone.
LEMMA GentleAsk ==
  ASSUME ThreadInv, AskInv, NEW u \in Stack, InUse(u), Gentle(u),
         Heeding(u)' => Heeding(u) \/ ~(struct'[watch[u]].evt > 0),
         Polling(u)' => Polling(u) \/ struct'[watch[u]].efd # NoStack,
         pc'[u] \in {"out", "ended"} =>
            \/ Heeding(u) /\ struct[watch[u]].evt > 0
            \/ Polling(u) /\ struct[watch[u]].efd = NoStack
  PROVE  AskInv'
<1> SUFFICES ASSUME NEW t \in Stack PROVE Asking(t)'
  BY DEF AskInv
<1>1. Asking(t) /\ Started(t) /\ Started(u) /\ Asking(u)
  BY DEF AskInv, ThreadInv
<1>2. Robbed(t)' = Robbed(t) /\ asked'[t] = asked[t] /\ watch' = watch /\ key' = key
  BY DEF Gentle, Robbed
<1>3. CASE t # u
  <2>1. /\ (InUse(t)' <=> InUse(t)) /\ (Heeding(t)' <=> Heeding(t))
        /\ (Polling(t)' <=> Polling(t)) /\ pc'[t] = pc[t]
    BY <1>3 DEF Gentle, InUse, Heeding, Polling, Initialising
  <2>2. Heeding(t) \/ InUse(t) \/ Polling(t) => watch[t] \in Stack
    BY <1>1 DEF Started, Heeding, InUse, Polling, Initialising
  <2>3. QED
    BY <1>1, <1>2, <2>1, <2>2 DEF Asking, Gentle
<1>4. CASE t = u
  <2>1. watch[u] \in Stack
    BY <1>1 DEF Started, InUse
  <2>2. /\ struct'[watch[u]].key = struct[watch[u]].key
        /\ struct'[watch[u]].evt > 0 => struct[watch[u]].evt > 0
        /\ struct'[watch[u]].efd = NoStack => struct[watch[u]].efd = NoStack
    BY <2>1 DEF Gentle
  <2>3. QED
    BY <1>1, <1>2, <1>4, <2>2 DEF Asking
<1>5. QED
  BY <1>3, <1>4

\* The fields of a struct after an assignment to one or several others.
LEMMA FieldsKept ==
  ASSUME NEW r \in Struct
  PROVE  /\ \A e : LET x == [r EXCEPT !.evt = e]
                  IN x.key = r.key /\ x.evt = e /\ x.efd = r.efd
         /\ \A p : LET x == [r EXCEPT !.paths = p]
                  IN x.key = r.key /\ x.evt = r.evt /\ x.efd = r.efd
         /\ \A i : LET x == [r EXCEPT !.slot = i]
                  IN x.key = r.key /\ x.evt = r.evt /\ x.efd = r.efd
         /\ \A e, p : LET x == [r EXCEPT !.evt = e, !.pollers = p]
                     IN x.key = r.key /\ x.evt = e /\ x.efd = r.efd
         /\ \A e, p : LET x == [r EXCEPT !.efd = e, !.pollers = p]
                     IN x.key = r.key /\ x.evt = r.evt /\ x.efd = e
         /\ \A e, p, q : LET x == [r EXCEPT !.evt = e, !.pollers = p, !.paths = q]
                        IN x.key = r.key /\ x.evt = e /\ x.efd = r.efd
         /\ \A e, p, q : LET x == [r EXCEPT !.evt = e, !.pollers = p, !.efd = q]
                        IN x.key = r.key /\ x.evt = e /\ x.efd = q
BY DEF Struct

\* A pid and sid are never none.
LEMMA KeyIsNotNoKey == NoKey \notin Key
BY DEF NoKey, Key

\* A thread in use has a struct.
LEMMA InUseStruct ==
  ASSUME ThreadInv, NEW t \in Stack, InUse(t)
  PROVE  watch[t] \in Stack /\ struct[watch[t]] \in Struct
BY DEF ThreadInv, Started, TTypeOK, InUse

\* start_inotify_watcher: a struct made anew on a stack robs the threads that use
\* the one that was there.
LEMMA BeginAsk ==
  ASSUME ThreadInv, AskInv, NEW u \in Stack, Begin(u)
  PROVE  AskInv'
<1> DEFINE i == FindCachedSlot(key[u])
           s == IF i # NoSlot THEN wlcache[i] ELSE u
           rebuild == i # NoSlot /\ struct[s].slot # NoSlot
           x == IF rebuild THEN ClearWatch(s)
                ELSE IF i # NoSlot THEN struct[s] ELSE NewStruct(key[u])
           l == [NoLocal EXCEPT !.rebuild = rebuild]
<1>1. TTypeOK /\ pc[u] = "begin" /\ key[u] \in Key
  BY DEF ThreadInv, Started, Begin
<1>2. s \in Stack /\ (i # NoSlot => struct[s].key = key[u]) /\ (i = NoSlot => s = u)
  BY <1>1, FindCachedSlotFound
<1>3. /\ watch' = [watch EXCEPT ![u] = s]
      /\ local' = [local EXCEPT ![u] = l]
      /\ struct' = [struct EXCEPT ![s] = x]
      /\ pc' = [pc EXCEPT ![u] = "walk"]
      /\ robbed' = IF i # NoSlot THEN robbed ELSE robbed \cup {key[v][1] : v \in Users(u)}
      /\ UNCHANGED <<key, asked>>
  BY DEF Begin
<1>4. l.caller = "start"
  BY DEF NoLocal
<1>5. /\ x.key = key[u] /\ (x.evt > 0 => i # NoSlot /\ x = struct[s])
      /\ i # NoSlot => x.efd = struct[s].efd
  <2>1. struct[s] \in Struct
    BY <1>1, <1>2 DEF TTypeOK
  <2>2. NewStruct(key[u]).key = key[u] /\ NewStruct(key[u]).evt = Closed
    BY DEF NewStruct
  <2>3. /\ ClearWatch(s).key = struct[s].key /\ ClearWatch(s).evt = Closed
        /\ ClearWatch(s).efd = struct[s].efd
    BY <2>1, FieldsKept DEF ClearWatch
  <2>4. QED
    BY <1>2, <2>2, <2>3 DEF Closed
<1> HIDE DEF i, s, rebuild, x, l
<1>6. /\ pc \in [Stack -> PC] /\ watch \in [Stack -> Stack \cup {NoStack}]
      /\ local \in [Stack -> Local] /\ struct \in [Stack -> Struct]
  BY <1>1 DEF TTypeOK
<1>7. /\ struct'[s] = x /\ \A v \in Stack : v # s => struct'[v] = struct[v]
      /\ watch'[u] = s /\ pc'[u] = "walk" /\ local'[u] = l
  BY <1>2, <1>3, <1>6
<1> SUFFICES ASSUME NEW t \in Stack PROVE Asking(t)'
  BY DEF AskInv
<1>8. CASE t = u
  BY <1>3, <1>4, <1>5, <1>7, <1>8 DEF Asking, Heeding, Polling, Initialising
<1>9. CASE t # u
  <2>1. /\ pc'[t] = pc[t] /\ watch'[t] = watch[t] /\ local'[t] = local[t]
        /\ key' = key /\ asked' = asked
    BY <1>3, <1>6, <1>9
  <2>2. /\ (InUse(t)' <=> InUse(t)) /\ (Heeding(t)' <=> Heeding(t))
        /\ (Polling(t)' <=> Polling(t)) /\ (Robbed(t) => Robbed(t)')
    BY <1>3, <2>1 DEF InUse, Heeding, Polling, Initialising, Robbed
  <2>3. Asking(t)
    BY DEF AskInv
  <2>4. Heeding(t) \/ Polling(t) => InUse(t)
    BY DEF Heeding, Polling, Initialising, InUse
  <2>5. ASSUME InUse(t)
        PROVE  /\ struct'[watch[t]].key = key[t] \/ Robbed(t)'
               /\ struct'[watch[t]].evt > 0 => struct[watch[t]].evt > 0
               /\ struct'[watch[t]].efd = NoStack => struct[watch[t]].efd = NoStack \/ Robbed(t)'
    <3>1. watch[t] \in Stack
      BY <2>5, InUseStruct
    <3>2. CASE watch[t] # s
      BY <1>7, <2>2, <2>3, <2>5, <3>1, <3>2 DEF Asking
    <3>3. CASE watch[t] = s /\ i # NoSlot
      BY <1>2, <1>5, <1>7, <2>2, <2>3, <2>5, <3>3 DEF Asking
    <3>4. CASE watch[t] = s /\ i = NoSlot
      <4>1. t \in Users(u)
        BY <1>2, <2>5, <3>4 DEF Users, Live, InUse
      <4>2. Robbed(t)'
        BY <1>3, <2>1, <3>4, <4>1 DEF Robbed
      <4>3. ~(struct'[watch[t]].evt > 0)
        BY <1>5, <1>7, <3>4
      <4>4. QED
        BY <4>2, <4>3
    <3>5. QED
      BY <3>2, <3>3, <3>4
  <2>6. QED
    BY <2>1, <2>2, <2>3, <2>4, <2>5 DEF Asking
<1>10. QED
  BY <1>8, <1>9

\* A step by which a thread in use changes no struct.
LEMMA CalmAsk ==
  ASSUME ThreadInv, AskInv, NEW u \in Stack, InUse(u), struct' = struct,
         NEW q, pc' = [pc EXCEPT ![u] = q], q \notin {"out", "ended"},
         NEW l, local' = [local EXCEPT ![u] = l],
         UNCHANGED <<key, watch, asked, robbed>>,
         Heeding(u)' => Heeding(u), Polling(u)' => Polling(u)
  PROVE  AskInv'
<1>1. Gentle(u)
  BY DEF Gentle, ThreadInv, TTypeOK
<1>2. pc'[u] = q
  BY DEF ThreadInv, TTypeOK
<1>3. QED
  BY <1>1, <1>2, GentleAsk

\* The steps by which no struct changes: the start of a walk, the way back from it,
\* events that do not walk at once, and remove_subtree.
LEMMA CalmStepsAsk ==
  ASSUME ThreadInv, AskInv, NEW u \in Stack,
         Walk(u) \/ PutBack(u) \/ Removal(u) \/ Follow(u) \/ Inconsistent(u)
           \/ RemoveEntry(u) \/ RemoveDone(u) \/ RemoveFailed(u)
  PROVE  AskInv'
<1>1. /\ pc \in [Stack -> PC] /\ local \in [Stack -> Local]
      /\ UNCHANGED <<struct, key, watch, asked, robbed>>
  BY DEF ThreadInv, TTypeOK, Walk, PutBack, Removal, Follow, Inconsistent, RemoveEntry,
         RemoveDone, RemoveFailed, avars
<1>2. PICK q \in {"visit", "loop", "remove", "rebuild"} :
         /\ pc' = [pc EXCEPT ![u] = q]
         /\ q = "visit" => pc[u] = "walk" /\ local' = local
         /\ q \in {"loop", "remove"} => pc[u] \in {"back", "remove", "loop"}
         /\ q = "rebuild" => pc[u] \in {"loop", "remove"}
  <2>1. CASE Walk(u)
    BY <1>1, <2>1 DEF Walk
  <2>2. CASE PutBack(u)
    BY <1>1, <2>2 DEF PutBack
  <2>3. CASE Removal(u) \/ Follow(u) \/ Inconsistent(u)
    BY <1>1, <2>3 DEF Removal, Follow, Inconsistent, Event
  <2>4. CASE RemoveEntry(u) \/ RemoveDone(u) \/ RemoveFailed(u)
    BY <1>1, <2>4 DEF RemoveEntry, RemoveDone, RemoveFailed
  <2>5. QED
    BY <2>1, <2>2, <2>3, <2>4
<1>3. InUse(u)
  BY DEF InUse, Walk, PutBack, Removal, Follow, Inconsistent, Event, RemoveEntry,
         RemoveDone, RemoveFailed
<1>4. PICK l : local' = [local EXCEPT ![u] = l]
  <2>1. CASE local' = local
    <3>1. local' = [local EXCEPT ![u] = local[u]]
      BY <1>1, <2>1
    <3>2. QED
      BY <3>1
  <2>2. CASE BackToLoop(u)
    BY <2>2, Zenon DEF BackToLoop
  <2>3. QED
    BY <2>1, <2>2 DEF Walk, PutBack, Removal, Follow, Inconsistent, RemoveEntry,
                      RemoveDone, RemoveFailed
<1>5. pc'[u] = q
  BY <1>1, <1>2
<1>6. Heeding(u)' => Heeding(u)
  BY <1>2, <1>5 DEF Heeding
<1>7. Polling(u)' => Polling(u)
  BY <1>2, <1>5 DEF Polling, Initialising
<1>8. QED
  BY <1>1, <1>2, <1>3, <1>4, <1>6, <1>7, CalmAsk

\* A step by which a thread in use changes one struct.
LEMMA OneStructAsk ==
  ASSUME ThreadInv, AskInv, NEW u \in Stack, InUse(u),
         NEW s \in Stack, NEW x, struct' = [struct EXCEPT ![s] = x],
         x.key = struct[s].key, x.evt > 0 => struct[s].evt > 0,
         x.efd = NoStack => struct[s].efd = NoStack,
         \A t \in Stack : t # u => pc'[t] = pc[t] /\ local'[t] = local[t],
         UNCHANGED <<key, watch, asked, robbed>>,
         \/ Heeding(u)' => Heeding(u)
         \/ s = watch[u] /\ ~(x.evt > 0),
         \/ Polling(u)' => Polling(u)
         \/ s = watch[u] /\ x.efd # NoStack,
         pc'[u] \in {"out", "ended"} => Heeding(u) /\ struct[watch[u]].evt > 0
  PROVE  AskInv'
<1>1. /\ \A v \in Stack : struct'[v].key = struct[v].key
      /\ \A v \in Stack : struct'[v].evt > 0 => struct[v].evt > 0
      /\ \A v \in Stack : struct'[v].efd = NoStack => struct[v].efd = NoStack
      /\ struct'[s] = x
  <2>1. struct \in [Stack -> Struct]
    BY DEF ThreadInv, TTypeOK
  <2>2. struct'[s] = x /\ \A v \in Stack : v # s => struct'[v] = struct[v]
    BY <2>1
  <2>3. QED
    BY <2>2
<1>2. Gentle(u)
  BY <1>1 DEF Gentle
<1>3. /\ Heeding(u)' => Heeding(u) \/ ~(struct'[watch[u]].evt > 0)
      /\ Polling(u)' => Polling(u) \/ struct'[watch[u]].efd # NoStack
  BY <1>1
<1>4. QED
  BY <1>2, <1>3, GentleAsk

\* traverse_tree
LEMMA VisitAsk ==
  ASSUME ThreadInv, AskInv, NEW u \in Stack, Visit(u)
  PROVE  AskInv'
<1> DEFINE s == watch[walker]
           p == struct[s].paths \cup {struct[watch[u]].key}
           x == [struct[s] EXCEPT !.paths = p]
<1>1. pc[u] = "visit" /\ walker \in Stack /\ InUse(u) /\ local \in [Stack -> Local]
  BY DEF ThreadInv, Started, Visit, InUse, TTypeOK
<1>2. s \in Stack
  BY <1>1 DEF ThreadInv, Stack, NoStack
<1>3. struct[s] \in Struct
  BY <1>2 DEF ThreadInv, TTypeOK
<1>4. struct' = [struct EXCEPT ![s] = x]
  BY Zenon DEF Visit, W
<1> HIDE DEF p
<1>5. x.key = struct[s].key /\ x.evt = struct[s].evt /\ x.efd = struct[s].efd
  BY <1>3, FieldsKept
<1> HIDE DEF s, x
<1>6. /\ local' = local /\ UNCHANGED <<key, watch, asked, robbed>>
      /\ local' = [local EXCEPT ![u] = local[u]]
  BY <1>1 DEF Visit, avars
<1>7. PICK q \in {"back", "register"} :
         pc' = [pc EXCEPT ![u] = q] /\ (q = "back" => local[u].caller = "rewalk")
  BY DEF Visit
<1>8. /\ \A t \in Stack : t # u => pc'[t] = pc[t] /\ local'[t] = local[t]
      /\ pc'[u] = q
  BY <1>6, <1>7 DEF ThreadInv, TTypeOK
<1>9. (Heeding(u)' => Heeding(u)) /\ (Polling(u)' => Polling(u))
  BY <1>1, <1>6, <1>7, <1>8 DEF Heeding, Polling, Initialising
<1>10. pc'[u] \notin {"out", "ended"}
  BY <1>7, <1>8
<1>11. QED
  BY <1>1, <1>2, <1>4, <1>5, <1>6, <1>8, <1>9, <1>10, OneStructAsk

\* The new eventfd holds nothing.
LEMMA NewEventfdAsk ==
  ASSUME ThreadInv, NEW u \in Stack, InUse(u)
  PROVE  /\ NewEventfd(u).key = struct[watch[u]].key /\ NewEventfd(u).evt = 0
         /\ NewEventfd(u).efd = struct[watch[u]].efd
<1> DEFINE p == IF local[u].rebuild THEN {struct[watch[u]].efd} \ {NoStack} ELSE {}
<1>1. struct[watch[u]] \in Struct
  BY InUseStruct
<1>2. NewEventfd(u) = [struct[watch[u]] EXCEPT !.evt = 0, !.pollers = p]
  BY DEF NewEventfd, W
<1> HIDE DEF p
<1>3. QED
  BY <1>1, <1>2, FieldsKept

\* epoll_create1, add_epoll_ctl_fds and the way to the loop
LEMMA EnterLoopAsk ==
  ASSUME ThreadInv, AskInv, NEW u \in Stack, InUse(u), NEW s \in Struct, EnterLoop(u, s),
         s.key = struct[watch[u]].key, UNCHANGED <<key, watch, asked, robbed>>,
         s.efd = struct[watch[u]].efd, Initialising(u),
         s.evt = 0 \/ (Heeding(u) /\ s.evt = struct[watch[u]].evt)
  PROVE  AskInv'
<1> DEFINE p == s.pollers \cup {u}
           y == [s EXCEPT !.efd = u, !.pollers = p]
           x == IF local[u].caller = "start" THEN y ELSE s
<1>1. watch[u] \in Stack
  BY InUseStruct
<1>2. /\ pc' = [pc EXCEPT ![u] = "loop"]
      /\ struct' = [struct EXCEPT ![watch[u]] = x]
      /\ BackToLoop(u)
  BY DEF EnterLoop, W
<1> HIDE DEF p
<1>3. y.key = s.key /\ y.evt = s.evt /\ y.efd = u
  BY FieldsKept
<1> HIDE DEF y
<1>4. /\ x.key = struct[watch[u]].key /\ x.evt = s.evt
      /\ IF local[u].caller = "start" THEN x.efd = u ELSE x.efd = struct[watch[u]].efd
  BY <1>3
<1>9. u # NoStack
  BY DEF Stack, NoStack
<1>10. Polling(u) \/ x.efd # NoStack
  BY <1>4, <1>9 DEF Polling
<1> HIDE DEF x
<1>5. PICK l : local' = [local EXCEPT ![u] = l]
  BY <1>2, Zenon DEF BackToLoop
<1>6. x.evt > 0 => Heeding(u) /\ struct[watch[u]].evt > 0
  BY <1>4
<1>7. /\ \A t \in Stack : t # u => pc'[t] = pc[t] /\ local'[t] = local[t]
      /\ pc'[u] \notin {"out", "ended"}
  BY <1>2, <1>5 DEF ThreadInv, TTypeOK
<1>8. x.efd = NoStack => struct[watch[u]].efd = NoStack
  BY <1>4, <1>9
<1>11. QED
  BY <1>1, <1>2, <1>4, <1>6, <1>7, <1>8, <1>10, OneStructAsk

\* reinitialize and add_watch_to_cache
LEMMA RegisterAsk ==
  ASSUME ThreadInv, AskInv, NEW u \in Stack, AlreadyCached(u) \/ PickSlot(u) \/ Put(u)
  PROVE  AskInv'
<1>1. /\ InUse(u) /\ watch[u] \in Stack /\ struct[watch[u]] \in Struct
      /\ UNCHANGED <<key, watch, asked, robbed>>
  <2>1. InUse(u) /\ UNCHANGED <<key, watch, asked, robbed>>
    BY DEF InUse, AlreadyCached, PickSlot, Put, avars
  <2>2. QED
    BY <2>1, InUseStruct
<1>2. /\ NewEventfd(u) \in Struct /\ NewEventfd(u).key = struct[watch[u]].key
      /\ NewEventfd(u).evt = 0 /\ NewEventfd(u).efd = struct[watch[u]].efd
  BY <1>1, NewEventfdAsk, NewEventfdType DEF ThreadInv
<1>3. CASE AlreadyCached(u)
  BY <1>1, <1>2, <1>3, EnterLoopAsk DEF AlreadyCached, Initialising
<1>4. CASE PickSlot(u)
  <2>1. /\ pc' = [pc EXCEPT ![u] = "put"]
        /\ struct' = [struct EXCEPT ![watch[u]] = NewEventfd(u)]
    BY <1>4 DEF PickSlot, W
  <2>2. PICK n : local' = [local EXCEPT ![u].pick = n]
    BY <1>4 DEF PickSlot
  <2>3. local' = [local EXCEPT ![u] = [local[u] EXCEPT !.pick = n]]
    BY <2>2, Zenon
  <2>4. /\ \A t \in Stack : t # u => pc'[t] = pc[t] /\ local'[t] = local[t]
        /\ pc'[u] \notin {"out", "ended"}
    BY <2>1, <2>3 DEF ThreadInv, TTypeOK
  <2>5. PICK x : x = NewEventfd(u)
    OBVIOUS
  <2>6. /\ struct' = [struct EXCEPT ![watch[u]] = x] /\ x.key = struct[watch[u]].key
        /\ ~(x.evt > 0) /\ x.efd = struct[watch[u]].efd
    BY <1>2, <2>1, <2>5
  <2>7. Polling(u)' => Polling(u)
    <3>1. pc[u] = "register" /\ pc'[u] = "put" /\ local[u] \in Local
      BY <1>4, <2>1 DEF PickSlot, ThreadInv, TTypeOK
    <3>2. local'[u].caller = local[u].caller
      <4>1. ASSUME NEW r \in Local PROVE [r EXCEPT !.pick = n].caller = r.caller
        BY DEF Local
      <4>2. local'[u] = [local[u] EXCEPT !.pick = n]
        BY <2>3 DEF ThreadInv, TTypeOK
      <4>3. QED
        BY <3>1, <4>1, <4>2
    <3>3. QED
      BY <3>1, <3>2 DEF Polling, Initialising
  <2>8. QED
    BY <1>1, <2>4, <2>6, <2>7, OneStructAsk
<1>5. CASE Put(u)
  <2> DEFINE n == local[u].pick
             x == [struct[watch[u]] EXCEPT !.slot = n]
  <2>1. n \in Nat /\ Heeding(u) /\ Initialising(u)
    BY <1>5 DEF Put, Heeding, Initialising, ThreadInv, TTypeOK, Local
  <2>2. EnterLoop(u, x)
    BY <1>5, Zenon DEF Put, W
  <2> HIDE DEF n
  <2>3. x \in Struct
    BY <1>1, <2>1, StructFields, Zenon
  <2>4. /\ x.key = struct[watch[u]].key /\ x.evt = struct[watch[u]].evt
        /\ x.efd = struct[watch[u]].efd
    BY <1>1, FieldsKept
  <2> HIDE DEF x
  <2>5. QED
    BY <1>1, <2>1, <2>2, <2>3, <2>4, EnterLoopAsk
<1>6. QED
  BY <1>3, <1>4, <1>5

\* The loop reads its eventfd.
LEMMA ReadEventfdAsk ==
  ASSUME ThreadInv, AskInv, NEW u \in Stack, ReadEventfd(u)
  PROVE  AskInv'
<1> DEFINE x == [struct[watch[u]] EXCEPT !.evt = 0]
<1>1. /\ InUse(u) /\ Heeding(u) /\ struct[watch[u]].evt > 0 /\ pc[u] = "loop"
      /\ UNCHANGED <<key, watch, asked, robbed>>
  BY DEF ReadEventfd, KillPending, InUse, Heeding, W, avars
<1>2. watch[u] \in Stack /\ struct[watch[u]] \in Struct
  BY <1>1, InUseStruct
<1>3. struct' = [struct EXCEPT ![watch[u]] = x]
  BY Zenon DEF ReadEventfd, W
<1>4. x.key = struct[watch[u]].key /\ x.evt = 0 /\ x.efd = struct[watch[u]].efd
  BY <1>2, FieldsKept
<1> HIDE DEF x
<1>5. pc \in [Stack -> PC] /\ local \in [Stack -> Local]
  BY DEF ThreadInv, TTypeOK
<1>6. PICK q : pc' = [pc EXCEPT ![u] = q]
  BY <1>5 DEF ReadEventfd
<1>7. PICK l : local' = [local EXCEPT ![u] = l]
  <2>1. local' = [local EXCEPT ![u] = local[u]] \/ BackToLoop(u)
    BY <1>5 DEF ReadEventfd
  <2>2. QED
    BY <2>1, Zenon DEF BackToLoop
<1>8. \A t \in Stack : t # u => pc'[t] = pc[t] /\ local'[t] = local[t]
  BY <1>6, <1>7 DEF ThreadInv, TTypeOK
<1>9. Polling(u)
  BY <1>1 DEF Polling
<1>10. QED
  BY <1>1, <1>2, <1>3, <1>4, <1>8, <1>9, OneStructAsk

\* A walk or a rebuild that an event causes: what was sent before it is read after
\* a walk; a rebuild makes a new eventfd.
LEMMA WalkAgainAsk ==
  ASSUME ThreadInv, AskInv, NEW u \in Stack, Rewalk(u) \/ Rebuild(u)
  PROVE  AskInv'
<1>1. InUse(u) /\ UNCHANGED <<key, watch, asked, robbed>> /\ pc' = [pc EXCEPT ![u] = "walk"]
  BY DEF Rewalk, Rebuild, Event, InUse, avars
<1>2. watch[u] \in Stack /\ struct[watch[u]] \in Struct /\ local \in [Stack -> Local]
  BY <1>1, InUseStruct DEF ThreadInv, TTypeOK
<1>3. CASE Rewalk(u)
  <2>1. local' = [local EXCEPT ![u] = [local[u] EXCEPT !.caller = "rewalk"]]
    BY <1>3, Zenon DEF Rewalk
  <2>2. struct' = [struct EXCEPT ![watch[u]] = [struct[watch[u]] EXCEPT !.paths = {}]]
    BY <1>3, Zenon DEF Rewalk, W
  <2>3. PICK x : x = [struct[watch[u]] EXCEPT !.paths = {}]
    OBVIOUS
  <2>4. /\ x.key = struct[watch[u]].key /\ x.evt = struct[watch[u]].evt
        /\ x.efd = struct[watch[u]].efd
    BY <1>2, <2>3, FieldsKept
  <2>5. Heeding(u) /\ Polling(u)
    BY <1>3 DEF Rewalk, Event, Heeding, Polling
  <2>6. /\ \A t \in Stack : t # u => pc'[t] = pc[t] /\ local'[t] = local[t]
        /\ pc'[u] \notin {"out", "ended"}
    BY <1>1, <2>1 DEF ThreadInv, TTypeOK
  <2>7. struct' = [struct EXCEPT ![watch[u]] = x]
    BY <2>2, <2>3
  <2>8. QED
    BY <1>1, <1>2, <2>4, <2>5, <2>6, <2>7, OneStructAsk
<1>4. CASE Rebuild(u)
  <2> DEFINE rebuild == struct[watch[u]].slot # NoSlot
             x == IF rebuild THEN ClearWatch(watch[u]) ELSE struct[watch[u]]
             l == [local[u] EXCEPT !.caller = "rebuild", !.rebuild = rebuild]
  <2>1. /\ struct' = [struct EXCEPT ![watch[u]] = x]
        /\ local' = [local EXCEPT ![u].caller = "rebuild", ![u].rebuild = rebuild]
    BY <1>4, Zenon DEF Rebuild, W
  <2>2. /\ ClearWatch(watch[u]).key = struct[watch[u]].key /\ ClearWatch(watch[u]).evt = Closed
        /\ ClearWatch(watch[u]).efd = struct[watch[u]].efd
    BY <1>2, FieldsKept DEF ClearWatch
  <2>3. /\ x.key = struct[watch[u]].key /\ (x.evt > 0 => struct[watch[u]].evt > 0)
        /\ x.efd = struct[watch[u]].efd
    BY <2>2 DEF Closed
  <2> HIDE DEF rebuild, x
  <2>4. local' = [local EXCEPT ![u] = l]
    BY <1>2, <2>1
  <2>5. l.caller = "rebuild"
    <3>1. local[u] \in Local
      BY <1>2
    <3>2. ASSUME NEW r \in Local
          PROVE  [r EXCEPT !.caller = "rebuild", !.rebuild = rebuild].caller = "rebuild"
      BY DEF Local
    <3>3. QED
      BY <3>1, <3>2, Zenon
  <2> HIDE DEF l
  <2>6. /\ \A t \in Stack : t # u => pc'[t] = pc[t] /\ local'[t] = local[t]
        /\ pc'[u] = "walk" /\ local'[u] = l
    BY <1>1, <2>4 DEF ThreadInv, TTypeOK
  <2>7. ~Heeding(u)' /\ pc'[u] \notin {"out", "ended"} /\ Polling(u)
    BY <1>4, <2>5, <2>6 DEF Heeding, Polling, Rebuild
  <2>8. QED
    BY <1>1, <1>2, <2>1, <2>3, <2>6, <2>7, OneStructAsk
<1>5. QED
  BY <1>3, <1>4

\* epoll_pwait fails.
LEMMA EpollClosedAsk ==
  ASSUME ThreadInv, AskInv, NEW u \in Stack, EpollClosed(u)
  PROVE  AskInv'
<1>1. /\ InUse(u) /\ Polling(u) /\ struct[watch[u]].efd = NoStack
      /\ pc' = [pc EXCEPT ![u] = "out"]
      /\ UNCHANGED <<key, watch, local, struct, asked, robbed>>
  BY DEF EpollClosed, InUse, Polling, W, avars
<1>2. Gentle(u) /\ pc'[u] = "out"
  BY <1>1 DEF Gentle, ThreadInv, TTypeOK
<1>3. ~Heeding(u)'
  BY <1>2 DEF Heeding
<1>4. QED
  BY <1>1, <1>2, <1>3, GentleAsk

\* The end of start_inotify_watcher robs those who use the same struct, unless they
\* were asked to stop themselves.
LEMMA OutAsk ==
  ASSUME ThreadInv, AskInv, NEW u \in Stack, Out(u)
  PROVE  AskInv'
<1> DEFINE y == IF struct[watch[u]].slot # NoSlot THEN ClearWatch(watch[u]) ELSE struct[watch[u]]
           x == [y EXCEPT !.evt = Closed, !.pollers = {}, !.efd = NoStack]
<1>1. /\ InUse(u) /\ pc[u] = "out" /\ UNCHANGED <<key, watch, asked>>
      /\ pc' = [pc EXCEPT ![u] = "ended"] /\ local' = [local EXCEPT ![u] = NoLocal]
      /\ robbed' = robbed \cup {key[v][1] : v \in {w \in Users(watch[u]) \ {u} : ~asked[w]}}
  BY DEF Out, InUse, W
<1>2. watch[u] \in Stack /\ struct[watch[u]] \in Struct
  BY <1>1, InUseStruct
<1>3. struct' = [struct EXCEPT ![watch[u]] = x]
  BY Zenon DEF Out, W
<1>4. y \in Struct /\ y.key = struct[watch[u]].key
  BY <1>2, StructTypes DEF ThreadInv
<1> HIDE DEF y
<1>5. x.key = struct[watch[u]].key /\ ~(x.evt > 0)
  BY <1>4, FieldsKept DEF Closed
<1> HIDE DEF x
<1>6. /\ struct'[watch[u]] = x
      /\ \A s \in Stack : s # watch[u] => struct'[s] = struct[s]
  BY <1>2, <1>3 DEF ThreadInv, TTypeOK
<1> SUFFICES ASSUME NEW t \in Stack PROVE Asking(t)'
  BY DEF AskInv
<1>7. Asking(t) /\ (Robbed(t) => Robbed(t)')
  BY <1>1 DEF AskInv, Robbed
<1>8. CASE t = u
  <2>1. pc'[t] = "ended"
    BY <1>1, <1>8 DEF ThreadInv, TTypeOK
  <2>2. QED
    BY <1>1, <1>7, <1>8, <2>1 DEF Asking, InUse, Heeding, Polling, Initialising
<1>9. CASE t # u
  <2>1. pc'[t] = pc[t] /\ local'[t] = local[t] /\ watch' = watch /\ key' = key /\ asked' = asked
    BY <1>1, <1>9 DEF ThreadInv, TTypeOK
  <2>2. /\ (InUse(t)' <=> InUse(t)) /\ (Heeding(t)' <=> Heeding(t)) /\ (Polling(t)' <=> Polling(t))
        /\ Heeding(t) \/ Polling(t) => InUse(t)
    BY <2>1 DEF InUse, Heeding, Polling, Initialising
  <2>3. ASSUME InUse(t), watch[t] = watch[u] PROVE asked[t] \/ Robbed(t)'
    <3>1. t \in Users(watch[u]) \ {u}
      BY <1>9, <2>3 DEF Users, Live, InUse
    <3>2. QED
      BY <1>1, <3>1 DEF Robbed
  <2>4. InUse(t) => watch[t] \in Stack
    BY InUseStruct
  <2>5. InUse(t) => struct'[watch[t]].key = struct[watch[t]].key
    BY <1>5, <1>6, <2>4
  <2>6. InUse(t) /\ watch[t] # watch[u] => struct'[watch[t]] = struct[watch[t]]
    BY <1>6, <2>4
  <2>7. QED
    BY <1>7, <2>1, <2>2, <2>3, <2>5, <2>6 DEF Asking
<1>10. QED
  BY <1>8, <1>9

\* Every step of a thread
LEMMA ThreadAsk ==
  ASSUME ThreadInv, AskInv, NEW u \in Stack, Own(u) \/ Container(u) \/ Others(u)
  PROVE  AskInv'
BY BeginAsk, CalmStepsAsk, VisitAsk, RegisterAsk, ReadEventfdAsk, WalkAgainAsk, EpollClosedAsk,
   OutAsk DEF Own, Container, Others, Step

----------------------------------------------------------------------------
(* Steps of the handlers                                                    *)

\* send_watcher_kill_signal: who hears of it was asked, or uses a struct that is not
\* its own.
LEMMA SendKillAsk ==
  ASSUME ThreadInv, AskInv, NEW p, SendKill(p)
  PROVE  AskInv'
<1> DEFINE n(s) == Cardinality({i \in DOMAIN wlcache : wlcache[i] = s})
           x(s) == [struct[s] EXCEPT !.evt = struct[s].evt + n(s)]
           y(s) == IF OfPid(s, p) /\ struct[s].evt # Closed THEN x(s) ELSE struct[s]
<1>1. /\ UNCHANGED <<pc, key, watch, local, robbed>>
      /\ asked' = [t \in Stack |-> asked[t] \/ (key[t] # NoKey /\ key[t][1] = p)]
  BY DEF SendKill
<1>2. struct' = [s \in Stack |-> y(s)]
  BY Zenon DEF SendKill
<1> HIDE DEF n
<1>3. ASSUME NEW s \in Stack
      PROVE  /\ struct'[s].key = struct[s].key /\ struct'[s].efd = struct[s].efd
             /\ struct'[s].evt > 0 => struct[s].evt > 0 \/ OfPid(s, p)
  <2>1. struct'[s] = y(s) /\ struct[s] \in Struct
    BY <1>2 DEF ThreadInv, TTypeOK
  <2>2. x(s).key = struct[s].key /\ x(s).efd = struct[s].efd
    BY <2>1, FieldsKept
  <2> HIDE DEF x
  <2>3. QED
    BY <2>1, <2>2
<1> HIDE DEF y, x
<1> SUFFICES ASSUME NEW t \in Stack PROVE Asking(t)'
  BY DEF AskInv
<1>4. Asking(t)
  BY DEF AskInv
<1>5. asked[t] => asked'[t]
  BY <1>1
<1>6. /\ (InUse(t)' <=> InUse(t)) /\ (Heeding(t)' <=> Heeding(t))
      /\ (Polling(t)' <=> Polling(t)) /\ (Robbed(t)' <=> Robbed(t))
  BY <1>1 DEF InUse, Heeding, Polling, Initialising, Robbed
<1>7. CASE ~InUse(t)
  BY <1>1, <1>4, <1>5, <1>6, <1>7 DEF Asking, InUse, Heeding, Polling, Initialising
<1>8. CASE InUse(t)
  <2>1. watch[t] \in Stack /\ key[t] \in Key
    BY <1>8, InUseStruct DEF ThreadInv, Started, InUse
  <2>2. key[t] # NoKey
    BY <2>1, KeyIsNotNoKey
  <2>3. OfPid(watch[t], p) => asked'[t] \/ Robbed(t)
    BY <1>1, <1>4, <1>8, <2>2 DEF Asking, OfPid
  <2>4. QED
    BY <1>1, <1>3, <1>4, <1>5, <1>6, <2>1, <2>3 DEF Asking
<1>9. QED
  BY <1>7, <1>8

\* std::thread
LEMMA SpawnAsk ==
  ASSUME ThreadInv, AskInv, NEW u, NEW k \in Key, Spawn(u, k)
  PROVE  AskInv'
<1>1. u \in Stack
  BY SpawnInv
<1>2. /\ pc' = [pc EXCEPT ![u] = "begin"] /\ key' = [key EXCEPT ![u] = k]
      /\ asked' = [asked EXCEPT ![u] = FALSE]
      /\ UNCHANGED <<watch, local, struct, robbed>>
  BY DEF Spawn
<1>3. ASSUME NEW t \in Stack PROVE Asking(t)'
  <2>1. CASE t = u
    BY <1>1, <1>2, <2>1 DEF Asking, InUse, Heeding, Polling, Initialising, ThreadInv, TTypeOK
  <2>2. CASE t # u
    <3>1. pc'[t] = pc[t] /\ key'[t] = key[t] /\ asked'[t] = asked[t]
      BY <1>1, <1>2, <2>2 DEF ThreadInv, TTypeOK
    <3>2. QED
      <4>1. /\ (InUse(t)' <=> InUse(t)) /\ (Heeding(t)' <=> Heeding(t))
            /\ (Polling(t)' <=> Polling(t)) /\ (Robbed(t)' <=> Robbed(t)) /\ Asking(t)
        BY <1>2, <3>1 DEF AskInv, InUse, Heeding, Polling, Initialising, Robbed
      <4>2. QED
        BY <1>2, <3>1, <4>1 DEF Asking
  <2>3. QED
    BY <2>1, <2>2
<1>4. QED
  BY <1>3 DEF AskInv

\* The end of the cleanup thread
LEMMA CleanupAsk ==
  ASSUME ThreadInv, AskInv, NEW u \in Stack, Cleanup(u)
  PROVE  AskInv'
<1>1. /\ pc' = [pc EXCEPT ![u] = "free"]
      /\ UNCHANGED <<key, watch, local, struct, asked, robbed>>
  BY DEF Cleanup, avars
<1>2. ASSUME NEW t \in Stack PROVE Asking(t)'
  <2>1. pc'[t] = "free" \/ pc'[t] = pc[t]
    BY <1>1 DEF ThreadInv, TTypeOK
  <2>2. QED
    BY <1>1, <2>1 DEF AskInv, Asking, InUse, Heeding, Polling, Initialising, Robbed
<1>3. QED
  BY <1>2 DEF AskInv

\* A step of the threads' variables by a handler, if any, is a kill or a start.
LEMMA HandlerThreads ==
  ASSUME DInv, NEW c \in Caller, Handler(c)
  PROVE  \/ UNCHANGED tvars
         \/ \E p : SendKill(p)
         \/ \E t, k : k \in Key /\ Spawn(t, k)
<1>1. CASE StartNext(c)
  <2>1. /\ op[c].at = "start" /\ op[c].start # <<>> /\ op[c].start \in Seq(Pid)
        /\ op[c].req \in Requests /\ op[c].sid \in 0 .. op[c].req.subjects - 1
    BY <1>1 DEF DInv, HandlerInv, ITypeOK, InCall, Op, StartNext
  <2>2. <<Head(op[c].start), op[c].sid>> \in Key
    BY <2>1, RequestAssumption DEF Key
  <2>3. \E t : Spawn(t, <<Head(op[c].start), op[c].sid>>)
    BY <1>1 DEF StartNext
  <2>4. QED
    BY <2>2, <2>3
<1>2. CASE KillNext(c)
  BY <1>2 DEF KillNext
<1>3. CASE WaitDone(c) \/ WaitTimeout(c) \/ Push(c) \/ Erase(c)
  BY <1>3 DEF WaitDone, WaitTimeout, Push, Erase
<1>4. QED
  BY <1>1, <1>2, <1>3 DEF Handler

\* Every step keeps the invariant.
LEMMA NextAsk == DInv /\ AskInv /\ [Next]_vars => AskInv'
<1> SUFFICES ASSUME DInv, AskInv, [Next]_vars PROVE AskInv'
  OBVIOUS
<1>1. ThreadInv
  BY DEF DInv
<1>2. CASE UNCHANGED tvars
  BY <1>2 DEF tvars, AskInv, Asking, InUse, Heeding, Polling, Initialising, Robbed
<1>3. CASE Controller
  <2>1. UNCHANGED tvars
    BY <1>3 DEF Controller, CreateWatch, DestroyWatch, Call
  <2>2. QED
    BY <1>2, <2>1
<1>4. ASSUME NEW c \in Caller, Handler(c) PROVE AskInv'
  BY <1>1, <1>2, <1>4, HandlerThreads, SendKillAsk, SpawnAsk
<1>5. ASSUME NEW t \in Stack, Own(t) \/ Container(t) \/ Others(t) \/ Cleanup(t)
      PROVE  AskInv'
  BY <1>1, <1>5, ThreadAsk, CleanupAsk
<1>6. CASE UNCHANGED vars
  BY <1>2, <1>6 DEF vars
<1>7. QED
  BY <1>3, <1>4, <1>5, <1>6 DEF Next

\* No thread has been started in an initial state.
LEMMA InitAsk == Init => AskInv
BY DEF Init, TInit, AskInv, Asking, InUse, Heeding, Polling, Initialising

\* Both invariants hold in every reachable state.
LEMMA AskInvariant == Spec => [](DInv /\ AskInv)
BY InitInv, NextInv, InitAsk, NextAsk, PTL DEF Spec

\* Whatever the scheduler, the containers and the controller do, a thread leaves its
\* loop only because of a kill that was sent for its pid after it was started: not
\* because of one for the thread before it, whose struct, slot and eventfd it took
\* over, and not because of one for another pid whose slot it was given;
\* unless a thread of its pid lost its struct to another (robbed).
THEOREM DaemonOnlyAsked == Spec => []OnlyAsked
<1>1. AskInv => OnlyAsked
  BY DEF AskInv, Asking, OnlyAsked, Robbed
<1>2. QED
  BY AskInvariant, <1>1, PTL

----------------------------------------------------------------------------
(* Whom an update waits for                                                 *)

\* A flag of doneMap_ that is not set has a thread that will set it.
FlagInv ==
    /\ \A t \in Stack : pc[t] # "free" => subjectLen[t] = 1
    /\ \A p \in DOMAIN doneMap : doneMap[p] \/ \E t \in ThreadsOf({p}) : pc[t] # "free"

\* A step that frees no thread and leaves the flags alone.
LEMMA FlagsStay ==
  ASSUME ThreadInv, FlagInv, UNCHANGED <<doneMap, subjectLen, key>>,
         \A t \in Stack : pc'[t] = "free" <=> pc[t] = "free"
  PROVE  FlagInv'
BY DEF FlagInv, ThreadsOf

\* A step of a thread moves that thread; only Out ends it, and none frees it.
LEMMA ThreadMoves ==
  ASSUME ThreadInv, NEW u \in Stack,
         Step(u) \/ Rewalk(u) \/ Removal(u) \/ Follow(u) \/ Inconsistent(u) \/ EpollClosed(u)
  PROVE  /\ pc[u] \notin {"free", "ended"} /\ UNCHANGED <<key, asked>>
         /\ \E q \in PC \ {"free"} : /\ pc' = [pc EXCEPT ![u] = q]
                                     /\ q = "ended" => Out(u)
<1>1. pc \in [Stack -> PC] /\ pc[u] \notin {"free", "ended"} /\ UNCHANGED <<key, asked>>
  BY DEF ThreadInv, TTypeOK, Step, Begin, Walk, Visit, PutBack, AlreadyCached, PickSlot, Put,
         RemoveEntry, RemoveDone, RemoveFailed, Rebuild, ReadEventfd, KillPending, Out,
         Rewalk, Removal, Follow, Inconsistent, Event, EpollClosed, avars
<1>2. \E q \in PC \ {"free"} : pc' = [pc EXCEPT ![u] = q] /\ (q = "ended" => Out(u))
  <2>1. CASE Out(u)
    BY <2>1 DEF PC, Out
  <2>2. CASE Begin(u) \/ Walk(u) \/ Visit(u) \/ PutBack(u)
    BY <2>2 DEF PC, Begin, Walk, Visit, PutBack
  <2>6. CASE AlreadyCached(u) \/ PickSlot(u) \/ Put(u)
    BY <2>6 DEF PC, AlreadyCached, PickSlot, Put, EnterLoop
  <2>7. CASE RemoveDone(u) \/ RemoveFailed(u) \/ Rebuild(u)
    BY <2>7 DEF PC, RemoveDone, RemoveFailed, Rebuild
  <2>3. CASE RemoveEntry(u) \/ ReadEventfd(u)
    <3>1. pc' = [pc EXCEPT ![u] = pc[u]] \/ pc' = [pc EXCEPT ![u] = "out"]
      BY <1>1, <2>3 DEF RemoveEntry, ReadEventfd
    <3>2. pc[u] \in PC \ {"free", "ended"}
      BY <1>1
    <3>3. QED
      BY <3>1, <3>2 DEF PC
  <2>4. CASE Rewalk(u) \/ Removal(u) \/ Follow(u) \/ Inconsistent(u) \/ EpollClosed(u)
    BY <2>4 DEF PC, Rewalk, Removal, Follow, Inconsistent, EpollClosed
  <2>5. QED
    BY <2>1, <2>2, <2>3, <2>4, <2>6, <2>7 DEF Step
<1>3. QED
  BY <1>1, <1>2

\* createInotifyWatcher, for a pod with one subject
LEMMA StartNextFlags ==
  ASSUME OneSubject, DInv, FlagInv, NEW c \in Caller, StartNext(c)
  PROVE  FlagInv'
<1> DEFINE p == Head(op[c].start)
<1>1. /\ ThreadInv /\ op[c].start # <<>> /\ op[c].start \in Seq(Pid)
      /\ op[c].req \in Requests /\ op[c].sid \in 0 .. op[c].req.subjects - 1
  BY DEF DInv, HandlerInv, ITypeOK, InCall, Op, StartNext
<1>2. op[c].req.subjects = 1 /\ op[c].sid = 0 /\ p \in Pid
  BY <1>1 DEF OneSubject
<1>3. <<p, 0>> \in Key /\ <<p, 0>>[1] = p /\ <<p, 0>> # NoKey
  BY <1>1, <1>2, RequestAssumption DEF Key, NoKey
<1>4. PICK t \in StackFor :
        Spawn(t, <<p, 0>>) /\ subjectLen' = [subjectLen EXCEPT ![t] = 1]
  BY <1>2 DEF StartNext
<1>5. t \in Stack /\ pc[t] = "free"
  <2>1. t \in Stack
    BY <1>1, <1>3, <1>4, SpawnInv
  <2>2. key[t] = NoKey \/ pc[t] = "free"
    <3> DEFINE unused == {s \in Stack : key[s] = NoKey}
    <3>1. unused # {} => Min(unused) \in unused
      BY MinNat DEF Stack
    <3>2. QED
      BY <1>4, <3>1 DEF StackFor
  <2>3. QED
    BY <1>1, <2>1, <2>2, KeyIsNotNoKey DEF ThreadInv, Started
<1>6. /\ pc' = [pc EXCEPT ![t] = "begin"] /\ key' = [key EXCEPT ![t] = <<p, 0>>]
      /\ pc \in [Stack -> PC] /\ key \in [Stack -> Key \cup {NoKey}]
      /\ subjectLen \in [Stack -> Nat]
  BY <1>1, <1>4 DEF Spawn, ThreadInv, TTypeOK, DInv, HandlerInv, ITypeOK
<1>7. doneMap' = [q \in DOMAIN doneMap \cup {p} |-> IF q = p /\ 0 = 0 THEN FALSE ELSE doneMap[q]]
  BY <1>2 DEF StartNext, ResetDone
<1>8. ASSUME NEW u \in Stack, pc'[u] # "free" PROVE subjectLen'[u] = 1
  BY <1>4, <1>5, <1>6, <1>8 DEF FlagInv
<1>9. ASSUME NEW q \in DOMAIN doneMap'
      PROVE  doneMap'[q] \/ \E u \in ThreadsOf({q})' : pc'[u] # "free"
  <2>1. CASE q = p
    <3>1. t \in ThreadsOf({q})' /\ pc'[t] # "free"
      BY <1>3, <1>5, <1>6, <2>1 DEF ThreadsOf
    <3>2. QED
      BY <3>1
  <2>2. CASE q # p
    <3>1. q \in DOMAIN doneMap /\ doneMap'[q] = doneMap[q]
      BY <1>7, <1>9, <2>2
    <3>2. ASSUME NEW u \in ThreadsOf({q}), pc[u] # "free"
          PROVE  u \in ThreadsOf({q})' /\ pc'[u] # "free"
      BY <1>5, <1>6, <3>2 DEF ThreadsOf
    <3>3. QED
      BY <3>1, <3>2 DEF FlagInv
  <2>3. QED
    BY <2>1, <2>2
<1>10. QED
  BY <1>8, <1>9 DEF FlagInv

\* The cleanup thread of a container's only subject sets the flag.
LEMMA CleanupFlags ==
  ASSUME DInv, FlagInv, NEW t \in Stack, Cleanup(t)
  PROVE  FlagInv'
<1>1. /\ ThreadInv /\ ITypeOK /\ pc[t] = "ended" /\ pc' = [pc EXCEPT ![t] = "free"]
      /\ UNCHANGED <<key, subjectLen>>
  BY DEF Cleanup, DInv, HandlerInv
<1>2. subjectLen[t] = 1
  BY <1>1 DEF FlagInv
<1>3. doneMap' = [doneMap EXCEPT ![key[t][1]] = TRUE]
  BY <1>2 DEF Cleanup, LastOf
<1>4. pc \in [Stack -> PC] /\ doneMap \in [DOMAIN doneMap -> BOOLEAN]
  BY <1>1 DEF ThreadInv, TTypeOK, ITypeOK
<1>5. ASSUME NEW p \in DOMAIN doneMap'
      PROVE  doneMap'[p] \/ \E u \in ThreadsOf({p})' : pc'[u] # "free"
  <2>1. p \in DOMAIN doneMap
    BY <1>3, <1>5
  <2>2. CASE p = key[t][1]
    BY <1>3, <1>4, <2>1, <2>2, Zenon
  <2>3. CASE p # key[t][1]
    <3>1. doneMap'[p] = doneMap[p]
      BY <1>3, <2>1, <2>3
    <3>2. ASSUME NEW u \in ThreadsOf({p}), pc[u] # "free"
          PROVE  u \in ThreadsOf({p})' /\ pc'[u] # "free"
      BY <1>1, <1>4, <2>3, <3>2 DEF ThreadsOf
    <3>3. QED
      BY <2>1, <3>1, <3>2 DEF FlagInv
  <2>4. QED
    BY <2>2, <2>3
<1>6. QED
  BY <1>1, <1>4, <1>5 DEF FlagInv

\* Every step keeps the invariant.
LEMMA NextFlags ==
  ASSUME OneSubject, DInv, FlagInv, [Next]_vars
  PROVE  FlagInv'
<1>1. ThreadInv
  BY DEF DInv
<1>2. CASE UNCHANGED <<pc, key, doneMap, subjectLen>>
  BY <1>1, <1>2, FlagsStay
<1>3. CASE Controller
  <2>1. UNCHANGED <<pc, key, doneMap, subjectLen>>
    BY <1>3 DEF Controller, CreateWatch, DestroyWatch, Call, tvars
  <2>2. QED
    BY <1>2, <2>1
<1>4. ASSUME NEW c \in Caller, Handler(c) PROVE FlagInv'
  <2>1. CASE StartNext(c)
    BY <2>1, StartNextFlags
  <2>2. CASE KillNext(c) \/ WaitDone(c) \/ WaitTimeout(c) \/ Push(c) \/ Erase(c)
    <3>1. UNCHANGED <<pc, key, doneMap, subjectLen>>
      BY <2>2 DEF KillNext, SendKill, WaitDone, WaitTimeout, Push, Erase, tvars
    <3>2. QED
      BY <1>2, <3>1
  <2>3. QED
    BY <1>4, <2>1, <2>2 DEF Handler
<1>5. ASSUME NEW t \in Stack, Own(t) \/ Container(t) \/ Others(t) PROVE FlagInv'
  <2>1. UNCHANGED <<doneMap, subjectLen>>
    BY <1>5 DEF Own, Container, Others, ivars
  <2>2. key' = key /\ \A u \in Stack : pc'[u] = "free" <=> pc[u] = "free"
    <3>1. /\ pc[t] \notin {"free", "ended"} /\ UNCHANGED <<key, asked>>
          /\ \E q \in PC \ {"free"} : pc' = [pc EXCEPT ![t] = q]
      BY <1>1, <1>5, ThreadMoves DEF Own, Container, Others
    <3>2. QED
      BY <1>1, <3>1 DEF ThreadInv, TTypeOK
  <2>3. QED
    BY <1>1, <2>1, <2>2, FlagsStay
<1>6. CASE UNCHANGED vars
  BY <1>2, <1>6 DEF vars, tvars, ivars
<1>7. QED
  BY <1>3, <1>4, <1>5, <1>6, CleanupFlags DEF Next

\* If no pod is watched for more than one subject, an update never waits for a
\* container whose threads have all ended and were cleaned up, although kills get
\* lost, waits time out, several threads of one pid may run and end in any order,
\* and cleanup threads of old and new watchers write to one flag.
THEOREM DaemonNoWait ==
  ASSUME OneSubject
  PROVE  Spec => []NoWaitForNobody
<1>1. Init => FlagInv
  BY DEF Init, TInit, FlagInv
<1>2. FlagInv => NoWaitForNobody
  BY DEF FlagInv, NoWaitForNobody
<1>3. DInv /\ FlagInv /\ [Next]_vars => FlagInv'
  BY NextFlags
<1>4. QED
  BY InitInv, NextInv, <1>1, <1>2, <1>3, PTL DEF Spec
=============================================================================
