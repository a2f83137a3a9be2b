--------------------------- MODULE WatcherThreads ---------------------------
(***************************************************************************)
(* The life of the watcher threads, start_inotify_watcher and reinitialize  *)
(* of lib/argusnotify.c, and what they share without a lock: wlcache, the   *)
(* static watch_ of lib/argustree.c, and each other's struct arguswatch.    *)
(*                                                                         *)
(* The struct of a thread is a compound literal on its own stack, and its   *)
(* pointer stays in wlcache when the thread has ended.  A thread is named   *)
(* by the stack it runs on: a stack that is free again may be given to      *)
(* another thread, whose struct then lies where the old one was.            *)
(*                                                                         *)
(* What a thread does with its inotify instance is the module ArgusNotify;  *)
(* here a walk adds one entry to the paths of a struct, the key of the      *)
(* subject the directory belongs to.                                        *)
(***************************************************************************)
EXTENDS Integers, Sequences, FiniteSets, SequencesExt, FiniteSetsExt

CONSTANTS
    Stacks,     \* number of stacks
    Pid, Sid,   \* processes of containers; indices of subjects
    AllocInc,   \* ALLOC_INC
    MaxChurn,   \* bound on the events of containers that reach what is shared
    Serial      \* TRUE to rule out that two threads initialise or walk at a time

ASSUME StackAssumption == Stacks \in Nat \ {0}
ASSUME AllocAssumption == AllocInc \in Nat \ {0} /\ MaxChurn \in Nat
ASSUME SerialAssumption == Serial \in BOOLEAN

VARIABLES
    pc,        \* where each thread is
    key,       \* the pid and sid it was started with
    watch,     \* its pointer to a struct arguswatch
    local,     \* its other local variables
    struct,    \* the struct arguswatch on each stack
    wlcache,   \* the structs of the process, or NoStack in a slot never used
    walker,    \* the static watch_: the thread whose watch it points to
    churn,     \* such events still to come
    \* Auxiliary, read by properties only:
    asked,     \* whether a kill for its pid was sent since the thread was started
    robbed     \* pids of threads whose struct another thread has made its own or closed

avars == <<asked, robbed>>
tvars == <<pc, key, watch, local, struct, wlcache, walker, churn, asked, robbed>>

Stack == 1 .. Stacks
NoStack == 0

Key == Pid \X Sid
NoKey == <<>>

NoSlot == 0     \* -1 in the code, whose slots count from 0
Closed == -1    \* EOF in processevtfd; otherwise the kills it holds

PC == {"free", "begin", "walk", "visit", "back", "register", "put", "loop",
       "remove", "rebuild", "out", "ended"}

\* efd is the thread that made the epoll instance, NoStack if there is none,
\* pollers the threads whose instances have the eventfd, paths the keys whose
\* directories are cached.
Struct == [key : Key \cup {NoKey}, slot : Nat, evt : Nat \cup {Closed},
           efd : Stack \cup {NoStack}, pollers : SUBSET Stack,
           paths : SUBSET Key]

NewStruct(k) == [key |-> k, slot |-> NoSlot, evt |-> Closed, efd |-> NoStack,
                 pollers |-> {}, paths |-> {}]

\* rebuild is reinitialize's; caller is who started the walk; pick is the slot
\* find_empty_cache_slot returned; ep is what epoll_pwait waits on.
Local == [rebuild : BOOLEAN, caller : {"start", "rebuild", "rewalk"}, pick : Nat,
          ep : Stack \cup {NoStack}]

NoLocal == [rebuild |-> FALSE, caller |-> "start", pick |-> NoSlot, ep |-> NoStack]

Live(t) == pc[t] \notin {"free", "ended"}

\* Between the start of a walk and the loop a thread uses what is shared.
Initialising(t) == pc[t] \in {"walk", "visit", "back", "register", "put"}

MayWalk == Serial => \A u \in Stack : ~Initialising(u)

W(t) == watch[t]

----------------------------------------------------------------------------
(* lib/arguscache.c                                                         *)

\* find_cached_slot
FindCachedSlot(k) == SelectInSeq(wlcache, LAMBDA s : s # NoStack /\ struct[s].key = k)

IsEmpty(s) == s = NoStack \/ struct[s].slot = NoSlot

\* find_empty_cache_slot, when there is one
FindEmptySlot == SelectInSeq(wlcache, IsEmpty)

\* clear_watch: the slot stays with the struct.
ClearWatch(s) == [struct[s] EXCEPT !.evt = Closed, !.pollers = {}, !.paths = {}]

----------------------------------------------------------------------------
(* A thread                                                                 *)

\* std::thread: any stack that is not in use, or one that was never used.  The
\* stacks are interchangeable, so the first of those stands for them all.
StackFor ==
    LET unused == {s \in Stack : key[s] = NoKey}
    IN {s \in Stack : pc[s] = "free" /\ key[s] # NoKey}
       \cup (IF unused = {} THEN {} ELSE {Min(unused)})

Spawn(t, k) ==
    /\ t \in StackFor
    /\ pc' = [pc EXCEPT ![t] = "begin"]
    /\ key' = [key EXCEPT ![t] = k]
    /\ asked' = [asked EXCEPT ![t] = FALSE]
    /\ UNCHANGED <<watch, local, struct, wlcache, walker, churn, robbed>>

\* The threads that work with the struct on stack s.
Users(s) == {u \in Stack : Live(u) /\ pc[u] # "begin" /\ watch[u] = s}

\* start_inotify_watcher up to reinitialize, which closes the descriptors and
\* frees the paths of a struct that has a slot.
Begin(t) ==
    /\ pc[t] = "begin"
    /\ MayWalk
    /\ pc' = [pc EXCEPT ![t] = "walk"]
    /\ LET i == FindCachedSlot(key[t])
           s == IF i # NoSlot THEN wlcache[i] ELSE t
           rebuild == i # NoSlot /\ struct[s].slot # NoSlot
       IN /\ watch' = [watch EXCEPT ![t] = s]
          /\ local' = [local EXCEPT ![t] = [NoLocal EXCEPT !.rebuild = rebuild]]
          /\ struct' = [struct EXCEPT ![s] = IF rebuild THEN ClearWatch(s)
                                             ELSE IF i # NoSlot THEN @ ELSE NewStruct(key[t])]
          /\ robbed' = IF i # NoSlot THEN robbed ELSE robbed \cup {key[u][1] : u \in Users(t)}
    /\ UNCHANGED <<key, wlcache, walker, churn, asked>>

\* watch_path_recursive sets the static pointer ...
Walk(t) ==
    /\ pc[t] = "walk"
    /\ pc' = [pc EXCEPT ![t] = "visit"]
    /\ walker' = t
    /\ UNCHANGED <<key, watch, local, struct, wlcache, churn, avars>>

\* epoll_pwait(watch->efd, ...); the other locals are not read again.
BackToLoop(t) == local' = [local EXCEPT ![t] = [NoLocal EXCEPT !.ep = struct'[W(t)].efd]]

\* ... and traverse_tree adds what nftw found to the struct it points to.
Visit(t) ==
    /\ pc[t] = "visit"
    /\ struct' = [struct EXCEPT ![W(walker)].paths = @ \cup {struct[W(t)].key}]
    /\ pc' = [pc EXCEPT ![t] = IF local[t].caller = "rewalk" THEN "back" ELSE "register"]
    /\ UNCHANGED <<key, watch, local, wlcache, walker, churn, avars>>

\* process_next_inotify_event enters the struct in its slot again.
PutBack(t) ==
    /\ pc[t] = "back"
    /\ pc' = [pc EXCEPT ![t] = "loop"]
    /\ wlcache' = [i \in DOMAIN wlcache |-> IF i = struct[W(t)].slot THEN W(t) ELSE wlcache[i]]
    /\ struct' = struct
    /\ BackToLoop(t)
    /\ UNCHANGED <<key, watch, walker, churn, avars>>

\* reinitialize: a new eventfd; a rebuild adds it to the epoll instance.
NewEventfd(t) ==
    [struct[W(t)] EXCEPT !.evt = 0,
        !.pollers = IF local[t].rebuild THEN {struct[W(t)].efd} \ {NoStack} ELSE {}]

\* What start_inotify_watcher does after reinitialize: epoll_create1 and
\* add_epoll_ctl_fds.  A rebuild returns to the loop.
EnterLoop(t, s) ==
    /\ pc' = [pc EXCEPT ![t] = "loop"]
    /\ struct' = [struct EXCEPT ![W(t)] =
                     IF local[t].caller = "start"
                     THEN [s EXCEPT !.efd = t, !.pollers = @ \cup {t}] ELSE s]
    /\ BackToLoop(t)

\* reinitialize: a struct that is found is not added again.
AlreadyCached(t) ==
    /\ pc[t] = "register"
    /\ FindCachedSlot(struct[W(t)].key) # NoSlot
    /\ EnterLoop(t, NewEventfd(t))
    /\ UNCHANGED <<key, watch, wlcache, walker, churn, avars>>

\* find_empty_cache_slot looks for a slot and grows the array if there is none.
PickSlot(t) ==
    /\ pc[t] = "register"
    /\ FindCachedSlot(struct[W(t)].key) = NoSlot
    /\ pc' = [pc EXCEPT ![t] = "put"]
    /\ struct' = [struct EXCEPT ![W(t)] = NewEventfd(t)]
    /\ wlcache' = IF FindEmptySlot = NoSlot
                  THEN wlcache \o [i \in 1 .. AllocInc |-> NoStack] ELSE wlcache
    /\ local' = [local EXCEPT ![t].pick = IF FindEmptySlot = NoSlot
                                          THEN Len(wlcache) + 1 ELSE FindEmptySlot]
    /\ UNCHANGED <<key, watch, walker, churn, avars>>

\* add_watch_to_cache
Put(t) ==
    /\ pc[t] = "put"
    /\ wlcache' = [wlcache EXCEPT ![local[t].pick] = W(t)]
    /\ EnterLoop(t, [struct[W(t)] EXCEPT !.slot = local[t].pick])
    /\ UNCHANGED <<key, watch, walker, churn, avars>>

----------------------------------------------------------------------------
(* The epoll loop                                                           *)

\* value & ARGUSNOTIFY_KILL, where each kill has added ARGUSNOTIFY_KILL = 9:
\* whether bit 0 or bit 3 of the counter is set.
IsKill(n) == (9 * n) % 2 = 1 \/ ((9 * n) \div 8) % 2 = 1

KillPending(t) ==
    pc[t] = "loop" /\ struct[W(t)].evt > 0 /\ local[t].ep \in struct[W(t)].pollers

\* The eventfd is readable: its counter is read and becomes 0.
ReadEventfd(t) ==
    /\ KillPending(t)
    /\ struct' = [struct EXCEPT ![W(t)].evt = 0]
    /\ IF IsKill(struct[W(t)].evt)
       THEN pc' = [pc EXCEPT ![t] = "out"] /\ local' = local
       ELSE pc' = pc /\ BackToLoop(t)
    /\ UNCHANGED <<key, watch, wlcache, walker, churn, avars>>

\* The container makes process_next_inotify_event do more than log the event:
\* find_watch knows the descriptors of a struct that has a slot and entries.
Event(t) ==
    /\ pc[t] = "loop"
    /\ struct[W(t)].slot # NoSlot /\ struct[W(t)].paths # {}
    /\ churn > 0
    /\ churn' = churn - 1

\* A directory was created: the tree is walked again.
Rewalk(t) ==
    /\ Event(t)
    /\ MayWalk
    /\ pc' = [pc EXCEPT ![t] = "walk"]
    /\ local' = [local EXCEPT ![t].caller = "rewalk"]
    /\ struct' = [struct EXCEPT ![W(t)].paths = {}]
    /\ UNCHANGED <<key, watch, wlcache, walker, avars>>

\* A directory was moved away, or a root that is not followed: remove_subtree.
Removal(t) ==
    /\ Event(t)
    /\ pc' = [pc EXCEPT ![t] = "remove"]
    /\ UNCHANGED <<key, watch, local, struct, wlcache, walker, avars>>

\* A followed root was moved: find_replace_root_path sets the static pointer.
Follow(t) ==
    /\ Event(t)
    /\ pc' = [pc EXCEPT ![t] = "rebuild"]
    /\ walker' = t
    /\ UNCHANGED <<key, watch, local, struct, wlcache, avars>>

\* A descriptor is not found where it has to be.
Inconsistent(t) ==
    /\ Event(t)
    /\ pc' = [pc EXCEPT ![t] = "rebuild"]
    /\ UNCHANGED <<key, watch, local, struct, wlcache, walker, avars>>

\* mark_cache_slot_empty(i) for the path i: slot i becomes empty, whosever it is.
RemoveEntry(t) ==
    /\ pc[t] = "remove"
    /\ \E i \in DOMAIN wlcache : wlcache' = [wlcache EXCEPT ![i] = NoStack]
    /\ UNCHANGED <<pc, key, watch, local, struct, walker, churn, avars>>

RemoveDone(t) ==
    /\ pc[t] = "remove"
    /\ pc' = [pc EXCEPT ![t] = "loop"]
    /\ struct' = struct
    /\ BackToLoop(t)
    /\ UNCHANGED <<key, watch, wlcache, walker, churn, avars>>

\* inotify_rm_watch failed.
RemoveFailed(t) ==
    /\ pc[t] = "remove"
    /\ pc' = [pc EXCEPT ![t] = "rebuild"]
    /\ UNCHANGED <<key, watch, local, struct, wlcache, walker, churn, avars>>

\* reinitialize, called by process_next_inotify_event
Rebuild(t) ==
    /\ pc[t] = "rebuild"
    /\ MayWalk
    /\ LET rebuild == struct[W(t)].slot # NoSlot IN
       /\ local' = [local EXCEPT ![t].caller = "rebuild", ![t].rebuild = rebuild]
       /\ struct' = [struct EXCEPT ![W(t)] = IF rebuild THEN ClearWatch(W(t)) ELSE @]
    /\ pc' = [pc EXCEPT ![t] = "walk"]
    /\ UNCHANGED <<key, watch, wlcache, walker, churn, avars>>

\* epoll_pwait fails: another thread with this struct has closed its epoll instance.
\* A thread that was waiting already goes on waiting, for nothing.
EpollClosed(t) ==
    /\ pc[t] = "loop"
    /\ struct[W(t)].efd = NoStack
    /\ pc' = [pc EXCEPT ![t] = "out"]
    /\ UNCHANGED <<key, watch, local, struct, wlcache, walker, churn, avars>>

\* The descriptors are closed and the paths freed; the slot is not given back.
Out(t) ==
    /\ pc[t] = "out"
    /\ pc' = [pc EXCEPT ![t] = "ended"]
    /\ struct' = [struct EXCEPT ![W(t)] =
                     [(IF @.slot # NoSlot THEN ClearWatch(W(t)) ELSE @) EXCEPT
                         !.evt = Closed, !.pollers = {}, !.efd = NoStack]]
    /\ local' = [local EXCEPT ![t] = NoLocal]
    /\ robbed' = robbed \cup {key[u][1] : u \in {v \in Users(W(t)) \ {t} : ~asked[v]}}
    /\ UNCHANGED <<key, watch, wlcache, walker, churn, asked>>

\* Steps of the thread itself; the others begin with an event of the container.
Step(t) ==
    \/ Begin(t) \/ Walk(t) \/ Visit(t) \/ PutBack(t)
    \/ AlreadyCached(t) \/ PickSlot(t) \/ Put(t)
    \/ RemoveEntry(t) \/ RemoveDone(t) \/ RemoveFailed(t) \/ Rebuild(t)
    \/ ReadEventfd(t) \/ Out(t)

----------------------------------------------------------------------------
(* send_watcher_kill_signal                                                 *)

\* Slip: the pid is not compared.
OfAnyPid(s, p) == struct[s].key # NoKey

OfPid(s, p) == struct[s].key # NoKey /\ struct[s].key[1] = p

\* One write for each slot with a struct of this pid.
SendKill(p) ==
    /\ struct' = [s \in Stack |->
         IF OfPid(s, p) /\ struct[s].evt # Closed
         THEN [struct[s] EXCEPT !.evt = @ + Cardinality({i \in DOMAIN wlcache : wlcache[i] = s})]
         ELSE struct[s]]
    /\ asked' = [t \in Stack |-> asked[t] \/ (key[t] # NoKey /\ key[t][1] = p)]
    /\ UNCHANGED <<pc, key, watch, local, wlcache, walker, churn, robbed>>

TInit ==
    /\ pc = [t \in Stack |-> "free"]
    /\ key = [t \in Stack |-> NoKey]
    /\ watch = [t \in Stack |-> NoStack]
    /\ local = [t \in Stack |-> NoLocal]
    /\ struct = [t \in Stack |-> NewStruct(NoKey)]
    /\ wlcache = <<>>
    /\ walker = NoStack
    /\ churn = MaxChurn
    /\ asked = [t \in Stack |-> FALSE]
    /\ robbed = {}

TTypeOK ==
    /\ pc \in [Stack -> PC]
    /\ key \in [Stack -> Key \cup {NoKey}]
    /\ watch \in [Stack -> Stack \cup {NoStack}]
    /\ local \in [Stack -> Local]
    /\ struct \in [Stack -> Struct]
    /\ wlcache \in Seq(Stack \cup {NoStack})
    /\ walker \in Stack \cup {NoStack}
    /\ churn \in Nat
    /\ asked \in [Stack -> BOOLEAN]
    /\ robbed \subseteq Pid

----------------------------------------------------------------------------
(* Properties                                                               *)

\* A thread leaves its loop only if a kill for its pid was sent after it was
\* started: what was written for the thread before it, whose struct it took over,
\* does not end it, nor does a kill of another pid, unless its struct is no longer
\* its own or was closed (the new eventfd of reinitialize; send_watcher_kill_signal).
OnlyAsked == \A t \in Stack :
    pc[t] \in {"out", "ended"} => asked[t] \/ key[t][1] \in robbed

\* The slot find_empty_cache_slot returned ("Find a free slot in the cache") is
\* not the one under which a thread in its loop can be found.
FreeSlot == \A t, u \in Stack :
    pc[t] = "put" /\ pc[u] = "loop" => wlcache[local[t].pick] # W(u)

\* A thread in its loop has the directories of its own subject in its cache,
\* and no others (traverse_tree adds to whatever watch_ points to).
OwnPaths == \A t \in Stack : pc[t] = "loop" => struct[W(t)].paths = {key[t]}
=============================================================================
