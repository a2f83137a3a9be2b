---------------------------- MODULE ServiceProofs ----------------------------
(***************************************************************************)
(* The daemon implements the safety part of WatchService: each step of a    *)
(* thread, of a handler or of a cleanup thread is one of the service or one *)
(* the service cannot tell.                                                 *)
(***************************************************************************)
EXTENDS ListProofs

\* A step that changes nothing the service has.
LEMMA Unseen ==
  ASSUME Watched' = Watched, Listed' = Listed, Exempt' = Exempt
  PROVE  [Service!Next]_(Service!svars)
BY DEF Service!svars

\* CreateWatch and DestroyWatch up to their first effect: containers that another
\* call is about are given up.
LEMMA CallService ==
  ASSUME DInv, NEW c \in Caller, NEW r \in Requests, Call(c, r)
  PROVE  [Service!Next]_(Service!svars)
<1> DEFINE P == Range(r.pids) \cap Busy
<1>1. UNCHANGED <<tvars, watchers>> /\ contested' = contested \cup P
  BY DEF Call
<1>2. Watched' = Watched /\ Listed' = Listed /\ Exempt' = Exempt \cup P
  BY <1>1, WatchedStays DEF tvars, Listed, Exempt
<1>3. P \in SUBSET Pid
  BY RequestAssumption DEF Range
<1> HIDE DEF P
<1>4. Service!GiveUp(P)
  BY <1>2 DEF Service!GiveUp
<1>5. QED
  BY <1>3, <1>4 DEF Service!Next

\* sendKillSignalToWatcher for one pid
LEMMA KillNextService ==
  ASSUME DInv, NEW c \in Caller, KillNext(c)
  PROVE  [Service!Next]_(Service!svars)
<1>1. PICK p \in Pid : SendKill(p)
  <2>1. op[c].kill \in Seq(Pid) /\ op[c].kill # <<>>
    BY DEF DInv, HandlerInv, ITypeOK, InCall, Op, KillNext
  <2>2. Head(op[c].kill) \in Pid /\ SendKill(Head(op[c].kill))
    BY <2>1 DEF KillNext
  <2>3. QED
    BY <2>2
<1>2. UNCHANGED <<watchers, contested, robbed>>
  BY <1>1 DEF KillNext, SendKill
<1>3. Watched' = Watched \ {p} /\ Listed' = Listed /\ Exempt' = Exempt
  BY <1>1, <1>2, KillWatched DEF Listed, Exempt
<1>4. Service!Stop(p)
  BY <1>3 DEF Service!Stop
<1>5. QED
  BY <1>4 DEF Service!Next

\* createInotifyWatcher
LEMMA StartNextService ==
  ASSUME DInv, NEW c \in Caller, StartNext(c)
  PROVE  [Service!Next]_(Service!svars)
<1> DEFINE p == Head(op[c].start)
           i == op[c].sid
<1>1. /\ op[c].start \in Seq(Pid) /\ op[c].start # <<>> /\ op[c].req \in Requests
      /\ i \in 0 .. op[c].req.subjects - 1 /\ UNCHANGED <<watchers, contested>>
  BY DEF DInv, HandlerInv, ITypeOK, InCall, Op, StartNext
<1>2. p \in Pid /\ <<p, i>> \in Key
  BY <1>1, RequestAssumption DEF Key
<1>3. PICK t : Spawn(t, <<p, i>>)
  BY DEF StartNext
<1> HIDE DEF p, i
<1>4. Watched' = Watched \cup {p} /\ robbed' = robbed
  BY <1>2, <1>3, SpawnWatched DEF DInv, Spawn
<1>5. Service!Start(p)
  BY <1>1, <1>4 DEF Service!Start, Listed, Exempt
<1>6. QED
  BY <1>2, <1>5 DEF Service!Next

\* The end of CreateWatch: all of the pod is watched.
LEMMA PushService ==
  ASSUME DInv, ListInv, NEW c \in Caller, Push(c)
  PROVE  [Service!Next]_(Service!svars)
<1>1. /\ UNCHANGED <<tvars, contested>> /\ op[c].at = "push" /\ op[c].req \in Requests
      /\ watchers \in Seq(Seq(Pid)) /\ watchers' = Stored(c)
  BY DEF Push, DInv, HandlerInv, ITypeOK, ListInv, CallShape
<1>2. Watched' = Watched /\ Exempt' = Exempt
  BY <1>1, WatchedStays DEF tvars, Exempt
<1>3. About(c) \in SUBSET Pid
  BY <1>1, RequestAssumption DEF About, Range
<1>4. About(c) \subseteq Watched \cup Exempt
  BY <1>1, <1>3 DEF ListInv, Progress, Due
<1>5. CASE watchers' = watchers
  BY <1>2, <1>5, Unseen DEF Listed
<1>6. CASE watchers' = Append(watchers, op[c].req.pids)
  <2> DEFINE n == Len(watchers)
  <2>1. /\ n \in Nat /\ DOMAIN watchers = 1 .. n /\ DOMAIN watchers' = 1 .. n + 1
        /\ watchers'[n + 1] = op[c].req.pids /\ \A i \in 1 .. n : watchers'[i] = watchers[i]
    <3>1. op[c].req.pids \in Seq(Pid)
      BY <1>1, RequestAssumption
    <3>2. QED
      BY <1>1, <1>6, <3>1
  <2> HIDE DEF n
  <2>2. \A p : p \in Listed' <=> p \in Listed \/ p \in About(c)
    <3>1. /\ n + 1 \in DOMAIN watchers' /\ \A i \in DOMAIN watchers : i \in DOMAIN watchers'
          /\ \A i \in DOMAIN watchers' : i = n + 1 \/ i \in DOMAIN watchers
      BY <2>1
    <3>2. QED
      BY <2>1, <3>1, IsListed, IsListedNext DEF About
  <2>3. Listed' = Listed \cup About(c)
    BY <2>2
  <2>4. Service!List(About(c))
    BY <1>2, <1>4, <2>3 DEF Service!List
  <2>5. QED
    BY <1>3, <2>4 DEF Service!Next
<1>7. QED
  BY <1>1, <1>5, <1>6 DEF Stored

\* The end of DestroyWatch: none of the pod is.
LEMMA EraseService ==
  ASSUME DInv, ListInv, NEW c \in Caller, Erase(c)
  PROVE  [Service!Next]_(Service!svars)
<1> DEFINE P == Listed \ Listed'
<1>1. /\ UNCHANGED <<tvars, contested>> /\ op[c].at = "erase" /\ op[c].req \in Requests
      /\ op[c].found \in {NoHandle, op[c].req.pids}
      /\ watchers \in Seq(Seq(Pid))
  BY DEF Erase, DInv, HandlerInv, ITypeOK, ListInv, CallShape
<1>2. Watched' = Watched /\ Exempt' = Exempt
  BY <1>1, WatchedStays DEF tvars, Exempt
<1>3. Len(watchers) \in Nat /\ DOMAIN watchers = 1 .. Len(watchers) /\ Range(NoHandle) = {}
  BY <1>1 DEF NoHandle, Range
<1>4. Listed' \subseteq Listed /\ P \subseteq About(c)
  <2>1. CASE watchers' = watchers
    BY <2>1 DEF Listed
  <2>2. ASSUME NEW n \in DOMAIN watchers, watchers[n] = op[c].found,
               DOMAIN watchers' = 1 .. Len(watchers) - 1,
               \A i \in 1 .. Len(watchers) - 1 :
                  watchers'[i] = IF i < n THEN watchers[i] ELSE watchers[i + 1]
        PROVE  Listed' \subseteq Listed /\ P \subseteq About(c)
    <3>1. ASSUME NEW i \in DOMAIN watchers'
          PROVE  \E j \in DOMAIN watchers : watchers'[i] = watchers[j]
      <4>1. i \in DOMAIN watchers /\ i + 1 \in DOMAIN watchers
        BY <1>3, <2>2
      <4>2. QED
        BY <2>2, <4>1
    <3>2. ASSUME NEW j \in DOMAIN watchers, j # n
          PROVE  \E i \in DOMAIN watchers' : watchers'[i] = watchers[j]
      <4>1. CASE j < n
        <5>1. j \in DOMAIN watchers'
          BY <1>3, <2>2, <4>1
        <5>2. QED
          BY <2>2, <4>1, <5>1
      <4>2. CASE ~(j < n)
        <5>1. j - 1 \in DOMAIN watchers' /\ ~(j - 1 < n) /\ (j - 1) + 1 = j
          BY <1>3, <2>2, <3>2, <4>2
        <5>2. QED
          BY <2>2, <5>1
      <4>3. QED
        BY <4>1, <4>2
    <3>3. Listed' \subseteq Listed
      BY <3>1, IsListed, IsListedNext
    <3>4. ASSUME NEW p \in Listed, p \notin Listed' PROVE p \in About(c)
      <4>1. PICK j \in DOMAIN watchers : p \in Range(watchers[j])
        BY IsListed
      <4>2. j = n
        BY <3>2, <3>4, <4>1, IsListedNext
      <4>3. QED
        BY <1>1, <1>3, <2>2, <4>1, <4>2 DEF About
    <3>5. QED
      BY <3>3, <3>4
  <2>3. \/ watchers' = watchers
        \/ \E n \in DOMAIN watchers :
              /\ watchers[n] = op[c].found /\ DOMAIN watchers' = 1 .. Len(watchers) - 1
              /\ \A i \in 1 .. Len(watchers) - 1 :
                    watchers'[i] = IF i < n THEN watchers[i] ELSE watchers[i + 1]
    BY EraseOne DEF Removed
  <2> HIDE DEF P
  <2>4. QED
    BY <2>1, <2>2, <2>3
<1>5. P \in SUBSET Pid
  BY <1>1, <1>4, RequestAssumption DEF About, Range
<1>6. P \cap Watched \subseteq Exempt
  BY <1>1, <1>4, <1>5 DEF ListInv, Progress, Due
<1>7. Listed' = Listed \ P
  BY <1>4
<1> HIDE DEF P
<1>8. Service!Unlist(P)
  BY <1>2, <1>6, <1>7 DEF Service!Unlist
<1>9. QED
  BY <1>5, <1>8 DEF Service!Next

\* A step of a thread
LEMMA ThreadService ==
  ASSUME DInv, AskInv, NEW u \in Stack, Own(u) \/ Container(u) \/ Others(u)
  PROVE  [Service!Next]_(Service!svars)
<1>1. /\ ThreadInv /\ UNCHANGED <<watchers, contested>> /\ Listed' = Listed
      /\ ThreadInv' /\ robbed \subseteq robbed'
  <2>1. /\ ThreadInv /\ UNCHANGED <<watchers, contested>>
    BY DEF DInv, Own, Container, Others, ivars
  <2>2. ThreadInv'
    BY <2>1, StepInv, RewalkInv, EventInv, EpollClosedInv DEF Own, Container, Others
  <2>3. robbed \subseteq robbed'
    BY DEF Own, Container, Others, avars, Step, Begin, Walk, Visit, PutBack, AlreadyCached, PickSlot,
           Put, RemoveEntry, RemoveDone, RemoveFailed, Rebuild, ReadEventfd, Out, Rewalk,
           Removal, Follow, Inconsistent, EpollClosed
  <2>4. QED
    BY <2>1, <2>2, <2>3 DEF Listed
<1> DEFINE P == robbed' \ robbed
           p == key[u][1]
<1>2. P \in SUBSET Pid /\ Exempt' = Exempt \cup P
  BY <1>1 DEF ThreadInv, TTypeOK, Exempt
<1>3. Watched' # Watched =>
        Watched' \subseteq Watched /\ \A x \in Watched \ Watched' : x = p /\ x \in robbed
  BY <1>1, ThreadWatched
<1> HIDE DEF P, p
<1>4. CASE Watched' = Watched
  <2>1. Service!GiveUp(P)
    BY <1>1, <1>2, <1>4 DEF Service!GiveUp
  <2>2. QED
    BY <1>2, <2>1 DEF Service!Next
<1>5. CASE Watched' # Watched
  <2>1. p \in Watched /\ p \in Exempt /\ Watched' = Watched \ {p}
    BY <1>3, <1>5 DEF Exempt
  <2>2. Service!Fail(p, P)
    BY <1>1, <1>2, <2>1 DEF Service!Fail
  <2>3. p \in Pid
    BY <2>1, IsWatched
  <2>4. QED
    BY <1>2, <2>2, <2>3 DEF Service!Next
<1>6. QED
  BY <1>4, <1>5

\* Every step of the daemon is one of the service, or one it cannot tell.
LEMMA NextService ==
  ASSUME DInv, AskInv, ListInv, [Next]_vars
  PROVE  [Service!Next]_(Service!svars)
<1>1. CASE Controller
  BY <1>1, CallService DEF Controller, CreateWatch, DestroyWatch
<1>2. CASE UNCHANGED <<tvars, watchers, contested>>
  <2>1. Watched' = Watched /\ Listed' = Listed /\ Exempt' = Exempt
    BY <1>2, WatchedStays DEF tvars, Listed, Exempt
  <2>2. QED
    BY <2>1, Unseen
<1>3. ASSUME NEW c \in Caller, Handler(c) PROVE [Service!Next]_(Service!svars)
  <2>1. CASE WaitDone(c) \/ WaitTimeout(c)
    BY <1>2, <2>1 DEF WaitDone, WaitTimeout
  <2>2. CASE KillNext(c) \/ StartNext(c)
    BY <2>2, KillNextService, StartNextService
  <2>3. CASE Push(c) \/ Erase(c)
    BY <2>3, PushService, EraseService
  <2>4. QED
    BY <1>3, <2>1, <2>2, <2>3 DEF Handler
<1>4. ASSUME NEW t \in Stack, Cleanup(t) PROVE [Service!Next]_(Service!svars)
  <2>1. Watched' = Watched
    BY <1>4, CleanupWatched DEF DInv
  <2>2. Listed' = Listed /\ Exempt' = Exempt
    BY <1>4 DEF Cleanup, avars, Listed, Exempt
  <2>3. QED
    BY <2>1, <2>2, Unseen
<1>5. CASE UNCHANGED vars
  BY <1>2, <1>5 DEF vars, ivars
<1>6. QED
  BY <1>1, <1>3, <1>4, <1>5, ThreadService DEF Next

\* At first no container is watched, listed or given up.
LEMMA InitService == Init => Service!Init
<1> SUFFICES ASSUME Init PROVE Service!Init
  OBVIOUS
<1>1. watchers = <<>> /\ key = [t \in Stack |-> NoKey] /\ robbed = {} /\ contested = {}
  BY DEF Init, TInit
<1>2. Watched = {}
  BY <1>1, IsWatched
<1>3. Listed = {} /\ Exempt = {}
  BY <1>1 DEF Listed, Exempt
<1>4. QED
  BY <1>2, <1>3 DEF Service!Init

\* If a container belongs to one pod, the daemon implements the safety part of the
\* service it promises its controller, with no assumption on the scheduler, on the
\* containers or on when calls come: a watcher ends only when it is asked to, a pod is
\* listed only when each of its containers has a watcher, and taken off the list only
\* when all their watchers were asked to stop; the promise ends for a container that
\* two calls were about at a time or whose thread lost its struct, and for no other.
THEOREM DaemonImplementsService ==
  ASSUME PodsApart
  PROVE  Spec => Service!Safe
<1>1. DInv /\ AskInv /\ ListInv /\ [Next]_vars => [Service!Next]_(Service!svars)
  BY NextService
<1>2. QED
  BY ListInvariant, InitService, <1>1, PTL DEF Spec, Service!Safe
=============================================================================
