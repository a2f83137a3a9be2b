----------------------------- MODULE ListProofs -----------------------------
(***************************************************************************)
(* What GetWatchState lists, for every number of pods, containers,          *)
(* subjects, threads, callers and calls and for every order of steps, if    *)
(* the requests are about pods: no container belongs to two of them.        *)
(***************************************************************************)
EXTENDS ThreadProofs

----------------------------------------------------------------------------
(* The inductive invariant                                                  *)

About(c) == Range(op[c].req.pids)

\* A call is about a pod, and what it found is the handle of that pod or none.
CallShape(o) ==
    /\ o.at = "idle" => o = Idle
    /\ o.at # "idle" =>
          /\ o.req \in Requests
          /\ o.found \in {NoHandle, o.req.pids}
          /\ Range(o.kill) \subseteq Range(o.req.pids)
          /\ Range(o.start) \subseteq Range(o.req.pids)
    /\ o.at = "kill" => o.start \in {<<>>, o.req.pids}
    /\ o.at = "wait" => o.start = o.req.pids
    /\ o.at \in {"start", "push"} => o.req.pids # <<>>

HandlesOfPods == \A i \in DOMAIN watchers :
    watchers[i] # <<>> /\ \E r \in Requests : r.pids = watchers[i]

\* One call at most is about p, one handle at most has it, and a call that is about
\* it knows whether one does.
Alone(p) == \A c, d \in Caller : p \in About(c) /\ p \in About(d) => c = d
Once(p) == \A i, j \in DOMAIN watchers :
    p \in Range(watchers[i]) /\ p \in Range(watchers[j]) => i = j
Knows(p) == \A c \in Caller : p \in About(c) => (op[c].found # NoHandle <=> p \in Listed)

\* How far call o has come with p, where w is the set of those watched.
Due(o, p, w) ==
    /\ o.at = "kill" /\ p \in w => p \in Range(o.kill)
    /\ o.at \in {"wait", "erase"} => p \notin w
    /\ o.at = "start" => p \in w \cup Range(o.start)
    /\ o.at = "push" => p \in w

Progress(p) == \A c \in Caller : p \in About(c) => Due(op[c], p, Watched)

AtRest(p) == p \notin Busy => (p \in Listed <=> p \in Watched)

ListInv ==
    /\ \A c \in Caller : CallShape(op[c])
    /\ HandlesOfPods
    /\ \A p \in Pid \ contested : Alone(p) /\ Once(p) /\ Knows(p)
    /\ \A p \in Pid \ Exempt : Progress(p) /\ AtRest(p)

----------------------------------------------------------------------------
(* Sequences                                                                *)

\* What is left of a list after its first element.
LEMMA TailRange ==
  ASSUME NEW S, NEW q \in Seq(S), q # <<>>
  PROVE  /\ Head(q) \in Range(q) /\ Range(Tail(q)) \subseteq Range(q)
         /\ \A e \in Range(q) : e = Head(q) \/ e \in Range(Tail(q))
         /\ Len(q) = 1 => Range(Tail(q)) = {}
<1> DEFINE r == Tail(q)
<1>1. /\ Len(q) \in Nat /\ Len(q) # 0 /\ DOMAIN q = 1 .. Len(q) /\ Head(q) = q[1]
      /\ r \in Seq(S) /\ Len(r) = Len(q) - 1 /\ DOMAIN r = 1 .. Len(q) - 1
      /\ \A i \in 1 .. Len(q) - 1 : r[i] = q[i + 1]
  <2>1. /\ Len(q) \in Nat /\ Len(q) # 0 /\ DOMAIN q = 1 .. Len(q) /\ Head(q) = q[1]
    BY EmptySeq
  <2>2. r \in Seq(S) /\ Len(r) = Len(q) - 1 /\ \A i \in 1 .. Len(q) - 1 : r[i] = q[i + 1]
    BY HeadTailProperties
  <2> HIDE DEF r
  <2>3. QED
    BY <2>1, <2>2
<1> HIDE DEF r
<1>2. Head(q) \in Range(q)
  BY <1>1 DEF Range
<1>3. ASSUME NEW i \in DOMAIN r PROVE r[i] \in Range(q)
  BY <1>1 DEF Range
<1>4. ASSUME NEW i \in DOMAIN q PROVE q[i] = Head(q) \/ q[i] \in Range(r)
  <2>1. CASE i = 1
    BY <1>1, <2>1
  <2>2. CASE i # 1
    <3>1. i - 1 \in DOMAIN r /\ r[i - 1] = q[i]
      BY <1>1, <2>2
    <3>2. QED
      BY <3>1 DEF Range
  <2>3. QED
    BY <2>1, <2>2
<1>5. Len(q) = 1 => Range(r) = {}
  BY <1>1 DEF Range
<1>6. Range(r) \subseteq Range(q) /\ \A e \in Range(q) : e = Head(q) \/ e \in Range(r)
  BY <1>3, <1>4, Zenon DEF Range
<1>7. QED
  BY <1>2, <1>5, <1>6 DEF r

\* r is q without one of its elements e, or q if it has none.
Removed(q, e, r) ==
    \/ r = q /\ e \notin Range(q)
    \/ \E n \in DOMAIN q :
          /\ q[n] = e /\ DOMAIN r = 1 .. Len(q) - 1
          /\ \A i \in 1 .. Len(q) - 1 : r[i] = IF i < n THEN q[i] ELSE q[i + 1]

\* remove from a vector: one element goes, the others stay in their order.
LEMMA RemoveOne ==
  ASSUME NEW S, NEW q \in Seq(S), NEW e, NEW r, r = RemoveFirst(q, e)
  PROVE  Removed(q, e, r)
<1> DEFINE I == {i \in 1 .. Len(q) : q[i] = e}
           n == IF I # {} THEN Min(I) ELSE 0
<1>1. Len(q) \in Nat /\ DOMAIN q = 1 .. Len(q) /\ I \subseteq 1 .. Len(q)
  OBVIOUS
<1>2. r = IF I # {} THEN SubSeq(q, 1, n - 1) \o SubSeq(q, n + 1, Len(q)) ELSE q
  BY DEF RemoveFirst, RemoveAt, SelectInSeq
<1>3. \A i \in I : i \in 1 .. Len(q) /\ q[i] = e
  OBVIOUS
<1>4. I = {} => e \notin Range(q)
  BY <1>1 DEF Range
<1> HIDE DEF I
<1>5. n \in 0 .. Len(q) /\ (n > 0 <=> n \in I) /\ (n = 0 => I = {})
  BY <1>1, MinOrZero, Zenon
<1> HIDE DEF n
<1>6. CASE I = {}
  BY <1>2, <1>4, <1>6 DEF Removed
<1>7. CASE I # {}
  <2> DEFINE m == Len(q)
             a == SubSeq(q, 1, n - 1)
             b == SubSeq(q, n + 1, m)
  <2>1. n \in 1 .. m /\ q[n] = e /\ m \in Nat /\ \A i \in 1 .. m : q[i] \in S
    <3>1. n # 0 /\ n \in 0 .. m /\ m \in Nat
      BY <1>1, <1>5, <1>7
    <3>2. n > 0
      BY <3>1
    <3>3. QED
      BY <1>1, <1>3, <1>5, <3>1, <3>2
  <2>2. /\ a \in Seq(S) /\ Len(a) = n - 1 /\ \A i \in 1 .. n - 1 : a[i] = q[i]
        /\ b \in Seq(S) /\ Len(b) = m - n /\ \A i \in 1 .. m - n : b[i] = q[n + i]
    <3> HIDE DEF m
    <3>1. /\ \A i \in 1 .. n - 1 : q[i] \in S
          /\ \A i \in n + 1 .. m : q[i] \in S
          /\ n - 1 \in Int /\ n + 1 \in Int /\ m \in Int
      BY <2>1
    <3>2. /\ a \in Seq(S) /\ Len(a) = IF 1 <= n - 1 THEN (n - 1) - 1 + 1 ELSE 0
          /\ \A i \in 1 .. (n - 1) - 1 + 1 : a[i] = q[1 + i - 1]
      BY <3>1, SubSeqProperties
    <3>3. /\ b \in Seq(S) /\ Len(b) = IF n + 1 <= m THEN m - (n + 1) + 1 ELSE 0
          /\ \A i \in 1 .. m - (n + 1) + 1 : b[i] = q[(n + 1) + i - 1]
      BY <3>1, SubSeqProperties
    <3> HIDE DEF a, b
    <3>4. QED
      BY <2>1, <3>2, <3>3
  <2>3. r = a \o b
    BY <1>2, <1>7
  <2> HIDE DEF a, b, m
  <2>4. /\ r \in Seq(S) /\ Len(r) = Len(a) + Len(b)
        /\ \A i \in 1 .. Len(a) + Len(b) : r[i] = IF i <= Len(a) THEN a[i] ELSE b[i - Len(a)]
    BY <2>2, <2>3, ConcatProperties
  <2>5. Len(a) = n - 1 /\ Len(b) = m - n /\ n \in 1 .. m /\ m \in Nat
    BY <2>1, <2>2
  <2>6. Len(r) = m - 1 /\ DOMAIN r = 1 .. m - 1
    BY <2>4, <2>5
  <2>7. ASSUME NEW i \in 1 .. m - 1 PROVE r[i] = IF i < n THEN q[i] ELSE q[i + 1]
    <3>1. r[i] = IF i <= n - 1 THEN a[i] ELSE b[i - (n - 1)]
      BY <2>4, <2>5
    <3>2. CASE i < n
      BY <2>2, <2>5, <3>1, <3>2
    <3>3. CASE ~(i < n)
      <4>1. i - (n - 1) \in 1 .. m - n /\ n + (i - (n - 1)) = i + 1 /\ ~(i <= n - 1)
        BY <2>5, <3>3
      <4>2. b[i - (n - 1)] = q[n + (i - (n - 1))]
        BY <2>2, <4>1
      <4>3. QED
        BY <3>1, <3>3, <4>1, <4>2
    <3>4. QED
      BY <3>2, <3>3
  <2>8. n \in DOMAIN q /\ q[n] = e
    BY <1>1, <2>1 DEF m
  <2>9. QED
    BY <2>6, <2>7, <2>8 DEF m, Removed
<1>8. QED
  BY <1>6, <1>7

----------------------------------------------------------------------------
(* What a step does to the containers that are watched                      *)

\* The threads of a container
LEMMA IsWatched ==
  ASSUME NEW p
  PROVE  p \in Watched <=>
            /\ p \in Pid
            /\ \E t \in Stack : key[t] # NoKey /\ key[t][1] = p /\ Live(t) /\ ~asked[t]
BY DEF Watched, ThreadsOf

\* The same for the state after a step.
LEMMA IsWatchedNext ==
  ASSUME NEW p
  PROVE  p \in Watched' <=>
            /\ p \in Pid
            /\ \E t \in Stack : key'[t] # NoKey /\ key'[t][1] = p /\ Live(t)' /\ ~asked'[t]
BY DEF Watched, ThreadsOf

\* Nothing happens to the threads.
LEMMA WatchedStays ==
  ASSUME UNCHANGED <<key, pc, asked>>
  PROVE  Watched' = Watched
BY DEF Watched, ThreadsOf, Live

\* A step of a thread starts no watcher, and ends one that nobody has asked to stop
\* only if its struct is not its own.
LEMMA ThreadWatched ==
  ASSUME ThreadInv, AskInv, NEW u \in Stack, Own(u) \/ Container(u) \/ Others(u)
  PROVE  /\ Watched' \subseteq Watched
         /\ ~Out(u) => Watched' = Watched
         /\ Out(u) => \A p \in Watched \ Watched' : p = key[u][1] /\ p \in robbed
<1>1. PICK q \in PC \ {"free"} :
        /\ pc[u] \notin {"free", "ended"} /\ UNCHANGED <<key, asked>>
        /\ pc' = [pc EXCEPT ![u] = q] /\ (q = "ended" => Out(u))
  BY ThreadMoves DEF Own, Container, Others
<1>2. pc \in [Stack -> PC]
  BY DEF ThreadInv, TTypeOK
<1>3. \A t \in Stack : Live(t)' => Live(t)
  BY <1>1, <1>2 DEF Live
<1>4. \A t \in Stack : Live(t) /\ ~Live(t)' => t = u /\ Out(u)
  BY <1>1, <1>2 DEF Live
<1>5. Watched' \subseteq Watched
  BY <1>1, <1>3, IsWatched, IsWatchedNext
<1>6. ASSUME NEW p \in Watched, p \notin Watched'
      PROVE  Out(u) /\ p = key[u][1] /\ p \in robbed
  <2>1. PICK t \in Stack : key[t] # NoKey /\ key[t][1] = p /\ Live(t) /\ ~asked[t]
    BY IsWatched
  <2>2. ~Live(t)' /\ p \in Pid
    BY <1>1, <1>6, <2>1, IsWatched, IsWatchedNext
  <2>3. t = u /\ Out(u)
    BY <1>4, <2>1, <2>2
  <2>4. pc[u] = "out"
    BY <2>3 DEF Out
  <2>5. QED
    BY <2>1, <2>3, <2>4 DEF AskInv, Asking, Robbed
<1>7. QED
  BY <1>5, <1>6

\* Nor does a cleanup thread.
LEMMA CleanupWatched ==
  ASSUME ThreadInv, NEW u \in Stack, Cleanup(u)
  PROVE  Watched' = Watched
<1>1. pc[u] = "ended" /\ pc' = [pc EXCEPT ![u] = "free"] /\ UNCHANGED <<key, asked>>
  BY DEF Cleanup, avars
<1>2. \A t \in Stack : Live(t)' <=> Live(t)
  BY <1>1 DEF Live, ThreadInv, TTypeOK
<1>3. QED
  BY <1>1, <1>2, IsWatched, IsWatchedNext

\* A kill asks all watchers of a pid to stop.
LEMMA KillWatched ==
  ASSUME NEW p, SendKill(p)
  PROVE  Watched' = Watched \ {p}
<1>1. /\ UNCHANGED <<pc, key>>
      /\ asked' = [t \in Stack |-> asked[t] \/ (key[t] # NoKey /\ key[t][1] = p)]
  BY DEF SendKill
<1>2. \A t \in Stack : (Live(t)' <=> Live(t))
  BY <1>1 DEF Live
<1>3. \A t \in Stack : asked'[t] <=> asked[t] \/ (key[t] # NoKey /\ key[t][1] = p)
  BY <1>1, Zenon
<1>4. \A x : x \in Watched' <=> x \in Watched /\ x # p
  BY <1>1, <1>2, <1>3, IsWatched, IsWatchedNext
<1>5. QED
  BY <1>4

\* A stack that a thread is started on had no watcher.
LEMMA SpawnStack ==
  ASSUME ThreadInv, NEW t, NEW k \in Key, Spawn(t, k)
  PROVE  t \in Stack /\ pc[t] = "free"
<1> DEFINE unused == {s \in Stack : key[s] = NoKey}
<1>1. t \in Stack /\ t \in StackFor
  BY SpawnInv DEF Spawn
<1>2. unused # {} => Min(unused) \in unused
  BY MinNat DEF Stack
<1>3. key[t] = NoKey \/ pc[t] = "free"
  BY <1>1, <1>2 DEF StackFor
<1>4. QED
  BY <1>1, <1>3, KeyIsNotNoKey DEF ThreadInv, Started

\* A new watcher
LEMMA SpawnWatched ==
  ASSUME ThreadInv, NEW t, NEW p \in Pid, NEW i, <<p, i>> \in Key, Spawn(t, <<p, i>>)
  PROVE  Watched' = Watched \cup {p}
<1>1. t \in Stack /\ pc[t] = "free"
  BY SpawnStack
<1>2. /\ pc' = [pc EXCEPT ![t] = "begin"] /\ key' = [key EXCEPT ![t] = <<p, i>>]
      /\ asked' = [asked EXCEPT ![t] = FALSE]
  BY DEF Spawn
<1>3. /\ pc'[t] = "begin" /\ key'[t] = <<p, i>> /\ ~asked'[t]
      /\ \A u \in Stack : u # t => pc'[u] = pc[u] /\ key'[u] = key[u] /\ asked'[u] = asked[u]
  BY <1>1, <1>2 DEF ThreadInv, TTypeOK
<1>4. key'[t] # NoKey /\ key'[t][1] = p /\ Live(t)' /\ ~Live(t)
  BY <1>1, <1>3, KeyIsNotNoKey DEF Live
<1>5. \A u \in Stack : u # t => (Live(u)' <=> Live(u))
  BY <1>3 DEF Live
<1>6. ASSUME NEW x PROVE x \in Watched' <=> x \in Watched \/ x = p
  <2>1. CASE x = p
    BY <1>1, <1>3, <1>4, <2>1, IsWatchedNext
  <2>2. CASE x # p
    BY <1>1, <1>3, <1>4, <1>5, <2>2, IsWatched, IsWatchedNext
  <2>3. QED
    BY <2>1, <2>2
<1>7. QED
  BY <1>6

----------------------------------------------------------------------------
(* Steps that leave the calls and the list alone                            *)

\* A step of a thread, of a cleanup thread or none.
LEMMA CallsStay ==
  ASSUME ListInv, UNCHANGED <<watchers, op, contested>>, robbed \subseteq robbed',
         \A p \in Pid \ robbed' : p \in Watched' <=> p \in Watched
  PROVE  ListInv'
<1>1. Listed' = Listed /\ Busy' = Busy /\ \A c \in Caller : About(c)' = About(c)
  BY DEF Listed, Busy, About
<1>2. HandlesOfPods' /\ \A c \in Caller : CallShape(op'[c])
  BY DEF ListInv, HandlesOfPods
<1>3. \A p \in Pid \ contested : Alone(p)' /\ Once(p)' /\ Knows(p)'
  BY <1>1 DEF ListInv, Alone, Once, Knows, About
<1>4. ASSUME NEW p \in Pid \ Exempt' PROVE Progress(p)' /\ AtRest(p)'
  <2>1. p \in Pid \ Exempt /\ (p \in Watched' <=> p \in Watched)
    BY DEF Exempt
  <2>2. Progress(p) /\ AtRest(p)
    BY <2>1 DEF ListInv
  <2>3. AtRest(p)'
    BY <1>1, <2>1, <2>2 DEF AtRest
  <2>4. ASSUME NEW c \in Caller, p \in About(c) PROVE Due(op[c], p, Watched')
    BY <2>1, <2>2, <2>4 DEF Progress, Due
  <2>5. QED
    BY <1>1, <2>3, <2>4 DEF Progress
<1>5. QED
  BY <1>2, <1>3, <1>4 DEF ListInv

\* Steps of threads
LEMMA ThreadList ==
  ASSUME ThreadInv, AskInv, ListInv, NEW u \in Stack,
         Own(u) \/ Container(u) \/ Others(u) \/ Cleanup(u)
  PROVE  ListInv'
<1>1. UNCHANGED <<watchers, op, contested>>
  BY DEF Own, Container, Others, Cleanup, ivars
<1>2. robbed \subseteq robbed'
  BY DEF Own, Container, Others, Cleanup, avars, Step, Begin, Walk, Visit, PutBack, AlreadyCached,
         PickSlot, Put, RemoveEntry, RemoveDone, RemoveFailed, Rebuild, ReadEventfd, Out,
         Rewalk, Removal, Follow, Inconsistent, EpollClosed
<1>3. \A p \in Pid \ robbed' : p \in Watched' <=> p \in Watched
  <2>1. CASE Cleanup(u)
    BY <2>1, CleanupWatched
  <2>2. CASE Own(u) \/ Container(u) \/ Others(u)
    BY <1>2, <2>2, ThreadWatched
  <2>3. QED
    BY <2>1, <2>2
<1>4. QED
  BY <1>1, <1>2, <1>3, CallsStay

----------------------------------------------------------------------------
(* Steps of the handlers                                                    *)

\* The pids calls are about, when one call has changed.
LEMMA AboutNext ==
  ASSUME op \in [Caller -> Op], NEW c \in Caller, NEW o, op' = [op EXCEPT ![c] = o]
  PROVE  /\ op'[c] = o /\ About(c)' = Range(o.req.pids)
         /\ \A d \in Caller : d # c => op'[d] = op[d] /\ About(d)' = About(d)
BY DEF About

\* A pid is busy if a call is about it.
LEMMA BusyIs == \A p : p \in Busy <=> \E c \in Caller : p \in About(c)
BY DEF Busy, About

\* The same for the state after a step.
LEMMA BusyNext == \A p : p \in Busy' <=> \E c \in Caller : p \in About(c)'
BY DEF Busy, About

\* A step within a call changes what is watched among its own pids only.
LEMMA WithinCall ==
  ASSUME ListInv, op \in [Caller -> Op], NEW c \in Caller, NEW o, op' = [op EXCEPT ![c] = o],
         UNCHANGED <<watchers, contested, robbed>>,
         o.req = op[c].req, o.found = op[c].found, CallShape(o),
         \A p \in Pid : p \notin About(c) => (p \in Watched' <=> p \in Watched),
         \A p \in Pid \ Exempt : p \in About(c) => Due(o, p, Watched')
  PROVE  ListInv'
<1>1. /\ op'[c] = o /\ \A d \in Caller : d # c => op'[d] = op[d]
      /\ \A d \in Caller : About(d)' = About(d)
  BY AboutNext DEF About
<1>2. Listed' = Listed /\ Busy' = Busy /\ Exempt' = Exempt
  <2>1. \A p : p \in Busy' <=> p \in Busy
    BY <1>1, BusyIs, BusyNext
  <2>2. QED
    BY <2>1 DEF Listed, Exempt
<1>3. HandlesOfPods' /\ \A d \in Caller : CallShape(op'[d])
  BY <1>1 DEF ListInv, HandlesOfPods
<1>4. \A d \in Caller : op'[d].found = op[d].found
  BY <1>1
<1>5. \A p \in Pid \ contested : Alone(p)' /\ Once(p)' /\ Knows(p)'
  BY <1>1, <1>2, <1>4 DEF ListInv, Alone, Once, Knows
<1>6. ASSUME NEW p \in Pid \ Exempt PROVE Progress(p)' /\ AtRest(p)'
  <2>1. Progress(p) /\ AtRest(p) /\ Alone(p)
    BY DEF ListInv, Exempt
  <2>2. AtRest(p)'
    BY <1>2, <2>1, BusyIs DEF AtRest
  <2>3. ASSUME NEW d \in Caller, p \in About(d) PROVE Due(op'[d], p, Watched')
    <3>1. CASE d = c
      BY <1>1, <2>3, <3>1
    <3>2. CASE d # c
      <4>1. p \notin About(c)
        BY <2>1, <2>3, <3>2 DEF Alone
      <4>2. QED
        BY <1>1, <2>1, <2>3, <3>2, <4>1 DEF Progress, Due
    <3>3. QED
      BY <3>1, <3>2
  <2>4. QED
    BY <1>1, <2>2, <2>3 DEF Progress
<1>7. QED
  BY <1>2, <1>3, <1>5, <1>6 DEF ListInv

\* sendKillSignalToWatcher for one pid
LEMMA KillNextList ==
  ASSUME DInv, ListInv, NEW c \in Caller, KillNext(c)
  PROVE  ListInv'
<1> DEFINE k == op[c].kill
           a == IF Len(k) > 1 THEN "kill" ELSE IF op[c].start = <<>> THEN "erase" ELSE "wait"
           o == [op[c] EXCEPT !.kill = Tail(k), !.at = a]
<1>1. /\ op \in [Caller -> Op] /\ op[c] \in Op /\ op[c].at = "kill" /\ k \in Seq(Pid) /\ k # <<>>
      /\ SendKill(Head(k)) /\ UNCHANGED <<watchers, contested, robbed>>
  BY DEF DInv, HandlerInv, ITypeOK, InCall, Op, KillNext, SendKill
<1>2. op' = [op EXCEPT ![c] = o]
  BY <1>1 DEF KillNext
<1>3. CallShape(op[c]) /\ op[c].req \in Requests /\ Range(k) \subseteq About(c)
  BY <1>1 DEF ListInv, CallShape, About
<1>4. /\ Head(k) \in Range(k) /\ Range(Tail(k)) \subseteq Range(k)
      /\ \A e \in Range(k) : e = Head(k) \/ e \in Range(Tail(k))
      /\ Len(k) = 1 => Range(Tail(k)) = {}
  BY <1>1, TailRange
<1>5. ~(Len(k) > 1) => Range(Tail(k)) = {}
  <2>1. PICK n \in Nat : n = Len(k)
    BY <1>1, LenProperties
  <2>2. n # 0
    BY <1>1, <2>1, EmptySeq
  <2>3. ~(n > 1) => n = 1
    BY <2>2
  <2>4. QED
    BY <1>4, <2>1, <2>3, Zenon
<1>6. Watched' = Watched \ {Head(k)}
  BY <1>1, KillWatched
<1>7. /\ a \in {"kill", "erase", "wait"} /\ (a = "wait" => op[c].start # <<>>)
      /\ a # "kill" => Range(Tail(k)) = {}
  BY <1>5
<1>8. /\ o.at = a /\ o.kill = Tail(k) /\ o.req = op[c].req /\ o.found = op[c].found
      /\ o.start = op[c].start
  <2> HIDE DEF a
  <2>1. QED
    BY <1>1 DEF Op
<1> HIDE DEF a, o
<1>9. CallShape(o)
  BY <1>1, <1>3, <1>4, <1>7, <1>8 DEF CallShape, About
<1>10. ASSUME NEW p \in Pid, p \notin About(c) PROVE p \in Watched' <=> p \in Watched
  BY <1>3, <1>4, <1>6, <1>10
<1>11. ASSUME NEW p \in Pid \ Exempt, p \in About(c) PROVE Due(o, p, Watched')
  <2>1. p \in Watched => p \in Range(k)
    BY <1>1, <1>11 DEF ListInv, Progress, Due
  <2>2. p \in Watched' => p \in Range(Tail(k))
    BY <1>4, <1>6, <2>1
  <2>3. QED
    BY <1>7, <1>8, <2>2 DEF Due
<1>12. QED
  BY <1>1, <1>2, <1>8, <1>9, <1>10, <1>11, WithinCall

\* The end of the wait, by the flags or by the clock
LEMMA WaitList ==
  ASSUME DInv, ListInv, NEW c \in Caller, WaitDone(c) \/ WaitTimeout(c)
  PROVE  ListInv'
<1> DEFINE o == [op[c] EXCEPT !.at = "start"]
<1>1. /\ op \in [Caller -> Op] /\ op[c] \in Op /\ op[c].at = "wait" /\ op[c].start # <<>>
      /\ UNCHANGED <<watchers, contested, tvars>>
  BY DEF DInv, HandlerInv, ITypeOK, InCall, Op, WaitDone, WaitTimeout
<1>2. op' = [op EXCEPT ![c] = o]
  BY <1>1 DEF WaitDone, WaitTimeout
<1>3. /\ o.at = "start" /\ o.req = op[c].req /\ o.found = op[c].found
      /\ o.start = op[c].start /\ o.kill = op[c].kill
  BY <1>1 DEF Op
<1> HIDE DEF o
<1>4. CallShape(op[c])
  BY DEF ListInv
<1>5. CallShape(o)
  BY <1>1, <1>3, <1>4 DEF CallShape
<1>6. Watched' = Watched /\ robbed' = robbed
  BY <1>1, WatchedStays DEF tvars
<1>7. ASSUME NEW p \in Pid \ Exempt, p \in About(c) PROVE Due(o, p, Watched')
  BY <1>1, <1>3, <1>4, <1>7 DEF Due, CallShape, About
<1>8. QED
  BY <1>1, <1>2, <1>3, <1>5, <1>6, <1>7, WithinCall

\* createInotifyWatcher for one pid and one subject
LEMMA StartNextList ==
  ASSUME DInv, ListInv, NEW c \in Caller, StartNext(c)
  PROVE  ListInv'
<1> DEFINE h == Head(op[c].start)
           i == op[c].sid
           last == i + 1 = op[c].req.subjects
           j == IF last THEN 0 ELSE i + 1
           st == IF last THEN Tail(op[c].start) ELSE op[c].start
           a == IF last /\ Len(op[c].start) = 1 THEN "push" ELSE "start"
           o == [op[c] EXCEPT !.sid = j, !.start = st, !.at = a]
<1>1. /\ op \in [Caller -> Op] /\ op[c] \in Op /\ op[c].at = "start"
      /\ op[c].start \in Seq(Pid) /\ op[c].start # <<>> /\ op[c].req \in Requests
      /\ i \in 0 .. op[c].req.subjects - 1
      /\ UNCHANGED <<watchers, contested>>
  BY DEF DInv, HandlerInv, ITypeOK, InCall, Op, StartNext
<1>2. op' = [op EXCEPT ![c] = o]
  BY <1>1 DEF StartNext
<1>3. CallShape(op[c]) /\ Range(op[c].start) \subseteq About(c)
  BY <1>1 DEF ListInv, CallShape, About
<1>4. /\ h \in Range(op[c].start) /\ Range(Tail(op[c].start)) \subseteq Range(op[c].start)
      /\ \A e \in Range(op[c].start) : e = h \/ e \in Range(Tail(op[c].start))
      /\ Len(op[c].start) = 1 => Range(Tail(op[c].start)) = {}
  BY <1>1, TailRange
<1>5. h \in Pid /\ <<h, i>> \in Key
  BY <1>1, RequestAssumption DEF Key
<1>6. Watched' = Watched \cup {h} /\ robbed' = robbed
  <2>1. PICK t : Spawn(t, <<h, i>>)
    BY DEF StartNext
  <2>2. robbed' = robbed
    BY <2>1 DEF Spawn
  <2> HIDE DEF h, i
  <2>3. QED
    BY <1>5, <2>1, <2>2, SpawnWatched DEF DInv
<1>7. /\ a \in {"push", "start"} /\ Range(st) \subseteq Range(op[c].start)
      /\ \A e \in Range(op[c].start) : e = h \/ e \in Range(st)
      /\ a = "push" => Range(st) = {}
  BY <1>4
<1>8. /\ o.at = a /\ o.start = st /\ o.req = op[c].req /\ o.found = op[c].found
      /\ o.kill = op[c].kill
  <2> HIDE DEF a, st, j
  <2>1. QED
    BY <1>1 DEF Op
<1> HIDE DEF a, st, j, last, i, h, o
<1>9. CallShape(o)
  BY <1>1, <1>3, <1>7, <1>8 DEF CallShape
<1>10. ASSUME NEW p \in Pid, p \notin About(c) PROVE p \in Watched' <=> p \in Watched
  BY <1>3, <1>4, <1>6, <1>10
<1>11. ASSUME NEW p \in Pid \ Exempt, p \in About(c) PROVE Due(o, p, Watched')
  <2>1. p \in Watched \/ p \in Range(op[c].start)
    BY <1>1, <1>11 DEF ListInv, Progress, Due
  <2>2. p \in Watched' \/ p \in Range(st)
    BY <1>6, <1>7, <2>1
  <2>3. QED
    BY <1>7, <1>8, <2>2 DEF Due
<1>12. QED
  BY <1>1, <1>2, <1>6, <1>8, <1>9, <1>10, <1>11, WithinCall

----------------------------------------------------------------------------
(* The end of a call                                                        *)

\* The list changes for the pids of the call only, and is right for them.
LEMMA ReturnList ==
  ASSUME ListInv, op \in [Caller -> Op], NEW c \in Caller, op' = [op EXCEPT ![c] = Idle],
         UNCHANGED <<tvars, contested>>, HandlesOfPods',
         \A p \in Pid \ contested : Once(p)',
         \A p \in Pid : p \notin About(c) => (p \in Listed' <=> p \in Listed),
         \A p \in Pid \ Exempt : p \in About(c) => (p \in Listed' <=> p \in Watched)
  PROVE  ListInv'
<1>1. /\ op'[c] = Idle /\ About(c)' = {}
      /\ \A d \in Caller : d # c => op'[d] = op[d] /\ About(d)' = About(d)
  <2>1. Range(Idle.req.pids) = {}
    BY DEF Idle, Range
  <2>2. QED
    BY <2>1, AboutNext
<1>2. Watched' = Watched /\ Exempt' = Exempt
  BY WatchedStays DEF tvars, Exempt
<1>3. \A d \in Caller : CallShape(op'[d])
  <2>1. CallShape(Idle)
    BY DEF CallShape, Idle
  <2>2. QED
    BY <1>1, <2>1 DEF ListInv
<1>4. ASSUME NEW p \in Pid \ contested PROVE Alone(p)' /\ Knows(p)'
  <2>1. Alone(p) /\ Knows(p)
    BY DEF ListInv
  <2>2. Alone(p)'
    BY <1>1, <2>1 DEF Alone
  <2>3. ASSUME NEW d \in Caller, p \in About(d)'
        PROVE  op'[d].found # NoHandle <=> p \in Listed'
    <3>1. d # c /\ p \in About(d) /\ op'[d] = op[d]
      BY <1>1, <2>3
    <3>2. p \notin About(c)
      BY <2>1, <3>1 DEF Alone
    <3>3. QED
      BY <2>1, <3>1, <3>2 DEF Knows
  <2>4. QED
    BY <2>2, <2>3 DEF Knows
<1>5. ASSUME NEW p \in Pid \ Exempt PROVE Progress(p)' /\ AtRest(p)'
  <2>1. Progress(p) /\ AtRest(p)
    BY DEF ListInv
  <2>2. Progress(p)'
    BY <1>1, <1>2, <2>1 DEF Progress
  <2>3. ASSUME p \notin Busy' PROVE p \in Listed' <=> p \in Watched
    <3>1. CASE p \in About(c)
      BY <3>1
    <3>2. CASE p \notin About(c)
      <4>1. p \notin Busy
        BY <1>1, <2>3, <3>2, BusyIs, BusyNext
      <4>2. QED
        BY <2>1, <3>2, <4>1 DEF AtRest
    <3>3. QED
      BY <3>1, <3>2
  <2>4. QED
    BY <1>2, <2>2, <2>3 DEF AtRest
<1>6. QED
  BY <1>2, <1>3, <1>4, <1>5 DEF ListInv

\* The pids of the list
LEMMA IsListed == \A p : p \in Listed <=> \E i \in DOMAIN watchers : p \in Range(watchers[i])
BY DEF Listed

\* The same for the state after a step.
LEMMA IsListedNext ==
  \A p : p \in Listed' <=> \E i \in DOMAIN watchers' : p \in Range(watchers'[i])
BY DEF Listed

\* The end of CreateWatch: a pod that is not listed gets a handle.
LEMMA PushList ==
  ASSUME DInv, ListInv, NEW c \in Caller, Push(c)
  PROVE  ListInv'
<1> DEFINE h == op[c].req.pids
<1>1. /\ op \in [Caller -> Op] /\ op[c].at = "push" /\ op' = [op EXCEPT ![c] = Idle]
      /\ UNCHANGED <<tvars, contested>> /\ watchers \in Seq(Seq(Pid)) /\ watchers' = Stored(c)
  BY DEF DInv, HandlerInv, ITypeOK, Push
<1>2. CallShape(op[c]) /\ op[c].req \in Requests /\ h # <<>> /\ h \in Seq(Pid)
  BY <1>1, RequestAssumption DEF ListInv, CallShape
<1>3. \A p \in Pid \ contested : p \in About(c) => (op[c].found # NoHandle <=> p \in Listed)
  BY DEF ListInv, Knows
<1>4. \A p \in Pid \ Exempt : p \in About(c) => p \in Watched
  BY <1>1 DEF ListInv, Progress, Due
<1>5. \A p \in Pid \ Exempt : p \in Pid \ contested
  BY DEF Exempt
<1>6. CASE op[c].found # NoHandle
  <2>1. watchers' = watchers
    BY <1>1, <1>6 DEF Stored
  <2>2. Listed' = Listed /\ HandlesOfPods' /\ \A p \in Pid \ contested : Once(p)'
    BY <2>1 DEF Listed, ListInv, HandlesOfPods, Once
  <2>3. QED
    BY <1>1, <1>3, <1>4, <1>5, <1>6, <2>2, ReturnList
<1>7. CASE op[c].found = NoHandle
  <2> DEFINE n == Len(watchers)
  <2>1. /\ n \in Nat /\ DOMAIN watchers = 1 .. n /\ DOMAIN watchers' = 1 .. n + 1
        /\ watchers'[n + 1] = h /\ \A i \in 1 .. n : watchers'[i] = watchers[i]
    <3>1. watchers' = Append(watchers, h)
      BY <1>1, <1>7 DEF Stored
    <3>2. QED
      BY <1>1, <1>2, <3>1
  <2> HIDE DEF n
  <2>2. \A i \in DOMAIN watchers' : i = n + 1 \/ (i \in DOMAIN watchers /\ watchers'[i] = watchers[i])
    BY <2>1
  <2>3. HandlesOfPods'
    BY <1>2, <2>1, <2>2 DEF ListInv, HandlesOfPods
  <2>4. \A p : p \in Listed' <=> p \in Listed \/ p \in About(c)
    <3>1. n + 1 \in DOMAIN watchers' /\ \A i \in DOMAIN watchers : i \in DOMAIN watchers'
      BY <2>1
    <3>2. QED
      BY <2>1, <2>2, <3>1, IsListed, IsListedNext DEF About
  <2>5. ASSUME NEW p \in Pid \ contested PROVE Once(p)'
    <3>1. Once(p)
      BY DEF ListInv
    <3>2. ASSUME NEW i \in DOMAIN watchers, p \in Range(h) PROVE p \notin Range(watchers[i])
      BY <1>3, <1>7, <3>2, IsListed DEF About
    <3>3. SUFFICES ASSUME NEW i \in DOMAIN watchers', NEW j \in DOMAIN watchers',
                          p \in Range(watchers'[i]), p \in Range(watchers'[j])
                   PROVE  i = j
      BY DEF Once
    <3>4. CASE i = n + 1 \/ j = n + 1
      BY <2>1, <2>2, <3>2, <3>3, <3>4
    <3>5. CASE i # n + 1 /\ j # n + 1
      BY <2>2, <3>1, <3>3, <3>5 DEF Once
    <3>6. QED
      BY <3>4, <3>5
  <2>6. QED
    BY <1>1, <1>4, <2>3, <2>4, <2>5, ReturnList
<1>8. QED
  BY <1>6, <1>7

\* watchers_.erase(remove(...))
LEMMA EraseOne ==
  ASSUME DInv, NEW c \in Caller, Erase(c)
  PROVE  Removed(watchers, op[c].found, watchers')
<1>1. watchers \in Seq(Seq(Pid)) /\ watchers' = RemoveFirst(watchers, op[c].found)
  BY DEF DInv, HandlerInv, ITypeOK, Erase
<1>2. QED
  BY <1>1, RemoveOne, Zenon

\* The end of DestroyWatch: the handle it found is taken off the list, and with it
\* all of the pod.
LEMMA EraseList ==
  ASSUME PodsApart, DInv, ListInv, NEW c \in Caller, Erase(c)
  PROVE  ListInv'
<1> DEFINE e == op[c].found
<1>1. /\ op \in [Caller -> Op] /\ op[c].at = "erase" /\ op' = [op EXCEPT ![c] = Idle]
      /\ UNCHANGED <<tvars, contested>> /\ watchers \in Seq(Seq(Pid))
  BY DEF DInv, HandlerInv, ITypeOK, Erase
<1>2. CallShape(op[c]) /\ op[c].req \in Requests /\ e \in {NoHandle, op[c].req.pids}
  BY <1>1 DEF ListInv, CallShape
<1>3. \A p \in Pid \ contested : p \in About(c) => (e # NoHandle <=> p \in Listed)
  BY DEF ListInv, Knows
<1>4. \A p \in Pid \ Exempt : p \in About(c) => p \notin Watched
  BY <1>1 DEF ListInv, Progress, Due
<1>5. \A p \in Pid \ Exempt : p \in Pid \ contested
  BY DEF Exempt
<1>6. Len(watchers) \in Nat /\ DOMAIN watchers = 1 .. Len(watchers)
  BY <1>1
<1> HIDE DEF e
<1>7. CASE watchers' = watchers /\ e \notin Range(watchers)
  <2>1. Listed' = Listed /\ HandlesOfPods' /\ \A p \in Pid \ contested : Once(p)'
    BY <1>7 DEF Listed, ListInv, HandlesOfPods, Once
  <2>2. ASSUME NEW p \in Pid \ contested, p \in About(c) PROVE p \notin Listed
    <3>1. SUFFICES ASSUME p \in Listed PROVE FALSE
      OBVIOUS
    <3>2. e = op[c].req.pids
      BY <1>2, <1>3, <2>2, <3>1
    <3>3. PICK i \in DOMAIN watchers : p \in Range(watchers[i])
      BY <3>1, IsListed
    <3>4. PICK r \in Requests : r.pids = watchers[i]
      BY DEF ListInv, HandlesOfPods
    <3>5. watchers[i] = e
      BY <1>2, <2>2, <3>2, <3>3, <3>4 DEF PodsApart, About
    <3>6. QED
      BY <1>7, <3>5 DEF Range
  <2>3. QED
    BY <1>1, <1>4, <1>5, <2>1, <2>2, ReturnList
<1>8. ASSUME NEW n \in DOMAIN watchers, watchers[n] = e, DOMAIN watchers' = 1 .. Len(watchers) - 1,
             \A i \in 1 .. Len(watchers) - 1 :
                watchers'[i] = IF i < n THEN watchers[i] ELSE watchers[i + 1]
      PROVE  ListInv'
  <2> DEFINE m == Len(watchers)
             at(i) == IF i < n THEN i ELSE i + 1
  <2>1. \A i \in DOMAIN watchers' : at(i) \in DOMAIN watchers \ {n} /\ watchers'[i] = watchers[at(i)]
    BY <1>6, <1>8
  <2>2. \A i, j \in DOMAIN watchers' : at(i) = at(j) => i = j
    BY <1>6, <1>8
  <2>3. ASSUME NEW j \in DOMAIN watchers \ {n} PROVE \E i \in DOMAIN watchers' : at(i) = j
    <3>1. CASE j < n
      BY <1>6, <1>8, <3>1
    <3>2. CASE ~(j < n)
      <4>1. j - 1 \in DOMAIN watchers' /\ at(j - 1) = j
        BY <1>6, <1>8, <3>2
      <4>2. QED
        BY <4>1
    <3>3. QED
      BY <3>1, <3>2
  <2> HIDE DEF m, at
  <2>4. e # NoHandle /\ e = op[c].req.pids /\ Range(e) = About(c)
    <3>1. watchers[n] # <<>>
      BY DEF ListInv, HandlesOfPods
    <3>2. QED
      BY <1>2, <1>8, <3>1 DEF NoHandle, About
  <2>5. HandlesOfPods'
    BY <2>1 DEF ListInv, HandlesOfPods
  <2>6. ASSUME NEW p \in Pid \ contested PROVE Once(p)'
    BY <2>1, <2>2 DEF ListInv, Once
  <2>7. ASSUME NEW p \in Pid, p \notin About(c) PROVE p \in Listed' <=> p \in Listed
    <3>1. \A j \in DOMAIN watchers : p \in Range(watchers[j]) => j # n
      BY <1>8, <2>4, <2>7
    <3>2. p \in Listed' => p \in Listed
      BY <2>1, IsListed, IsListedNext
    <3>3. ASSUME p \in Listed PROVE p \in Listed'
      <4>1. PICK j \in DOMAIN watchers : p \in Range(watchers[j])
        BY <3>3, IsListed
      <4>2. PICK i \in DOMAIN watchers' : at(i) = j
        BY <2>3, <3>1, <4>1
      <4>3. QED
        BY <2>1, <4>1, <4>2, IsListedNext
    <3>4. QED
      BY <3>2, <3>3
  <2>8. ASSUME NEW p \in Pid \ contested, p \in About(c) PROVE p \notin Listed'
    <3>1. \A j \in DOMAIN watchers : p \in Range(watchers[j]) => j = n
      <4>1. p \in Range(watchers[n])
        BY <1>8, <2>4, <2>8
      <4>2. QED
        BY <2>8, <4>1 DEF ListInv, Once
    <3>2. QED
      BY <2>1, <3>1, IsListedNext
  <2>9. QED
    BY <1>1, <1>4, <1>5, <2>5, <2>6, <2>7, <2>8, ReturnList
<1>9. QED
  BY <1>7, <1>8, EraseOne DEF e, Removed

----------------------------------------------------------------------------
(* The beginning of a call                                                  *)

\* findArgusdWatcherByPids looks for the last pid only, but finds the handle of the
\* pod, and finds it if any container of the pod is listed.
LEMMA FindWatcherFinds ==
  ASSUME PodsApart, ITypeOK, HandlesOfPods, NEW r \in Requests
  PROVE  /\ FindWatcher(r.pids) \in {NoHandle, r.pids}
         /\ \A p \in Range(r.pids) : FindWatcher(r.pids) # NoHandle <=> p \in Listed
<1> DEFINE q == r.pids
           I == {i \in 1 .. Len(watchers) : q # <<>> /\ Last(q) \in Range(watchers[i])}
           n == IF I # {} THEN Min(I) ELSE 0
<1>1. FindWatcher(q) = IF n = 0 THEN NoHandle ELSE watchers[n]
  BY DEF FindWatcher, SelectInSeq
<1>2. /\ Len(watchers) \in Nat /\ DOMAIN watchers = 1 .. Len(watchers)
      /\ I \subseteq 1 .. Len(watchers) /\ q \in Seq(Pid)
  BY RequestAssumption DEF ITypeOK
<1>3. q # <<>> => Last(q) \in Range(q)
  <2>1. q # <<>> => Len(q) \in DOMAIN q
    BY <1>2, EmptySeq
  <2>2. QED
    BY <2>1 DEF Last, Range
<1>4. \A i \in I : i \in DOMAIN watchers /\ q # <<>> /\ Last(q) \in Range(watchers[i])
  BY <1>2
<1>5. \A i \in DOMAIN watchers : q # <<>> /\ Last(q) \in Range(watchers[i]) => i \in I
  BY <1>2
<1> HIDE DEF I
<1>6. n \in 0 .. Len(watchers) /\ (n > 0 <=> n \in I) /\ (n = 0 => I = {})
  BY <1>2, MinOrZero, Zenon
<1> HIDE DEF n
<1>7. ASSUME NEW i \in DOMAIN watchers, NEW p \in Range(q), p \in Range(watchers[i])
      PROVE  watchers[i] = q
  <2>1. PICK x \in Requests : x.pids = watchers[i]
    BY DEF HandlesOfPods
  <2>2. QED
    BY <1>7, <2>1 DEF PodsApart
<1>8. CASE n = 0
  <2>1. ASSUME NEW p \in Range(q), p \in Listed PROVE FALSE
    <3>1. PICK i \in DOMAIN watchers : p \in Range(watchers[i])
      BY <2>1, IsListed
    <3>2. watchers[i] = q /\ watchers[i] # <<>>
      BY <1>7, <3>1 DEF HandlesOfPods
    <3>3. QED
      BY <1>3, <1>5, <1>6, <1>8, <3>2
  <2>2. QED
    BY <1>1, <1>8, <2>1
<1>9. CASE n # 0
  <2>1. n \in I
    BY <1>2, <1>6, <1>9
  <2>2. n \in DOMAIN watchers /\ Last(q) \in Range(q) /\ Last(q) \in Range(watchers[n])
    BY <1>3, <1>4, <2>1
  <2>3. watchers[n] = q /\ watchers[n] # NoHandle
    BY <1>7, <2>2 DEF HandlesOfPods, NoHandle
  <2>4. \A p \in Range(q) : p \in Listed
    BY <2>2, <2>3, IsListed
  <2>5. QED
    BY <1>1, <1>9, <2>3, <2>4
<1>10. QED
  BY <1>8, <1>9

\* A call that is about a pod no other call is about finds the list as it should be.
LEMMA BeginCall ==
  ASSUME DInv, ListInv, NEW c \in Caller, NEW r \in Requests, NEW o, op' = [op EXCEPT ![c] = o],
         op[c].at = "idle", UNCHANGED <<tvars, watchers>>,
         contested' = contested \cup (Range(r.pids) \cap Busy),
         o.req = r, CallShape(o),
         \A p \in Range(r.pids) : o.found # NoHandle <=> p \in Listed,
         \A p \in Range(r.pids) : (p \in Listed <=> p \in Watched) => Due(o, p, Watched)
  PROVE  ListInv'
<1>1. op \in [Caller -> Op] /\ op[c] = Idle
  BY DEF DInv, HandlerInv, ITypeOK, ListInv, CallShape
<1>2. About(c) = {}
  BY <1>1 DEF About, Idle, Range
<1>3. /\ op'[c] = o /\ About(c)' = Range(r.pids)
      /\ \A d \in Caller : d # c => op'[d] = op[d] /\ About(d)' = About(d)
  BY <1>1, AboutNext
<1>4. Watched' = Watched /\ robbed' = robbed /\ Listed' = Listed
  BY WatchedStays DEF tvars, Listed
<1>5. HandlesOfPods' /\ \A d \in Caller : CallShape(op'[d])
  BY <1>3 DEF ListInv, HandlesOfPods
<1>6. ASSUME NEW p \in Pid \ contested' PROVE Alone(p)' /\ Once(p)' /\ Knows(p)'
  <2>1. p \in Pid \ contested /\ ~(p \in Range(r.pids) /\ p \in Busy)
    OBVIOUS
  <2>2. Alone(p) /\ Once(p) /\ Knows(p)
    BY <2>1 DEF ListInv
  <2>3. Once(p)'
    BY <2>2 DEF Once
  <2>4. ASSUME NEW d \in Caller, d # c, p \in About(d)' PROVE p \in About(d) /\ p \notin Range(r.pids)
    BY <1>3, <2>1, <2>4, BusyIs
  <2>5. Alone(p)'
    BY <1>3, <2>2, <2>4 DEF Alone
  <2>6. Knows(p)'
    BY <1>3, <1>4, <2>2, <2>4 DEF Knows
  <2>7. QED
    BY <2>3, <2>5, <2>6
<1>7. ASSUME NEW p \in Pid \ Exempt' PROVE Progress(p)' /\ AtRest(p)'
  <2>1. p \in Pid \ Exempt /\ ~(p \in Range(r.pids) /\ p \in Busy)
    BY <1>4 DEF Exempt
  <2>2. Progress(p) /\ AtRest(p)
    BY <2>1 DEF ListInv
  <2>3. ASSUME p \notin Busy' PROVE p \notin Busy
    BY <1>2, <1>3, <2>3, BusyIs, BusyNext
  <2>4. ASSUME NEW d \in Caller, p \in About(d)' PROVE Due(op'[d], p, Watched)
    <3>1. CASE d = c
      BY <1>3, <2>1, <2>2, <2>4, <3>1 DEF AtRest
    <3>2. CASE d # c
      BY <1>3, <2>2, <2>4, <3>2 DEF Progress
    <3>3. QED
      BY <3>1, <3>2
  <2>5. QED
    BY <1>4, <2>2, <2>3, <2>4 DEF AtRest, Progress
<1>8. QED
  BY <1>5, <1>6, <1>7 DEF ListInv

\* CreateWatch up to its first effect
LEMMA CreateWatchList ==
  ASSUME PodsApart, DInv, ListInv, NEW c \in Caller, NEW r \in Requests, CreateWatch(c, r)
  PROVE  ListInv'
<1> DEFINE h == FindWatcher(r.pids)
           o == [at |-> IF h = NoHandle THEN "start" ELSE "kill", req |-> r,
                 kill |-> h, start |-> r.pids, sid |-> 0, found |-> h]
<1>1. /\ UNCHANGED <<tvars, watchers>> /\ IdleCallers # {} /\ c = Min(IdleCallers)
      /\ contested' = contested \cup (Range(r.pids) \cap Busy)
      /\ op' = [op EXCEPT ![c] = IF r.pids = <<>> THEN Idle ELSE o]
  BY Zenon DEF CreateWatch, Call
<1>2. op[c].at = "idle" /\ op \in [Caller -> Op] /\ op[c] = Idle
  <2>1. IdleCallers \subseteq Nat
    BY DEF IdleCallers, Caller
  <2>2. c \in IdleCallers
    BY <1>1, <2>1, MinNat
  <2>3. QED
    BY <2>2 DEF IdleCallers, DInv, HandlerInv, ITypeOK, ListInv, CallShape
<1>3. /\ h \in {NoHandle, r.pids}
      /\ \A p \in Range(r.pids) : h # NoHandle <=> p \in Listed
  BY FindWatcherFinds DEF DInv, HandlerInv, ListInv
<1> HIDE DEF h
<1>4. CASE r.pids = <<>>
  <2>1. op' = op /\ contested' = contested
    BY <1>1, <1>2, <1>4 DEF Range
  <2>2. Watched' = Watched /\ robbed' = robbed
    BY <1>1, WatchedStays DEF tvars
  <2>3. QED
    BY <1>1, <2>1, <2>2, CallsStay
<1>5. CASE r.pids # <<>>
  <2>1. Range(NoHandle) = {}
    BY DEF NoHandle, Range
  <2>2. CallShape(o)
    BY <1>3, <1>5, <2>1 DEF CallShape
  <2>3. \A p \in Range(r.pids) : Due(o, p, Watched)
    BY <1>3 DEF Due
  <2>4. op' = [op EXCEPT ![c] = o] /\ o.req = r /\ o.found = h
    BY <1>1, <1>5
  <2> HIDE DEF o
  <2>5. QED
    BY <1>1, <1>2, <1>3, <2>2, <2>3, <2>4, BeginCall
<1>6. QED
  BY <1>4, <1>5

\* DestroyWatch up to its first effect
LEMMA DestroyWatchList ==
  ASSUME PodsApart, DInv, ListInv, NEW c \in Caller, NEW r \in Requests, DestroyWatch(c, r)
  PROVE  ListInv'
<1> DEFINE h == FindWatcher(r.pids)
           o == [at |-> IF h = NoHandle THEN "erase" ELSE "kill", req |-> r,
                 kill |-> h, start |-> <<>>, sid |-> 0, found |-> h]
<1>1. /\ UNCHANGED <<tvars, watchers>> /\ IdleCallers # {} /\ c = Min(IdleCallers)
      /\ contested' = contested \cup (Range(r.pids) \cap Busy)
      /\ op' = [op EXCEPT ![c] = o]
  BY Zenon DEF DestroyWatch, Call
<1>2. op[c].at = "idle"
  <2>1. IdleCallers \subseteq Nat
    BY DEF IdleCallers, Caller
  <2>2. c \in IdleCallers
    BY <1>1, <2>1, MinNat
  <2>3. QED
    BY <2>2 DEF IdleCallers
<1>3. /\ h \in {NoHandle, r.pids}
      /\ \A p \in Range(r.pids) : h # NoHandle <=> p \in Listed
  BY FindWatcherFinds DEF DInv, HandlerInv, ListInv
<1> HIDE DEF h
<1>4. Range(NoHandle) = {} /\ Range(<<>>) = {}
  BY DEF NoHandle, Range
<1>5. CallShape(o)
  BY <1>3, <1>4 DEF CallShape
<1>6. \A p \in Range(r.pids) : (p \in Listed <=> p \in Watched) => Due(o, p, Watched)
  BY <1>3 DEF Due
<1>7. o.req = r /\ o.found = h
  OBVIOUS
<1> HIDE DEF o
<1>8. QED
  BY <1>1, <1>2, <1>3, <1>5, <1>6, <1>7, BeginCall

----------------------------------------------------------------------------
(* The theorem                                                              *)

\* At first nothing is listed, watched or asked for.
LEMMA InitList == Init => ListInv
<1> SUFFICES ASSUME Init PROVE ListInv
  OBVIOUS
<1>1. /\ watchers = <<>> /\ op = [c \in Caller |-> Idle] /\ key = [t \in Stack |-> NoKey]
  BY DEF Init, TInit
<1>2. \A c \in Caller : CallShape(op[c]) /\ About(c) = {}
  BY <1>1 DEF CallShape, Idle, About, Range
<1>3. DOMAIN watchers = {} /\ Listed = {}
  BY <1>1 DEF Listed
<1>4. Watched = {}
  BY <1>1, IsWatched
<1>5. QED
  BY <1>2, <1>3, <1>4 DEF ListInv, HandlesOfPods, Alone, Once, Knows, Progress, AtRest

\* Every step keeps the invariant.
LEMMA NextList ==
  ASSUME PodsApart, DInv, AskInv, ListInv, [Next]_vars
  PROVE  ListInv'
<1>1. CASE Controller
  BY <1>1, CreateWatchList, DestroyWatchList DEF Controller
<1>2. ASSUME NEW c \in Caller, Handler(c) PROVE ListInv'
  BY <1>2, KillNextList, WaitList, StartNextList, PushList, EraseList DEF Handler
<1>3. ASSUME NEW t \in Stack, Own(t) \/ Container(t) \/ Others(t) \/ Cleanup(t)
      PROVE  ListInv'
  BY <1>3, ThreadList DEF DInv
<1>4. CASE UNCHANGED vars
  <2>1. UNCHANGED <<watchers, op, contested, key, pc, asked, robbed>>
    BY <1>4 DEF vars, tvars, ivars
  <2>2. Watched' = Watched
    BY <2>1, WatchedStays
  <2>3. QED
    BY <2>1, <2>2, CallsStay
<1>5. QED
  BY <1>1, <1>2, <1>3, <1>4 DEF Next

\* All invariants of the daemon hold in every reachable state.
LEMMA ListInvariant ==
  ASSUME PodsApart
  PROVE  Spec => [](DInv /\ AskInv /\ ListInv)
<1>1. DInv /\ AskInv /\ ListInv /\ [Next]_vars => ListInv'
  BY NextList
<1>2. QED
  BY InitInv, NextInv, InitAsk, NextAsk, InitList, <1>1, PTL DEF Spec

\* If a container belongs to one pod, then of the containers that no call is about and
\* that never were the subject of two calls at a time, nor of a thread that lost its
\* struct to another, GetWatchState lists exactly those that have a watcher nobody
\* has asked to stop, and no handle twice: whatever the other containers, pods and
\* calls do, and however kills, walks, waits and cleanups interleave.
THEOREM DaemonListExact ==
  ASSUME PodsApart
  PROVE  Spec => []ListExact
<1>1. ASSUME DInv, ListInv PROVE ListExact
  <2>1. watchers \in Seq(Seq(Pid)) /\ Listed \subseteq Pid /\ Watched \subseteq Pid
    BY <1>1 DEF DInv, HandlerInv, ITypeOK, Listed, Watched, Range
  <2>2. Listed \ (Busy \cup Exempt) = Watched \ (Busy \cup Exempt)
    BY <1>1, <2>1 DEF ListInv, AtRest
  <2>3. ASSUME NEW i \in DOMAIN watchers, NEW j \in DOMAIN watchers,
               watchers[i] = watchers[j], Range(watchers[i]) \cap contested = {}
        PROVE  i = j
    <3>1. watchers[i] \in Seq(Pid) /\ watchers[i] # <<>>
      BY <1>1, <2>1 DEF ListInv, HandlesOfPods
    <3>2. Head(watchers[i]) \in Range(watchers[i]) /\ Head(watchers[i]) \in Pid
      BY <3>1, TailRange
    <3>3. QED
      BY <1>1, <2>3, <3>2 DEF ListInv, Once
  <2>4. QED
    BY <2>2, <2>3 DEF ListExact
<1>2. DInv /\ AskInv /\ ListInv => ListExact
  BY <1>1
<1>3. QED
  BY ListInvariant, <1>2, PTL
=============================================================================
