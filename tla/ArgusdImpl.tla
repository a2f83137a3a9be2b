----------------------------- MODULE ArgusdImpl -----------------------------
(***************************************************************************)
(* The gRPC service of src/argusd_impl.cc on top of the watcher threads:    *)
(* CreateWatch (which also updates), DestroyWatch, the cleanup thread of    *)
(* each watcher thread, and what they share: watchers_, doneMap_, wlcache.*)
(*                                                                         *)
(* A handler is a sequence of steps (op[c].at), between which the threads   *)
(* and the other handlers run; one access to watchers_ or doneMap_ is one   *)
(* step.  A handle of watchers_ is the sequence of its pids; there is one   *)
(* node.                                                                    *)
(***************************************************************************)
EXTENDS WatcherThreads

CONSTANTS
    Requests,   \* what the controller asks for: pids and the number of subjects
    Callers,    \* number of threads that serve calls
    MaxCalls    \* bound on the calls

ASSUME RequestAssumption ==
    /\ MaxCalls \in Nat /\ Callers \in Nat \ {0}
    /\ Requests \subseteq [pids : Seq(Pid), subjects : Nat \ {0}]
    /\ \A r \in Requests : 0 .. r.subjects - 1 \subseteq Sid

\* A container belongs to one pod, whose containers do not change.
PodsApart == \A r, q \in Requests :
    r.pids = q.pids \/ Range(r.pids) \cap Range(q.pids) = {}

\* A pod is watched for one subject.
OneSubject == \A r \in Requests : r.subjects = 1

VARIABLES
    watchers,    \* watchers_
    doneMap,     \* doneMap_, a map whose keys are the pids ever started
    subjectLen,  \* what the cleanup thread of each watcher thread captured
    op,          \* the call each of them is serving
    calls,       \* calls still to come
    contested    \* auxiliary: pids that two calls were about at a time

ivars == <<watchers, doneMap, subjectLen, op, calls, contested>>
vars == <<tvars, ivars>>

Caller == 1 .. Callers

NoHandle == <<>>

\* at: the next step; kill, start: pids to kill and to start threads for; sid: the
\* next subject of the first of these; found: the handle found at the beginning.
Op == [at : {"idle", "kill", "wait", "start", "push", "erase"},
       req : [pids : Seq(Pid), subjects : Nat], kill : Seq(Pid), start : Seq(Pid),
       sid : Nat, found : Seq(Pid)]

Idle == [at |-> "idle", req |-> [pids |-> <<>>, subjects |-> 1], kill |-> <<>>,
         start |-> <<>>, sid |-> 0, found |-> NoHandle]

\* findArgusdWatcherByPids: foundPid is what the last pid of the list made it.
FindWatcher(pids) ==
    LET i == SelectInSeq(watchers, LAMBDA h : pids # <<>> /\ Last(pids) \in Range(h))
    IN IF i = 0 THEN NoHandle ELSE watchers[i]

ThreadsOf(P) == {t \in Stack : key[t] # NoKey /\ key[t][1] \in P}

\* The pids that a call in progress is about.
Busy == UNION {Range(op[c].req.pids) : c \in Caller}

----------------------------------------------------------------------------
(* The calls                                                                *)

\* The threads that serve calls are interchangeable: the first idle one does.
IdleCallers == {c \in Caller : op[c].at = "idle"}

Call(c, r) ==
    /\ IdleCallers # {} /\ c = Min(IdleCallers)
    /\ calls > 0
    /\ calls' = calls - 1
    /\ contested' = contested \cup (Range(r.pids) \cap Busy)
    /\ UNCHANGED <<tvars, watchers, doneMap, subjectLen>>

\* CreateWatch: no pids, no watcher (CANCELLED); an existing one is killed.
CreateWatch(c, r) ==
    /\ Call(c, r)
    /\ LET h == FindWatcher(r.pids) IN
       op' = [op EXCEPT ![c] =
             IF r.pids = <<>> THEN Idle
             ELSE [at |-> IF h = NoHandle THEN "start" ELSE "kill", req |-> r,
                   kill |-> h, start |-> r.pids, sid |-> 0, found |-> h]]

\* DestroyWatch
DestroyWatch(c, r) ==
    /\ Call(c, r)
    /\ LET h == FindWatcher(r.pids) IN
       op' = [op EXCEPT ![c] =
             [at |-> IF h = NoHandle THEN "erase" ELSE "kill", req |-> r,
              kill |-> h, start |-> <<>>, sid |-> 0, found |-> h]]

----------------------------------------------------------------------------
(* Their steps                                                              *)

\* sendKillSignalToWatcher, one pid at a time
KillNext(c) ==
    /\ op[c].at = "kill"
    /\ SendKill(Head(op[c].kill))
    /\ op' = [op EXCEPT ![c].kill = Tail(@),
                 ![c].at = IF Len(op[c].kill) > 1 THEN "kill"
                        ELSE IF op[c].start = <<>> THEN "erase" ELSE "wait"]
    /\ UNCHANGED <<watchers, doneMap, subjectLen, calls, contested>>

\* The predicate of cv_.wait_until: all pids of the daemon, not those killed.
AllDone == \A p \in DOMAIN doneMap : doneMap[p]

WaitDone(c) ==
    /\ op[c].at = "wait"
    /\ AllDone
    /\ op' = [op EXCEPT ![c].at = "start"]
    /\ UNCHANGED <<tvars, watchers, doneMap, subjectLen, calls, contested>>

\* Slip: cv_.wait in the place of cv_.wait_until.
WaitForever(c) == FALSE

\* Two seconds have passed.
WaitTimeout(c) ==
    /\ op[c].at = "wait"
    /\ ~AllDone
    /\ op' = [op EXCEPT ![c].at = "start"]
    /\ UNCHANGED <<tvars, watchers, doneMap, subjectLen, calls, contested>>

\* Slip: the flags are kept by sid.
ResetDoneBySid(k) == [p \in DOMAIN doneMap \cup {k[2]} |-> IF p = k[2] THEN FALSE ELSE doneMap[p]]

\* doneMap_[pid] = false, before the first subject of a pid.
ResetDone(k) == [p \in DOMAIN doneMap \cup {k[1]} |->
                    IF p = k[1] /\ k[2] = 0 THEN FALSE ELSE doneMap[p]]

\* createInotifyWatcher, for each pid and for each subject
StartNext(c) ==
    /\ op[c].at = "start"
    /\ LET k == <<Head(op[c].start), op[c].sid>>
           lastSubject == op[c].sid + 1 = op[c].req.subjects
       IN /\ \E t \in StackFor :
                /\ Spawn(t, k)
                /\ subjectLen' = [subjectLen EXCEPT ![t] = op[c].req.subjects]
          /\ doneMap' = ResetDone(k)
          /\ op' = [op EXCEPT
                ![c].sid = IF lastSubject THEN 0 ELSE @ + 1,
                ![c].start = IF lastSubject THEN Tail(@) ELSE @,
                ![c].at = IF lastSubject /\ Len(op[c].start) = 1 THEN "push" ELSE "start"]
    /\ UNCHANGED <<watchers, calls, contested>>

\* Slip: a handle is stored for every call.
StoredAlways(c) == Append(watchers, op[c].req.pids)

\* watchers_ after CreateWatch: an update leaves the stored handle as it was.
Stored(c) == IF op[c].found = NoHandle THEN Append(watchers, op[c].req.pids) ELSE watchers

Push(c) ==
    /\ op[c].at = "push"
    /\ watchers' = Stored(c)
    /\ op' = [op EXCEPT ![c] = Idle]
    /\ UNCHANGED <<tvars, doneMap, subjectLen, calls, contested>>

\* Slip: remove(...) without erase.
EraseNothing(c) ==
    /\ op[c].at = "erase"
    /\ op' = [op EXCEPT ![c] = Idle]
    /\ UNCHANGED <<tvars, watchers, doneMap, subjectLen, calls, contested>>

\* watchers_.erase(remove(...)): the handle that was found, or none.
Erase(c) ==
    /\ op[c].at = "erase"
    /\ watchers' = RemoveFirst(watchers, op[c].found)
    /\ op' = [op EXCEPT ![c] = Idle]
    /\ UNCHANGED <<tvars, doneMap, subjectLen, calls, contested>>

\* Slip: cnt++ == subjectLen
LastAfter(t) == subjectLen[t] = 0

\* ++cnt == subjectLen: cnt is captured by value, and 1 in each cleanup thread.
LastOf(t) == subjectLen[t] = 1

\* The cleanup thread of t, once its future is ready.
Cleanup(t) ==
    /\ pc[t] = "ended"
    /\ pc' = [pc EXCEPT ![t] = "free"]
    /\ doneMap' = IF LastOf(t) THEN [doneMap EXCEPT ![key[t][1]] = TRUE] ELSE doneMap
    /\ UNCHANGED <<key, watch, local, struct, wlcache, walker, churn, avars,
                   watchers, subjectLen, op, calls, contested>>

----------------------------------------------------------------------------
Init ==
    /\ TInit
    /\ watchers = <<>>
    /\ doneMap = [p \in {} |-> FALSE]
    /\ subjectLen = [t \in Stack |-> 0]
    /\ op = [c \in Caller |-> Idle]
    /\ calls = MaxCalls
    /\ contested = {}

Controller == \E c \in Caller, r \in Requests : CreateWatch(c, r) \/ DestroyWatch(c, r)

Handler(c) ==
    KillNext(c) \/ WaitDone(c) \/ WaitTimeout(c) \/ StartNext(c) \/ Push(c) \/ Erase(c)

Own(t) == Step(t) /\ UNCHANGED ivars

\* What the container makes thread t do.
Container(t) ==
    /\ Rewalk(t) \/ Removal(t) \/ Follow(t) \/ Inconsistent(t)
    /\ UNCHANGED ivars

\* What the threads it shares its struct with do to it.
Others(t) == EpollClosed(t) /\ UNCHANGED ivars

Next ==
    \/ Controller
    \/ \E c \in Caller : Handler(c)
    \/ \E t \in Stack : Own(t) \/ Container(t) \/ Others(t) \/ Cleanup(t)

Spec == Init /\ [][Next]_vars

\* A thread that can run does; so does a handler, whose wait has a time limit.
FairSpec ==
    /\ Spec
    /\ \A c \in Caller : WF_vars(Handler(c))
    /\ \A t \in Stack : WF_vars(Own(t) \/ Cleanup(t))

----------------------------------------------------------------------------
(* Properties                                                               *)

ITypeOK ==
    /\ watchers \in Seq(Seq(Pid))
    /\ DOMAIN doneMap \subseteq Pid
    /\ doneMap \in [DOMAIN doneMap -> BOOLEAN]
    /\ subjectLen \in [Stack -> Nat]
    /\ op \in [Caller -> Op]
    /\ calls \in Nat
    /\ contested \subseteq Pid

\* The variables of the handlers and of the threads keep their types.
DaemonTypeOK == TTypeOK /\ ITypeOK

\* The pids GetWatchState returns.
Listed == UNION {Range(watchers[i]) : i \in DOMAIN watchers}

\* The pids with a watcher nobody has asked to stop.
Watched == {p \in Pid : \E t \in ThreadsOf({p}) : Live(t) /\ ~asked[t]}

\* The containers that two calls were about at a time, or whose thread lost its
\* struct: to a thread that was given the stack it is on, or because the thread
\* before it, from which it took the struct over, closed it on its way out.
Exempt == contested \cup robbed

\* Of the containers no call is about, GetWatchState lists exactly those that
\* have a watcher nobody has asked to stop, and no handle twice, whatever
\* happens to other containers: this is what the controller reconciles with.
ListExact ==
    /\ Listed \ (Busy \cup Exempt) = Watched \ (Busy \cup Exempt)
    /\ \A i, j \in DOMAIN watchers :
          watchers[i] = watchers[j] /\ Range(watchers[i]) \cap contested = {} => i = j

\* An update waits for no container all of whose threads have ended and were
\* cleaned up ("Wait for all inotify threads to be finished and cleaned up").
NoWaitForNobody == \A c \in Caller, p \in DOMAIN doneMap :
    op[c].at = "wait" /\ (\A t \in ThreadsOf({p}) : pc[t] = "free") => doneMap[p]

\* No two threads watch for the same container and subject (CreateWatch: "Stop
\* existing watcher polling. Wait for all inotify threads to be finished").
OneWatcher == \A t, u \in Stack :
    pc[t] = "loop" /\ pc[u] = "loop" /\ key[t] = key[u] => t = u

\* Every call returns, whether or not the threads it killed ever say so: the
\* wait of CreateWatch is limited.
CallsReturn == \A c \in Caller : [](op[c].at # "idle" => <>(op[c].at = "idle"))

Service == INSTANCE WatchService WITH
    watched <- Watched,
    listed <- Listed,
    exempt <- Exempt

\* The daemon implements the service it promises (WatchService): a watcher runs
\* until it is asked to stop; a container is listed once it has a watcher and taken
\* off the list once its watchers have been asked to stop, and does not stay
\* between the two.
ServiceSpec == Service!Spec
=============================================================================
