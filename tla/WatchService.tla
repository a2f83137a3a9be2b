---------------------------- MODULE WatchService ----------------------------
(***************************************************************************)
(* What the daemon promises its controller, whatever it does inside: a      *)
(* watcher runs until it is asked to stop, and GetWatchState lists a        *)
(* container from when it has a watcher until its watchers were asked to    *)
(* stop.  The promise is for each container by itself: it ends for those    *)
(* that become exempt, and for no other.                                    *)
(***************************************************************************)
CONSTANT Pid

VARIABLES
    watched,  \* the containers with a watcher nobody has asked to stop
    listed,   \* the containers GetWatchState returns
    exempt    \* the containers nothing is promised about any more

svars == <<watched, listed, exempt>>

Init == watched = {} /\ listed = {} /\ exempt = {}

Start(p) ==
    /\ watched' = watched \cup {p}
    /\ UNCHANGED <<listed, exempt>>

\* All watchers of p are asked to stop.
Stop(p) ==
    /\ watched' = watched \ {p}
    /\ UNCHANGED <<listed, exempt>>

List(P) ==
    /\ P \subseteq watched \cup exempt
    /\ listed' = listed \cup P
    /\ UNCHANGED <<watched, exempt>>

Unlist(P) ==
    /\ P \cap watched \subseteq exempt
    /\ listed' = listed \ P
    /\ UNCHANGED <<watched, exempt>>

GiveUp(P) ==
    /\ exempt' = exempt \cup P
    /\ UNCHANGED <<watched, listed>>

\* A watcher ends that nobody has asked to, and takes others with it.
Fail(p, P) ==
    /\ p \in exempt
    /\ watched' = watched \ {p}
    /\ exempt' = exempt \cup P
    /\ UNCHANGED listed

Next ==
    \/ \E p \in Pid : Start(p) \/ Stop(p)
    \/ \E P \in SUBSET Pid : List(P) \/ Unlist(P) \/ GiveUp(P) \/ \E p \in Pid : Fail(p, P)

\* What never happens ...
Safe == Init /\ [][Next]_svars

\* A listed container gets a new watcher, leaves the list or is given up.
Settle(p) ==
    /\ p \in listed \ (watched \cup exempt)
    /\ Start(p) \/ Unlist({p}) \/ GiveUp({p})

\* ... and what does: none stays on the list without a watcher.
Spec == Safe /\ \A p \in Pid : WF_svars(Settle(p))
=============================================================================
