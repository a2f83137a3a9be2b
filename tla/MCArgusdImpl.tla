---------------------------- MODULE MCArgusdImpl ----------------------------
(* Small instances of ArgusdImpl for TLC.                                   *)
EXTENDS ArgusdImpl

Request(pids, n) == [pids |-> pids, subjects |-> n]

\* A pod with one container, and one whose container is gone.
OnePod == {Request(<<1>>, 1), Request(<<>>, 1)}
TwoPods == {Request(<<1>>, 1), Request(<<2>>, 1)}
TwoSubjects == {Request(<<1>>, 2)}
TwoContainers == {Request(<<1, 2>>, 1)}

\* The hypothesis of the theorems about the daemon holds in every instance.
ASSUME PodsAssumption == PodsApart
=============================================================================
