--------------------------- MODULE MCArgusNotify ---------------------------
(* Small instances of ArgusNotify for TLC.                                  *)
EXTENDS ArgusNotify, Subjects, TLC

CONSTANTS d1, d2, d3, d4

AllKinds == EventMaskFromSubject({"all"})

TreeKinds == EventMaskFromSubject({"create", "move", "deleteself", "moveself"})

OneRoot == <<<<"r">>>>
TwoRoots == <<<<"r">>, <<"s">>>>

RootTree == {d1 :> <<"r">>}
SubTree == {d1 :> <<"r">> @@ d2 :> <<"r", "a">>}
RootsTree == {d1 :> <<"r">> @@ d2 :> <<"s">>}

Slots == <<"other", "empty">>
FullSlots == <<"other", "other">>

\* The hypotheses of the theorems about the walk: the first holds in every instance,
\* the second where directories are only created, and watched for.
ASSUME SubjectAssumption == RootsApart
ASSUME GrowingAssumption ==
    FsOps \subseteq {"mkdir", "modify"} /\ "CREATE" \in EventMask => Growing
=============================================================================
