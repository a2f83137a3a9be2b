------------------------------- MODULE Paths -------------------------------
(***************************************************************************)
(* Path names.  A path is the sequence of its components below              *)
(* /proc/<pid>/root, so the container's "/" is << >>.  Empty is the empty   *)
(* component of a doubled or trailing slash: "a//b" is <<a, Empty, b>>, a   *)
(* different string from "a/b" that names the same directory.               *)
(***************************************************************************)
EXTENDS Integers, Sequences, FiniteSets, SequencesExt

CONSTANTS
    Name,     \* names a directory or file can have
    Empty     \* the empty component, also the name of a nameless event

ASSUME NameAssumption == Empty \notin Name /\ IsFiniteSet(Name)

Path == Seq(Name \cup {Empty})

\* Where a directory is, for the kernel: below the container's root.
DirPath == Seq(Name) \ {<<>>}

\* The directory a path string names, for the kernel's path walk, which passes over
\* empty components.
Resolve(p) == IF p \in Seq(Name) THEN p ELSE SelectSeq(p, LAMBDA c : c # Empty)

\* FORMAT_PATH: "%s/%s"
FormatPath(dir, file) == Append(dir, file)
=============================================================================
