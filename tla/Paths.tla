--------------------------------- MODULE Paths ---------------------------------
(***************************************************************************)
(* A path is a sequence of names: of directories to a file, of tables to a *)
(* key.  These are the operators of SequencesExt that the paths need, kept *)
(* here because Guards makes an instance of every module that uses them,   *)
(* and an instance of SequencesExt takes all the theorem libraries with it *)
(* into the context of every proof step.                                   *)
(***************************************************************************)
EXTENDS Naturals, Sequences

Front(path) == SubSeq(path, 1, Len(path) - 1)

Last(path) == path[Len(path)]

Reverse(path) == [n \in 1..Len(path) |-> path[(Len(path) - n) + 1]]

\* The place itself counts as within it.
IsPrefix(place, path) == Len(place) <= Len(path) /\ SubSeq(place, 1, Len(place)) = SubSeq(path, 1, Len(place))

IsStrictPrefix(place, path) == IsPrefix(place, path) /\ place # path

IsSuffix(end, path) == IsPrefix(Reverse(end), Reverse(path))

=============================================================================
