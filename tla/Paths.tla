-------------------------------- MODULE Paths ---------------------------------
(***************************************************************************)
(* internal/config/binding.go: the walk of a path through a tree of        *)
(* attributes, which Bindings.tla takes as its parameter Follow.           *)
(***************************************************************************)
EXTENDS Bindings

\* Binding.Resolve, Missing for its errors.  An element that lacks the rest of the
\* path is skipped.
RECURSIVE Walk(_, _)
Walk(path, cur) ==
    IF path = <<>> THEN cur
    ELSE LET seg  == Head(path)
             next == Under(cur, seg.name)
         IN  CASE seg.step = "field" -> Walk(Tail(path), next)
               [] seg.step = "element" /\ next.is = "list" /\ seg.at < Len(next.of) ->
                      Walk(Tail(path), next.of[seg.at + 1])
               [] seg.step = "all" /\ next.is = "list" ->
                      List(SelectSeq([k \in DOMAIN next.of |-> Walk(Tail(path), next.of[k])],
                                     LAMBDA v : v # Missing))
               [] OTHER -> Missing

===============================================================================
