--------------------------- MODULE PathReference ---------------------------
(***************************************************************************)
(* What a path means: POSIX resolution, by substitution of what a link     *)
(* contains for the link, below a directory that it may not leave.         *)
(***************************************************************************)
EXTENDS WasiPath

Found(d, name, slash) == [error |-> "no", dir |-> d, path |-> name, slash |-> slash]
Error(e) == [error |-> e, dir |-> None, path |-> None, slash |-> FALSE]

(* The components names, resolved in the last of the directories stack.  A  *)
(* component that others follow is a directory, and so is the last one if   *)
(* slashes follow it and its name is not wanted (final).                    *)
RECURSIVE Resolve(_, _, _, _, _, _)
Resolve(stack, names, slash, final, followed, fuel) ==
    IF names = << >> THEN Found(Top(stack), ".", FALSE)
    ELSE LET name == Head(names)
             rest == Tail(names)
             last == rest = << >>
             node == entry[Top(stack)][name]
             link == Contents[node]
         IN  CASE fuel = 0 -> Error("ELOOP")
               [] name = "/" -> Error("ENOTCAPABLE")
               [] name = "." -> Resolve(stack, rest, slash, final, followed, fuel)
               [] name = ".." ->
                      IF Len(stack) = 1 THEN Error("ENOTCAPABLE")
                      ELSE Resolve(Pop(stack), rest, slash, final, followed, fuel)
               [] name \in Name /\ node \in Link /\ (~last \/ slash \/ followed) ->
                      IF link.names = << >> THEN Error("ENOENT")
                      ELSE Resolve(stack, link.names \o rest,
                                   slash \/ (last /\ link.slash), final, followed, fuel - 1)
               [] name \in Name /\ (node \notin Link \/ (last /\ ~slash /\ ~followed)) ->
                      IF last /\ (~slash \/ final) THEN Found(Top(stack), name, slash)
                      ELSE IF node \in Dir
                      THEN Resolve(Append(stack, node), rest, slash, final, followed, fuel)
                      ELSE Error(IF node = None THEN "ENOENT" ELSE "ENOTDIR")

Reference(k, base) ==
    LET path == k.request.paths[Len(k.pas) + 1].path
    IN  IF path.names = << >> THEN Error("ENOENT")
        ELSE Resolve(<<base>>, path.names, path.slash, needs_final_component(k), follow(k),
                     MaxExpansions)

(* While nobody changes the file system, path_get finds what the path means *)
(* or reports why it means nothing, limits of its arrays and errors of the  *)
(* host apart.                                                              *)
FindsWhatPathMeans ==
    \A c \in Call :
        LET k == call[c]
            before == IF k.pc = "leased" THEN [k EXCEPT !.pas = Pop(@)] ELSE k
        IN  k.pc \in {"failed", "leased"} /\ k.quiet
                /\ k.error \notin {"EIO", "ELOOP", "ENAMETOOLONG"}
            => Reference(before, k.fds[1]) =
                   IF k.pc = "failed" THEN Error(k.error)
                   ELSE Found(Top(k.pas).dir, Top(k.pas).path, Top(k.pas).slash)
=============================================================================
