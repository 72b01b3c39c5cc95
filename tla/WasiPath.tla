------------------------------ MODULE WasiPath ------------------------------
(***************************************************************************)
(* Path names in the C implementation of WASI (posix.c).  path_get walks a *)
(* path from a directory descriptor one component at a time, with a stack  *)
(* of open directories (".." pops it) and a stack of path strings (a       *)
(* symbolic link pushes its contents); it gives a lease, a directory and a *)
(* last component, that the system call hands to the host.                 *)
(*                                                                         *)
(* Every call to the host is a step, and the calls of several threads      *)
(* interleave: directories are moved, removed and replaced by links while  *)
(* another call is walking through them.  The file system is the host's;   *)
(* only directories outside of what is preopened are left alone by others. *)
(*                                                                         *)
(* A path is a sequence of components and whether slashes follow the last; *)
(* an absolute path starts with "/".                                       *)
(***************************************************************************)
EXTENDS Integers, Sequences, FiniteSets

CONSTANTS
    Call,            \* threads that make system calls
    Dir, File, Link, \* what there is in the file system
    Name,            \* names of directory entries
    Contents,        \* what each link contains
    Requests,        \* the system calls that each thread makes, arguments included
    InitialEntry,    \* the file system to begin with
    Root,            \* its root directory
    Preopens,        \* the directories that are preopened
    Outside,         \* directories that are not below any of those
    MaxFds,          \* sizeof(fds) / sizeof(fds[0])
    MaxPaths,        \* sizeof(paths) / sizeof(paths[0])
    MaxExpansions,   \* the limit on symlink expansions
    MaxChanges,      \* bound: changes of the file system
    None

Node == Dir \cup File \cup Link
Component == Name \cup {".", "..", "/"}
Path == [names : Seq(Component), slash : BOOLEAN]
Op == {"path_create_directory", "path_link", "path_open", "path_readlink", "path_rename",
       "path_filestat_get", "path_filestat_set_times", "path_symlink", "path_unlink_file",
       "path_remove_directory"}
Arity(op) == IF op \in {"path_link", "path_rename"} THEN 2 ELSE 1
Request ==
    {r \in [op : Op, follow : BOOLEAN, creat : BOOLEAN, paths : Seq([fd : Dir, path : Path])] :
        Len(r.paths) = Arity(r.op)}

ASSUME PathAssumption ==
    /\ Contents \in [Link -> Path]
    /\ Requests \in [Call -> SUBSET Request]
    /\ InitialEntry \in [Dir -> [Name -> Node \cup {None}]]
    /\ Root \in Dir /\ Preopens \subseteq Dir /\ Outside \subseteq Dir
    /\ {".", "..", "/"} \cap Name = {}
    /\ None \notin Node
    /\ Dir \cap (File \cup Link) = {} /\ File \cap Link = {}
    /\ MaxFds \in Nat \ {0} /\ MaxPaths \in Nat \ {0} /\ MaxExpansions \in Nat \ {0}
    /\ MaxChanges \in Nat

(* Nothing that is preopened leads outside; all that is outside has a place there. *)
ASSUME OutsideAssumption ==
    /\ Preopens \cap Outside = {}
    /\ \A d \in Dir \ Outside, n \in Name : InitialEntry[d][n] \notin Outside
    /\ \A d \in Outside : d = Root \/ \E e \in Outside, n \in Name : InitialEntry[e][n] = d

VARIABLES
    entry,    \* the entries of every directory
    changes,  \* how many times they have changed
    dirs,     \* directories that the program has descriptors of
    call      \* what each thread does

(* Of a call:                                                               *)
(*   request     the system call and its arguments                          *)
(*   fds         the stack of directories, fds[0 .. curfd]                  *)
(*   paths       the stack of paths, what is left of them                   *)
(*   file        the component being looked up: [name, slash]               *)
(*   expansions  how many links were expanded                               *)
(*   error       what path_get failed with                                  *)
(*   pas         the leases it has: [dir, path, slash, own]                 *)
(*   opened      host descriptors that it has opened and not closed         *)
(*   strings     strings that it has allocated and not freed                *)
(*   quiet       whether no entry has changed since path_get began          *)
NoFile == [name |-> ".", slash |-> FALSE]

Idle == [pc |-> "idle", request |-> None, fds |-> << >>, paths |-> << >>, file |-> NoFile,
         expansions |-> 0, error |-> "no", pas |-> << >>, opened |-> 0, strings |-> 0,
         quiet |-> TRUE]

vars == <<entry, changes, dirs, call>>

Init ==
    /\ entry = InitialEntry
    /\ changes = 0
    /\ dirs = Preopens
    /\ call = [c \in Call |-> Idle]

Top(s) == s[Len(s)]
Pop(s) == SubSeq(s, 1, Len(s) - 1)

(* The arguments that each system call gives path_get, for its first and its *)
(* second path.                                                               *)
needs_final_component(k) ==
    \/ k.request.op \in {"path_create_directory", "path_rename", "path_symlink",
                         "path_unlink_file", "path_remove_directory"}
    \/ k.request.op = "path_link" /\ Len(k.pas) = 1
    \/ k.request.op = "path_open" /\ k.request.creat

follow(k) ==
    /\ k.request.op \in {"path_link", "path_open", "path_filestat_get",
                         "path_filestat_set_times"}
    /\ Len(k.pas) = 0
    /\ k.request.follow

-----------------------------------------------------------------------------
(* path_get, up to its loop, for a descriptor that the call has rights for. *)

Start(c, r) ==
    LET k == call[c]
        p == r.paths[Len(k.pas) + 1]
    IN  /\ p.fd \in dirs
        /\ call' = [call EXCEPT ![c] =
               [k EXCEPT !.pc = "walk", !.request = r, !.fds = <<p.fd>>, !.paths = <<p.path>>,
                         !.expansions = 0, !.strings = k.strings + 1, !.quiet = TRUE]]

path_get(c) ==
    /\ \/ call[c].pc = "idle" /\ \E r \in Requests[c] : Start(c, r)
       \/ call[c].pc = "next" /\ Start(c, call[c].request)
    /\ UNCHANGED <<entry, changes, dirs>>

(* Mutant: the topmost directory is left open. *)
FailLeavingTop(k, e) ==
    [k EXCEPT !.pc = "failed", !.error = e,
              !.opened = IF Len(k.fds) > 1 THEN k.opened - (Len(k.fds) - 2) ELSE k.opened,
              !.strings = k.strings - Len(k.paths), !.fds = <<k.fds[1]>>, !.paths = << >>, !.file = NoFile]

(* The label fail. *)
Fail(k, e) ==
    [k EXCEPT !.pc = "failed", !.error = e, !.opened = k.opened - (Len(k.fds) - 1),
              !.strings = k.strings - Len(k.paths), !.fds = <<k.fds[1]>>, !.paths = << >>,
              !.file = NoFile]

(* The label success.  The last path is the lease's to free, but for ".". *)
Success(k, path, slash) ==
    [k EXCEPT !.pc = "leased",
              !.pas = Append(k.pas, [dir |-> Top(k.fds), path |-> path, slash |-> slash,
                                 own |-> Len(k.fds) > 1]),
              !.opened = IF Len(k.fds) > 2 THEN k.opened - (Len(k.fds) - 2) ELSE k.opened,
              !.fds = <<k.fds[1]>>, !.paths = << >>, !.file = NoFile]

(* The end of the loop's body: what follows the component, what follows the *)
(* link that it was in, or the directory itself.                             *)
Advance(k) ==
    IF Top(k.paths).names # << >> THEN [k EXCEPT !.pc = "walk", !.file = NoFile]
    ELSE IF Len(k.paths) = 1 THEN Success([k EXCEPT !.strings = k.strings - 1], ".", FALSE)
    ELSE [k EXCEPT !.pc = "walk", !.file = NoFile, !.paths = Pop(k.paths),
                   !.strings = k.strings - 1]

(* Mutant: only nested links are counted. *)
ExpandedNested(k) == IF Top(k.paths).names = << >> THEN k.expansions ELSE k.expansions + 1

(* ++expansions *)
Expanded(k) == k.expansions + 1

PathsFull(k) == Len(k.paths) = MaxPaths

(* The label push_symlink. *)
PushSymlink(k, l) ==
    LET symlink == [names |-> Contents[l].names, slash |-> Contents[l].slash \/ k.file.slash]
    IN  IF Expanded(k) = MaxExpansions THEN Fail(k, "ELOOP")
        ELSE IF Top(k.paths).names = << >>
        THEN [k EXCEPT !.pc = "walk", !.file = NoFile, !.expansions = Expanded(k),
                       !.paths = Append(Pop(k.paths), symlink)]
        ELSE IF PathsFull(k) THEN Fail(k, "ELOOP")
        ELSE [k EXCEPT !.pc = "walk", !.file = NoFile, !.expansions = Expanded(k),
                       !.paths = Append(k.paths, symlink), !.strings = k.strings + 1]

(* The component at the front of the current path, and the rest of the path. *)
FirstComponent(k) == Head(Top(k.paths).names)

TakeComponent(k) ==
    LET p == Top(k.paths)
    IN  [k EXCEPT !.paths = [k.paths EXCEPT ![Len(k.paths)] =
                                [names |-> Tail(p.names), slash |-> p.slash]],
                  !.file = [name |-> Head(p.names), slash |-> Len(p.names) > 1 \/ p.slash]]

(* Mutant: the last component of a link that others follow is the last. *)
MustBeDirectoryHere(k) ==
    \/ Top(k.paths).names # << >>
    \/ k.file.slash /\ ~needs_final_component(k)

MustBeDirectory(k) ==
    \/ Len(k.paths) > 1
    \/ Top(k.paths).names # << >>
    \/ k.file.slash /\ ~needs_final_component(k)

Walking(c) == call[c].pc = "walk" /\ Top(call[c].paths).names # << >>

(* Of an empty path, and of an absolute one. *)
empty_component(c) ==
    /\ call[c].pc = "walk"
    /\ \/ /\ Top(call[c].paths).names = << >>
          /\ call' = [call EXCEPT ![c] = Fail(call[c], "ENOENT")]
       \/ /\ Walking(c) /\ FirstComponent(call[c]) = "/"
          /\ call' = [call EXCEPT ![c] = Fail(call[c], "ENOTCAPABLE")]
    /\ UNCHANGED <<entry, changes, dirs>>

skip_component(c) ==
    /\ Walking(c) /\ FirstComponent(call[c]) = "."
    /\ call' = [call EXCEPT ![c] = Advance(TakeComponent(call[c]))]
    /\ UNCHANGED <<entry, changes, dirs>>

(* Mutant: ".." is looked up in the directory, as openat would. *)
PopByName(c) ==
    /\ Walking(c) /\ FirstComponent(call[c]) = ".."
    /\ LET k == TakeComponent(call[c])
           parent == CHOOSE d \in Dir : \E n \in Name : entry[d][n] = Top(k.fds)
       IN  call' = [call EXCEPT ![c] =
               IF Len(k.fds) = 1 THEN Fail(k, "ENOTCAPABLE")
               ELSE Advance([k EXCEPT !.fds = Append(Pop(Pop(k.fds)), parent),
                                      !.opened = k.opened - 1])]
    /\ UNCHANGED <<entry, changes, dirs>>

pop_directory(c) ==
    /\ Walking(c) /\ FirstComponent(call[c]) = ".."
    /\ LET k == TakeComponent(call[c])
       IN  call' = [call EXCEPT ![c] =
               IF Len(k.fds) = 1 THEN Fail(k, "ENOTCAPABLE")
               ELSE Advance([k EXCEPT !.fds = Pop(k.fds), !.opened = k.opened - 1])]
    /\ UNCHANGED <<entry, changes, dirs>>

(* openat(fds[curfd], file, O_DIRECTORY | O_NOFOLLOW); it may fail for      *)
(* reasons of the host's own, "EIO" for short.                              *)
open_directory(c) ==
    /\ Walking(c) /\ FirstComponent(call[c]) \in Name
    /\ LET k == TakeComponent(call[c])
           node == entry[Top(k.fds)][k.file.name]
       IN  /\ MustBeDirectory(k)
           /\ call' = [call EXCEPT ![c] =
                  CASE node = None -> Fail(k, "ENOENT")
                    [] node \in Dir -> IF Len(k.fds) = MaxFds THEN Fail(k, "ENAMETOOLONG")
                                       ELSE Advance([k EXCEPT !.fds = Append(k.fds, node),
                                                              !.opened = k.opened + 1])
                    [] OTHER -> [k EXCEPT !.pc = "readlink"]]
    /\ UNCHANGED <<entry, changes, dirs>>

(* What is not a directory may be a link. *)
read_link(c) ==
    /\ call[c].pc = "readlink"
    /\ LET k == call[c]
           node == entry[Top(k.fds)][k.file.name]
       IN  call' = [call EXCEPT ![c] =
               CASE node = None -> Fail(k, "ENOENT")
                 [] node \in Link -> PushSymlink(k, node)
                 [] OTHER -> Fail(k, "ENOTDIR")]
    /\ UNCHANGED <<entry, changes, dirs>>

(* The last component, which may be a link. *)
final_component(c) ==
    /\ Walking(c) /\ FirstComponent(call[c]) \in Name
    /\ LET k == TakeComponent(call[c])
           node == entry[Top(k.fds)][k.file.name]
       IN  /\ ~MustBeDirectory(k)
           /\ call' = [call EXCEPT ![c] =
                  IF node \in Link /\ (k.file.slash \/ follow(k)) THEN PushSymlink(k, node)
                  ELSE Success(k, k.file.name, k.file.slash)]
    /\ UNCHANGED <<entry, changes, dirs>>

host_error(c) ==
    /\ call[c].pc \in {"walk", "readlink"}
    /\ call[c].pc = "walk" =>
           /\ Walking(c) /\ FirstComponent(call[c]) \in Name
           /\ LET k == TakeComponent(call[c]) IN MustBeDirectory(k) \/ k.file.slash \/ follow(k)
    /\ call' = [call EXCEPT ![c] = Fail(call[c], "EIO")]
    /\ UNCHANGED <<entry, changes, dirs>>

(* path_put of every lease that the call has, and its return. *)
Returned(k) ==
    [Idle EXCEPT !.opened = k.opened - Cardinality({n \in DOMAIN k.pas : k.pas[n].own}),
                 !.strings = k.strings - Cardinality({n \in DOMAIN k.pas : k.pas[n].path # "."})]

(* path_get has failed, and so does the system call. *)
return_error(c) ==
    /\ call[c].pc = "failed"
    /\ call' = [call EXCEPT ![c] = Returned(call[c])]
    /\ UNCHANGED <<entry, changes, dirs>>

(* path_link and path_rename have a second path. *)
next_path(c) ==
    /\ call[c].pc = "leased"
    /\ Len(call[c].pas) < Len(call[c].request.paths)
    /\ call' = [call EXCEPT ![c].pc = "next"]
    /\ UNCHANGED <<entry, changes, dirs>>

-----------------------------------------------------------------------------
(* The system calls, from the lease on: one call to the host, and path_put. *)

Leased(c, op) ==
    /\ call[c].pc = "leased"
    /\ call[c].request.op = op
    /\ Len(call[c].pas) = Len(call[c].request.paths)

(* The call returns, without or with a change of the file system. *)
Return(c) ==
    /\ call' = [call EXCEPT ![c] = Returned(call[c])]
    /\ UNCHANGED <<entry, changes>>

ReturnChanging(c, e) ==
    /\ changes < MaxChanges
    /\ changes' = changes + 1
    /\ entry' = e
    /\ call' = [b \in Call |-> IF b = c THEN Returned(call[c]) ELSE [call[b] EXCEPT !.quiet = FALSE]]

(* The host's: which directories there are, what a lease names, and what is *)
(* below a directory.                                                       *)
Linked(d) == d = Root \/ \E e \in Dir, n \in Name : entry[e][n] = d

Held(d) ==
    \/ d \in dirs
    \/ \E c \in Call : \/ \E n \in DOMAIN call[c].fds : call[c].fds[n] = d
                       \/ \E n \in DOMAIN call[c].pas : call[c].pas[n].dir = d

Empty(d) == \A n \in Name : entry[d][n] = None

Named(pa) == IF pa.path = "." THEN pa.dir ELSE entry[pa.dir][pa.path]

Free(pa) == pa.path # "." /\ entry[pa.dir][pa.path] = None /\ Linked(pa.dir)

Below(d, e) ==
    \E p \in [1 .. Cardinality(Dir) -> Dir] :
        /\ p[1] = d
        /\ \E i \in DOMAIN p : p[i] = e
        /\ \A i \in 2 .. Cardinality(Dir) :
               p[i] = p[i - 1] \/ \E n \in Name : entry[p[i - 1]][n] = p[i]

Put(pa, node) == [entry EXCEPT ![pa.dir][pa.path] = node]

(* A system call that only reads, or that fails. *)
PathOp(c, op) ==
    /\ Leased(c, op)
    /\ Return(c)
    /\ UNCHANGED dirs

path_create_directory(c) ==
    \/ PathOp(c, "path_create_directory")
    \/ /\ Leased(c, "path_create_directory")
       /\ Free(call[c].pas[1])
       /\ \E d \in Dir : /\ ~Linked(d) /\ ~Held(d) /\ Empty(d)
                         /\ ReturnChanging(c, Put(call[c].pas[1], d))
       /\ UNCHANGED dirs

(* linkat, without AT_SYMLINK_FOLLOW: a link is linked, not what it leads to. *)
path_link(c) ==
    \/ PathOp(c, "path_link")
    \/ /\ Leased(c, "path_link")
       /\ LET old == call[c].pas[1]
              new == call[c].pas[2]
          IN  /\ Named(old) \in File \cup Link
              /\ Free(new) /\ ~new.slash
              /\ ReturnChanging(c, Put(new, Named(old)))
       /\ UNCHANGED dirs

(* openat with O_NOFOLLOW: the descriptor goes to the table, or is closed. *)
path_open(c) ==
    \/ PathOp(c, "path_open")
    \/ /\ Leased(c, "path_open")
       /\ Named(call[c].pas[1]) \in Dir
       /\ dirs' = dirs \cup {Named(call[c].pas[1])}
       /\ Return(c)
    \/ /\ Leased(c, "path_open")
       /\ call[c].request.creat
       /\ Free(call[c].pas[1]) /\ ~call[c].pas[1].slash
       /\ \E f \in File : ReturnChanging(c, Put(call[c].pas[1], f))
       /\ UNCHANGED dirs

path_readlink(c) == PathOp(c, "path_readlink")

path_rename(c) ==
    \/ PathOp(c, "path_rename")
    \/ /\ Leased(c, "path_rename")
       /\ LET old == call[c].pas[1]
              new == call[c].pas[2]
              node == Named(old)
          IN  /\ old.path # "." /\ node # None
              /\ new.path # "." /\ Named(new) # node /\ Linked(new.dir)
              /\ \/ /\ node \in Dir
                    /\ Named(new) = None \/ (Named(new) \in Dir /\ Empty(Named(new)))
                    /\ ~Below(node, new.dir)
                 \/ /\ node \notin Dir /\ Named(new) \notin Dir
                    /\ ~old.slash /\ ~new.slash
              /\ ReturnChanging(c, [Put(new, node) EXCEPT ![old.dir][old.path] = None])
       /\ UNCHANGED dirs

path_filestat_get(c) == PathOp(c, "path_filestat_get")

path_filestat_set_times(c) == PathOp(c, "path_filestat_set_times")

path_symlink(c) ==
    \/ PathOp(c, "path_symlink")
    \/ /\ Leased(c, "path_symlink")
       /\ Free(call[c].pas[1]) /\ ~call[c].pas[1].slash
       /\ \E l \in Link : ReturnChanging(c, Put(call[c].pas[1], l))
       /\ UNCHANGED dirs

path_unlink_file(c) ==
    \/ PathOp(c, "path_unlink_file")
    \/ /\ Leased(c, "path_unlink_file")
       /\ Named(call[c].pas[1]) \in File \cup Link
       /\ ~call[c].pas[1].slash
       /\ ReturnChanging(c, Put(call[c].pas[1], None))
       /\ UNCHANGED dirs

path_remove_directory(c) ==
    \/ PathOp(c, "path_remove_directory")
    \/ /\ Leased(c, "path_remove_directory")
       /\ call[c].pas[1].path # "." /\ Named(call[c].pas[1]) \in Dir
       /\ Empty(Named(call[c].pas[1]))
       /\ ReturnChanging(c, Put(call[c].pas[1], None))
       /\ UNCHANGED dirs

-----------------------------------------------------------------------------

Walk(c) ==
    \/ empty_component(c) \/ skip_component(c) \/ pop_directory(c) \/ open_directory(c)
    \/ read_link(c) \/ final_component(c) \/ host_error(c)
    \/ return_error(c) \/ next_path(c)

SystemCall(c) ==
    \/ path_create_directory(c) \/ path_link(c) \/ path_open(c) \/ path_readlink(c)
    \/ path_rename(c) \/ path_filestat_get(c) \/ path_filestat_set_times(c)
    \/ path_symlink(c) \/ path_unlink_file(c) \/ path_remove_directory(c)

Next == \E c \in Call : path_get(c) \/ Walk(c) \/ SystemCall(c)

(* A thread that has begun a system call keeps running. *)
Fairness ==
    \A c \in Call : WF_vars((call[c].pc = "next" /\ path_get(c)) \/ Walk(c) \/ SystemCall(c))

Spec == Init /\ [][Next]_vars /\ Fairness

-----------------------------------------------------------------------------

PathAccess == [dir : Dir, path : Name \cup {"."}, slash : BOOLEAN, own : BOOLEAN]

Pc == {"idle", "walk", "readlink", "failed", "leased", "next"}
Errno == {"no", "ENOENT", "ENOTCAPABLE", "ENAMETOOLONG", "ELOOP", "ENOTDIR", "EIO"}
FileName == [name : Component, slash : BOOLEAN]

CallState ==
    [pc : Pc, request : Request \cup {None}, fds : Seq(Dir), paths : Seq(Path), file : FileName,
     expansions : 0 .. MaxExpansions, error : Errno, pas : Seq(PathAccess), opened : Nat,
     strings : Nat, quiet : BOOLEAN]

(* The types; and the stacks stay within the arrays fds and paths. *)
TypeOK ==
    /\ entry \in [Dir -> [Name -> Node \cup {None}]]
    /\ changes \in 0 .. MaxChanges
    /\ dirs \subseteq Dir
    /\ call \in [Call -> CallState]
    /\ \A c \in Call : Len(call[c].fds) <= MaxFds /\ Len(call[c].paths) <= MaxPaths

(* No call ever has a directory outside of the preopened ones on its stack, *)
(* in a lease or behind a descriptor, and none changes what is outside:     *)
(* whatever the links contain, and however other calls move directories     *)
(* while it walks.                                                           *)
Confined ==
    /\ dirs \cap Outside = {}
    /\ \A c \in Call :
           /\ \A n \in DOMAIN call[c].fds : call[c].fds[n] \notin Outside
           /\ \A n \in DOMAIN call[c].pas : call[c].pas[n].dir \notin Outside
    /\ \A d \in Outside : entry[d] = InitialEntry[d]

(* When a system call has returned, it has closed every descriptor that it  *)
(* opened on the way and freed every string, on every error path.           *)
NothingLeaks ==
    \A c \in Call : call[c].pc = "idle" => call[c].opened = 0 /\ call[c].strings = 0

(* Every system call returns: links that lead to each other, or that others *)
(* make while it walks, do not keep it going.                                *)
Terminates == \A c \in Call : []<>(call[c].pc = "idle")
=============================================================================
