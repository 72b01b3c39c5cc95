----------------------------- MODULE MCWasiPath -----------------------------
(* base is preopened; it holds a directory a, with a directory a and a link *)
(* b in it, and a link b.  base itself is in the root directory.            *)
EXTENDS PathReference, TLC

CONSTANTS c1, c2, root, base, sub, subsub, spare, f1, up, around, self, deep

P(names) == [names |-> names, slash |-> FALSE]
PS(names) == [names |-> names, slash |-> TRUE]

MCContents == up :> P(<<"..", "..">>) @@ around :> PS(<<".", "a">>) @@ self :> P(<<"c">>)
              @@ deep :> P(<<"c", "a">>)

Nothing == [n \in Name |-> None]
MCInitialEntry ==
    [d \in Dir |-> CASE d = root -> [Nothing EXCEPT !["a"] = base]
                     [] d = base -> [Nothing EXCEPT !["a"] = sub, !["b"] = around]
                     [] d = sub -> [Nothing EXCEPT !["a"] = subsub, !["b"] = up]
                     [] OTHER -> Nothing]

R(op, followed, creat, d, ps) ==
    [op |-> op, follow |-> followed, creat |-> creat,
     paths |-> [n \in DOMAIN ps |-> [fd |-> d, path |-> ps[n]]]]

(* The first thread looks things up, the second changes them. *)
MCRequests ==
    c1 :> ({R("path_filestat_get", TRUE, FALSE, base, <<p>>) :
               p \in {P(<<"a", "a", "..", "..">>), P(<<"c", "b">>)}}
           \cup
           {R("path_filestat_set_times", FALSE, FALSE, sub, <<PS(<<"b">>)>>),
            R("path_filestat_set_times", FALSE, FALSE, base, <<P(<<"/">>)>>),
            R("path_readlink", FALSE, FALSE, base, <<P(<< >>)>>),
            R("path_open", FALSE, FALSE, base, <<PS(<<"b">>)>>),
            R("path_open", TRUE, TRUE, base, <<PS(<<"b", "c">>)>>),
            R("path_open", FALSE, TRUE, base, <<P(<<"c">>)>>),
            R("path_remove_directory", FALSE, FALSE, base, <<PS(<<"a", "a">>)>>)})
    @@ c2 :> {R("path_rename", FALSE, FALSE, base, <<P(<<"a", "a">>), P(<<"c">>)>>),
              R("path_symlink", FALSE, FALSE, base, <<P(<<"c">>)>>),
              R("path_link", FALSE, FALSE, base, <<P(<<"b">>), P(<<"c">>)>>),
              R("path_unlink_file", FALSE, FALSE, base, <<P(<<"b">>)>>),
              R("path_create_directory", FALSE, FALSE, base, <<P(<<"c">>)>>)}
=============================================================================
