----------------------------- MODULE MCCommands -----------------------------
(***************************************************************************)
(* Commands for TLC: a directory d with two names and a subdirectory, the   *)
(* file systems the commands are tried on, and the command lines.           *)
(***************************************************************************)
EXTENDS Commands

CONSTANTS d, a, b, e, x, y, t

MCPaths == {d, a, b, e, x, y, t}
MCChild == [p \in MCPaths |-> CASE p = d -> {a, b, e} [] p = e -> {x, y} [] OTHER -> {}]

Dir == File(IFDIR, 1, 0, 0)
Tree(f) == [p \in MCPaths |-> IF p \in DOMAIN f THEN f[p] ELSE Absent]

(* A full tree, one that is older, one whose a is special and b empty, one   *)
(* with a name that is too long, a lone file.                                *)
Full == Tree(d :> Dir @@ a :> File(IFREG, 1, 2, 1) @@ b :> File(IFLNK, 2, 1, 1)
             @@ e :> Dir @@ x :> File(IFREG, 2, 1, 1))
Older == Tree(d :> Dir @@ a :> File(IFREG, 1, 2, 2) @@ b :> File(IFREG, 1, 1, 2)
              @@ e :> Dir @@ x :> File(IFREG, 1, 1, 2))
Special == Tree(d :> Dir @@ a :> File(IFSOCK, 1, 0, 0) @@ b :> File(IFREG, 2, 0, 0))
Deep == Tree(d :> Dir @@ b :> File(IFREG, 2, 1, 2) @@ e :> Dir
             @@ y :> File(IFREG, 2, 1, 2))
Lone == Tree(a :> File(IFREG, 1, 2, 1) @@ d :> File(IFREG, 1, 0, 0))
Call(n, s, to) == [name |-> n, src |-> s, dst |-> to, progress |-> FALSE,
                   attrs |-> FALSE, listonly |-> FALSE]
Cmd(n, c) == [name |-> n, call |-> c, app |-> FALSE, file |-> FALSE,
              persist |-> FALSE, files |-> << >>, size |-> 0]
Shell(n) == Cmd(n, Call("none", a, a))
PushA == Call("push", a, d)
PullA == Call("pull", a, d)
Sync == [Cmd("sync", Call("sync", d, d)) EXCEPT !.files = <<d, e>>]

(* Copies of the directory, copies of one file, and what needs no files but  *)
(* an argument.                                                              *)
PushD == Cmd("push", Call("push", d, d))
TreeCmds ==
  {PushD, Cmd("pull", Call("pull", d, d)), Sync,
   [Sync EXCEPT !.call.listonly = TRUE], Cmd("ls", Call("ls", d, d))}
FileCmds ==
  {Cmd("push", PushA), [Cmd("push", PushA) EXCEPT !.app = TRUE],
   Cmd("pull", PullA),
   Cmd("pull", [PullA EXCEPT !.progress = TRUE, !.attrs = TRUE]),
   [Cmd("systool", PushA) EXCEPT !.file = TRUE],
   [Cmd("puk", PushA) EXCEPT !.file = TRUE],
   Cmd("install", PushA),
   [Shell("install-multiple") EXCEPT !.files = <<a, b>>]}
OtherCmds ==
  {Cmd("unlink", Call("unlink", a, a)), Cmd("unlink", Call("unlink", d, d)),
   Cmd("unlink", Call("unlink", y, y)),
   [Cmd("unlink", Call("unlink", a, a)) EXCEPT !.app = TRUE],
   Shell("sysver"), Shell("systool"), Shell("puk"),
   [Shell("sideload") EXCEPT !.size = 5], [Shell("sideload") EXCEPT !.size = 9],
   Shell("shell"), [Shell("shell") EXCEPT !.persist = TRUE],
   Shell("remount"), Shell("logcat"), Shell("backup"), Shell("restore")}

On(cmds, ls, rs) ==
  {[cmd |-> c, local |-> l, remote |-> r] : c \in cmds, l \in ls, r \in rs}
MCCases == On(TreeCmds, {Full}, {Older})
             \cup On(TreeCmds \ {PushD}, {Full}, {Full, Tree(<< >>)})
             \cup On(TreeCmds, {Special, Lone}, {Special})
             \cup On(TreeCmds, {Deep}, {Deep})
             \cup On(FileCmds, {Full}, {Special}) \cup On(FileCmds, {Special}, {Full})
             \cup On(FileCmds, {Lone, Tree(<< >>)}, {Lone})
             \cup On(OtherCmds, {Full}, {Full})
             \cup On({Shell("sideload"), Shell("restore")}, {Tree(<< >>)}, {Full})

Marker(digits) == <<"[SYS", "TOOL:-">> \o digits \o <<"]">>
MCOutputs == {<<"x">>, <<"x">> \o Marker(<<"4">>),
              Marker(<<"3", "0", "5">>) \o <<"x">>, Marker(<<"2", "2">>),
              Marker(<<"3">>) \o <<"x">> \o Marker(<<"1", "0", "1">>)}
=============================================================================
