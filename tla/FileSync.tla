------------------------------ MODULE FileSync ------------------------------
(***************************************************************************)
(* The client side of the sync protocol (file_sync_client.c): push, pull,   *)
(* sync, ls and the PAX unlink, each a conversation with the sync service   *)
(* of adbd over a connection of its own, which may be lost at any message.  *)
(*                                                                          *)
(* A path is a model value, the same on both sides.  Files travel in blocks *)
(* of SYNC_DATA_MAX bytes; a file is its type, time, number of blocks and   *)
(* the version of its content.  The text of a failure arrives with it.      *)
(***************************************************************************)
EXTENDS Integers, Sequences, FiniteSets, SequencesExt

CONSTANTS Paths,      \* names of files and directories
          Child,      \* per path: the names in it, when it is a directory
          Long,       \* the paths of more than 1024 bytes
          Buffer      \* messages on their way when a writer must wait

ASSUME TreeAssumption ==
  /\ Child \in [Paths -> SUBSET Paths] /\ Long \subseteq Paths
  /\ Buffer \in Nat \ {0}

(* The type bits of st_mode, by the digit of 0xf000 they set.                *)
IFREG == {8}
IFLNK == {8, 2}
IFDIR == {4}
IFSOCK == {8, 4}

(* A missing file, which STAT reports with zeros.                            *)
Absent == [kind |-> {}, time |-> 0, blocks |-> 0, version |-> 0]
File(kind, time, blocks, version) ==
  [kind |-> kind, time |-> time, blocks |-> blocks, version |-> version]
IsDir(f) == f.kind = IFDIR
IsCopied(f) == f.kind \in {IFREG, IFLNK}
SameData(f, g) ==
  f.blocks = g.blocks /\ (f.blocks = 0 \/ f.version = g.version)

(* The clock of the device, when it makes a link or the host a file: not     *)
(* behind the times of the files.                                            *)
Now == 9

VARIABLES
  call,    \* the do_sync_* call: name, src, dst, options
  pc,      \* where the client is in it
  ret,     \* what it returned, -1 before
  list,    \* copyinfo: the files to copy
  pos,     \* the one in work
  dirs,    \* directories still to be listed
  flags,   \* copyinfo.flag: the files that need no copy
  block,   \* blocks of the file in work that were sent
  diag,    \* the paths that printed errors stand for: one about a directory
           \*   stands for what is in it
  local, remote,  \* the two file systems
  link,    \* "none", "up", "lost" (the other end is gone), "closed"
  out, in, \* the two directions of the connection
  dev      \* external: the file that adbd receives

progress == <<list, pos, dirs, flags, block>>
wire == <<link, out, in>>
trees == <<local, remote>>
syncVars == <<call, pc, ret, progress, diag, trees, wire, dev>>

NoPath == "none"
Idle == [path |-> NoPath, kind |-> {}, ok |-> FALSE]
Cur == list[pos]

-----------------------------------------------------------------------------
(* writex() and readx(): a write to a lost connection may be taken by the    *)
(* kernel or fail; what arrived before the loss can be read.                 *)
Sent(m) == /\ \/ link = "up" /\ Len(out) < Buffer /\ out' = Append(out, m)
              \/ link = "lost" /\ out' = out
           /\ UNCHANGED <<link, in>>
WriteFails == link = "lost" /\ UNCHANGED wire
Msg == Head(in)
Got(ids) == /\ in # << >> /\ Msg.id \in ids
            /\ in' = Tail(in) /\ UNCHANGED <<link, out>>
ReadFails == in = << >> /\ link = "lost" /\ UNCHANGED wire

Goto(l) == pc' = l /\ UNCHANGED ret
Return(r) == pc' = "returned" /\ ret' = r
QuitAndReturn(r) == pc' = "quit" /\ ret' = r
Printed(paths) == diag' = diag \cup paths

(* The "fail" labels of sync_send() and sync_ls().                           *)
CloseAndFail == Return(1) /\ link' = "closed" /\ UNCHANGED <<out, in>>

(* sync_quit(): the result of the write is not looked at.                    *)
Quit ==
  /\ pc = "quit" /\ pc' = "returned"
  /\ Sent([id |-> "QUIT"])
  /\ UNCHANGED <<call, ret, progress, diag, trees, dev>>

-----------------------------------------------------------------------------
(* do_sync_*: adb_connect("sync:"), which may fail.  adbd is done with the   *)
(* conversation before.                                                      *)
Connect ==
  /\ pc = "connect" /\ out = << >>
  /\ \/ link' = "up" /\ Goto("begin")
     \/ link' = "none" /\ Return(1)
  /\ out' = << >> /\ in' = << >> /\ dev' = Idle
  /\ UNCHANGED <<call, progress, diag, trees>>

PushNothing ==
  /\ pc = "begin" /\ call.name = "push" /\ local[call.src] = Absent
  /\ QuitAndReturn(1) /\ Printed({call.src})
  /\ UNCHANGED <<call, progress, trees, wire, dev>>

(* The first request of push (of a file), pull and unlink: sync_readmode()   *)
(* or sync_readtime().                                                       *)
StatPath == IF call.name = "push" THEN call.dst ELSE call.src
AskMode ==
  /\ pc = "begin" /\ call.name \in {"push", "pull", "unlink"}
  /\ call.name = "push" => ~IsDir(local[call.src]) /\ local[call.src] # Absent
  /\ \/ Sent([id |-> "STAT", path |-> StatPath]) /\ Goto("mode")
     \/ WriteFails /\ IF call.name = "unlink" THEN Goto("unlink") ELSE Return(1)
  /\ UNCHANGED <<call, progress, diag, trees, dev>>

ModeFails ==
  /\ pc = "mode"
  /\ Got({"FAIL"}) \/ ReadFails
  /\ IF call.name = "unlink" THEN Goto("unlink") ELSE Return(1)
  /\ UNCHANGED <<call, progress, diag, trees, dev>>

(* A file that is copied to a directory keeps its name there.                *)
OneFile(toDir, kind) ==
  list' = <<[src |-> call.src, dst |-> IF toDir THEN call.src ELSE call.dst,
             kind |-> kind]>>

(* do_sync_push(): stat() has followed a link.                               *)
PushMode ==
  /\ pc = "mode" /\ call.name = "push" /\ Got({"STAT"})
  /\ OneFile(IsDir(Msg.file), IF local[call.src].kind = IFLNK THEN IFREG
                              ELSE local[call.src].kind)
  /\ Goto("send")
  /\ UNCHANGED <<call, pos, dirs, flags, block, diag, trees, dev>>

PullMode ==
  /\ pc = "mode" /\ call.name = "pull" /\ Got({"STAT"})
  /\ \/ /\ IsCopied(Msg.file)
        /\ OneFile(IsDir(local[call.dst]), Msg.file.kind)
        /\ Goto(IF call.progress THEN "asksize" ELSE "recv")
        /\ UNCHANGED <<dirs, diag>>
     \/ /\ IsDir(Msg.file)
        /\ Goto("ls") /\ dirs' = <<call.src>> /\ UNCHANGED <<list, diag>>
     \/ /\ ~IsCopied(Msg.file) /\ ~IsDir(Msg.file)
        /\ Return(1) /\ Printed({call.src}) /\ UNCHANGED <<list, dirs>>
  /\ UNCHANGED <<call, pos, flags, block, trees, dev>>

(* Mutant: a directory is not refused.                                       *)
UnlinkModeAny ==
  /\ pc = "mode" /\ call.name = "unlink" /\ Got({"STAT"})
  /\ Goto("unlink") /\ UNCHANGED <<call, progress, diag, trees, dev>>

(* do_sync_unlink(): a directory is refused; all else, a failed              *)
(* sync_readmode() too, is left to the device.                               *)
UnlinkMode ==
  /\ pc = "mode" /\ call.name = "unlink" /\ Got({"STAT"})
  /\ IF IsDir(Msg.file) THEN QuitAndReturn(1) /\ Printed({call.src})
                        ELSE Goto("unlink") /\ UNCHANGED diag
  /\ UNCHANGED <<call, progress, trees, dev>>

(* sync_unlink().                                                            *)
Unlink ==
  /\ pc = "unlink"
  /\ \/ Sent([id |-> "ULNK", path |-> call.src]) /\ Goto("unlinked")
     \/ WriteFails /\ QuitAndReturn(1)
  /\ UNCHANGED <<call, progress, diag, trees, dev>>

Unlinked ==
  /\ pc = "unlinked"
  /\ \/ Got({"OKAY"}) /\ QuitAndReturn(0) /\ UNCHANGED diag
     \/ (Got({"FAIL"}) \/ ReadFails) /\ QuitAndReturn(1) /\ Printed({call.src})
  /\ UNCHANGED <<call, progress, trees, dev>>

-----------------------------------------------------------------------------
(* local_build_list(), one directory a step.  A name that cannot be examined *)
(* and special files are left out with a message; an error in a              *)
(* subdirectory is not passed on.  Files and subdirectories come in front,   *)
(* in the order of readdir().  No local path is longer than PATH_MAX (such a *)
(* name is passed over in silence).                                          *)
BeginDir ==
  /\ pc = "begin" /\ call.name \in {"push", "sync"}
  /\ call.name = "push" => IsDir(local[call.src])
  /\ Goto("local") /\ dirs' = <<call.src>>
  /\ UNCHANGED <<call, list, pos, flags, block, diag, trees, wire, dev>>

NoDir ==
  /\ pc = "local" /\ dirs # << >>
  /\ Printed({Head(dirs)} \cup Child[Head(dirs)])
  /\ IF Head(dirs) = call.src
     THEN Return(1) /\ UNCHANGED dirs
     ELSE dirs' = Tail(dirs) /\ Goto("local")
  /\ UNCHANGED <<call, list, pos, flags, block, trees, wire, dev>>

LocalBuildList ==
  /\ pc = "local" /\ dirs # << >> /\ IsDir(local[Head(dirs)])
  /\ LET names == {p \in Child[Head(dirs)] : local[p] # Absent} IN
     \E bad \in SUBSET names :
       LET good == names \ bad
           files == {p \in good : IsCopied(local[p])}
           subs == {p \in good : IsDir(local[p])} IN
       /\ \E fs \in SetToSeqs({[src |-> p, dst |-> p, kind |-> local[p].kind] :
                               p \in files}) : list' = fs \o list
       /\ \E ds \in SetToSeqs(subs) : dirs' = ds \o Tail(dirs)
       /\ Printed((bad \cup (good \ (files \cup subs)))
                  \cup UNION {Child[p] : p \in bad})
  /\ UNCHANGED <<call, pc, ret, pos, flags, block, trees, wire, dev>>

(* A file was there for the first lstat() and not for the second: what has   *)
(* been listed of the directory stays, its subdirectories are not visited.   *)
LocalStops ==
  /\ pc = "local" /\ dirs # << >> /\ IsDir(local[Head(dirs)])
  /\ LET names == {p \in Child[Head(dirs)] : local[p] # Absent} IN
     \E p \in {q \in names : ~IsDir(local[q])} :
     \E files \in SUBSET {q \in names \ {p} : IsCopied(local[q])} :
       /\ \E fs \in SetToSeqs({[src |-> q, dst |-> q, kind |-> local[q].kind] :
                               q \in files}) : list' = fs \o list
       /\ Printed((names \ files) \cup UNION {Child[q] : q \in names})
  /\ IF Head(dirs) = call.src
     THEN Return(1) /\ UNCHANGED dirs
     ELSE dirs' = Tail(dirs) /\ Goto("local")
  /\ UNCHANGED <<call, pos, flags, block, trees, wire, dev>>

LocalListed ==
  /\ pc = "local" /\ dirs = << >>
  /\ Goto(IF call.name = "sync" THEN "ask" ELSE "next")
  /\ UNCHANGED <<call, progress, diag, trees, wire, dev>>

(* copy_local_dir_remote() with checktimestamps: every STAT is asked before  *)
(* the first answer is read.                                                 *)
SyncStartReadtime ==
  /\ pc = "ask"
  /\ \/ /\ pos <= Len(list) /\ Sent([id |-> "STAT", path |-> Cur.dst])
        /\ pos' = pos + 1 /\ Goto("ask")
     \/ /\ pos <= Len(list) /\ WriteFails /\ Return(1) /\ UNCHANGED pos
     \/ /\ pos > Len(list) /\ pos' = 1 /\ Goto("answers") /\ UNCHANGED wire
  /\ UNCHANGED <<call, list, dirs, flags, block, diag, trees, dev>>

(* Mutant: an older file on the device is good enough.                       *)
UpToDateIfOlder(f, g) ==
  f.blocks = g.blocks /\ f.kind \cap g.kind \in {IFREG, IFLNK} /\ g.time <= f.time

(* The test of the modes is on the bits they share, so that S_ISREG() also   *)
(* holds for a regular file here and a link there.                           *)
UpToDate(f, g) ==
  /\ f.blocks = g.blocks
  /\ \/ f.kind \cap g.kind = IFREG /\ g.time = f.time
     \/ f.kind \cap g.kind = IFLNK /\ g.time >= f.time

SyncFinishReadtime ==
  /\ pc = "answers"
  /\ \/ /\ pos <= Len(list) /\ Got({"STAT"})
        /\ flags' = IF UpToDate(local[Cur.src], Msg.file)
                    THEN flags \cup {Cur.src} ELSE flags
        /\ pos' = pos + 1 /\ Goto("answers")
     \/ /\ pos <= Len(list) /\ (Got({"FAIL"}) \/ ReadFails)
        /\ Return(1) /\ UNCHANGED <<flags, pos>>
     \/ /\ pos > Len(list) /\ pos' = 1 /\ Goto("next") /\ UNCHANGED <<flags, wire>>
  /\ UNCHANGED <<call, list, dirs, block, diag, trees, dev>>

(* The loops over the list of the two directory copies, and the end of the   *)
(* do_sync_* functions.                                                      *)
NextFile ==
  /\ pc = "next"
  /\ \/ pos > Len(list) /\ QuitAndReturn(0) /\ UNCHANGED pos
     \/ /\ pos <= Len(list) /\ (Cur.src \in flags \/ call.listonly)
        /\ pos' = pos + 1 /\ Goto("next")
     \/ /\ pos <= Len(list) /\ Cur.src \notin flags /\ ~call.listonly
        /\ Goto(IF call.name = "pull" THEN "recv" ELSE "send") /\ UNCHANGED pos
  /\ UNCHANGED <<call, list, dirs, flags, block, diag, trees, wire, dev>>

-----------------------------------------------------------------------------
(* sync_send(): the request, the blocks, DONE with the time, the status.     *)
SyncSend ==
  /\ pc = "send"
  /\ \/ Cur.dst \in Long /\ CloseAndFail
     \/ /\ Cur.dst \notin Long /\ IsCopied(Cur)
        /\ Sent([id |-> "SEND", path |-> Cur.dst, kind |-> Cur.kind])
        /\ Goto("data")
     \/ Cur.dst \notin Long /\ link = "lost" /\ CloseAndFail
     \/ /\ Cur.dst \notin Long /\ ~IsCopied(Cur) /\ link = "up" /\ Len(out) < Buffer
        /\ out' = Append(out, [id |-> "SEND", path |-> Cur.dst, kind |-> Cur.kind])
        /\ Return(1) /\ link' = "closed" /\ UNCHANGED in
  /\ block' = 0
  /\ UNCHANGED <<call, list, pos, dirs, flags, diag, trees, dev>>

(* write_data_file() and write_data_link(): whatever goes wrong here, DONE   *)
(* follows.  A file that cannot be opened or read is reported.               *)
WriteData ==
  /\ pc = "data"
  /\ \/ /\ block < local[Cur.src].blocks
        /\ Sent([id |-> "DATA", version |-> local[Cur.src].version])
        /\ block' = block + 1 /\ Goto("data") /\ UNCHANGED diag
     \/ /\ block < local[Cur.src].blocks /\ WriteFails
        /\ Goto("done") /\ UNCHANGED <<block, diag>>
     \/ /\ Printed({Cur.src}) /\ Goto("done") /\ UNCHANGED <<block, wire>>
     \/ /\ block = local[Cur.src].blocks
        /\ Goto("done") /\ UNCHANGED <<block, diag, wire>>
  /\ UNCHANGED <<call, list, pos, dirs, flags, trees, dev>>

SendDone ==
  /\ pc = "done"
  /\ \/ Sent([id |-> "DONE", time |-> local[Cur.src].time]) /\ Goto("status")
     \/ link = "lost" /\ CloseAndFail
  /\ UNCHANGED <<call, progress, diag, trees, dev>>

(* Mutant: the end of the connection is not noticed.                         *)
SendStatusNoEof ==
  /\ pc = "status"
  /\ \/ Got({"OKAY"}) /\ Goto("next") /\ pos' = pos + 1 /\ UNCHANGED diag
     \/ Got({"FAIL"}) /\ Return(1) /\ Printed({Cur.src}) /\ UNCHANGED pos
  /\ UNCHANGED <<call, list, dirs, flags, block, trees, dev>>

SendStatus ==
  /\ pc = "status"
  /\ \/ Got({"OKAY"}) /\ Goto("next") /\ pos' = pos + 1 /\ UNCHANGED diag
     \/ Got({"FAIL"}) /\ Return(1) /\ Printed({Cur.src}) /\ UNCHANGED pos
     \/ ReadFails /\ Return(1) /\ UNCHANGED <<pos, diag>>
  /\ UNCHANGED <<call, list, dirs, flags, block, trees, dev>>

-----------------------------------------------------------------------------
(* sync_recv(): for the progress display the size is asked first.            *)
RecvNotAsked == (Cur.src \in Long /\ UNCHANGED wire) \/ WriteFails

AskSize ==
  /\ pc = "asksize"
  /\ \/ /\ Cur.src \notin Long /\ Sent([id |-> "STAT", path |-> Cur.src])
        /\ Goto("size")
     \/ RecvNotAsked /\ Return(1)
  /\ UNCHANGED <<call, progress, diag, trees, dev>>

Size ==
  /\ pc = "size"
  /\ \/ Got({"STAT"}) /\ Goto("recv")
     \/ (Got({"FAIL"}) \/ ReadFails) /\ Return(1)
  /\ UNCHANGED <<call, progress, diag, trees, dev>>

SyncRecv ==
  /\ pc = "recv"
  /\ \/ /\ Cur.src \notin Long /\ Sent([id |-> "RECV", path |-> Cur.src])
        /\ Goto("first")
     \/ RecvNotAsked /\ Return(1)
  /\ UNCHANGED <<call, progress, diag, trees, dev>>

(* After sync_recv() returned 0: with -a set_time_and_mode(), which fails    *)
(* when there is no file, and on to the next file.                           *)
Received(file) ==
  IF call.attrs /\ file = Absent
  THEN Return(1) /\ local' = [local EXCEPT ![Cur.dst] = file] /\ UNCHANGED pos
  ELSE /\ Goto("next") /\ pos' = pos + 1
       /\ local' = [local EXCEPT ![Cur.dst] =
                      IF call.attrs THEN [file EXCEPT !.time = remote[Cur.src].time]
                      ELSE file]

(* The local file after adb_unlink(), adb_creat() and the writes.            *)
Removed(f) == IF IsDir(f) THEN f ELSE Absent
Created == File(IFREG, Now, 0, 0)
Extended(f, m) == [f EXCEPT !.blocks = @ + 1, !.version = m.version]

(* The first message makes the file.  It can not be made in the place of a   *)
(* directory, or where the file system refuses.                              *)
RecvFirst ==
  /\ pc = "first"
  /\ \/ /\ Got({"DATA", "DONE"}) /\ Return(1) /\ Printed({Cur.src})
        /\ local' = [local EXCEPT ![Cur.dst] = Removed(@)] /\ UNCHANGED pos
     \/ /\ Got({"DATA"}) /\ ~IsDir(local[Cur.dst]) /\ Goto("body")
        /\ local' = [local EXCEPT ![Cur.dst] = Extended(Created, Msg)]
        /\ UNCHANGED <<pos, diag>>
     \/ /\ Got({"DATA"}) /\ ~IsDir(local[Cur.dst]) /\ Return(1) /\ Printed({Cur.src})
        /\ local' = [local EXCEPT ![Cur.dst] = Created] /\ UNCHANGED pos
     \/ /\ Got({"DONE"}) /\ ~IsDir(local[Cur.dst])
        /\ Received(Created) /\ UNCHANGED diag
     \/ /\ Got({"FAIL"}) /\ Printed({Cur.src})
        /\ Received(Removed(local[Cur.dst]))
     \/ ReadFails /\ Return(1) /\ UNCHANGED <<local, pos, diag>>
  /\ UNCHANGED <<call, list, dirs, flags, block, remote, dev>>

(* Mutant: the partial file stays when the device reports a failure.         *)
RecvBodyKeeps ==
  /\ pc = "body"
  /\ \/ /\ Got({"DATA"}) /\ Goto("body")
        /\ local' = [local EXCEPT ![Cur.dst] = Extended(@, Msg)]
        /\ UNCHANGED <<pos, diag>>
     \/ Got({"DONE"}) /\ Received(local[Cur.dst]) /\ UNCHANGED diag
     \/ Got({"FAIL"}) /\ Received(local[Cur.dst]) /\ Printed({Cur.src})
     \/ ReadFails /\ Return(1) /\ UNCHANGED <<local, pos, diag>>
  /\ UNCHANGED <<call, list, dirs, flags, block, remote, dev>>

(* The loop.  A failure of the device ends it with 0, a lost connection or a *)
(* failed write with -1 and what was written so far.                         *)
RecvBody ==
  /\ pc = "body"
  /\ \/ /\ Got({"DATA"}) /\ Goto("body")
        /\ local' = [local EXCEPT ![Cur.dst] = Extended(@, Msg)]
        /\ UNCHANGED <<pos, diag>>
     \/ Got({"DONE"}) /\ Received(local[Cur.dst]) /\ UNCHANGED diag
     \/ Got({"FAIL"}) /\ Received(Absent) /\ Printed({Cur.src})
     \/ ReadFails /\ Return(1) /\ UNCHANGED <<local, pos, diag>>
     \/ Got({"DATA"}) /\ Return(1) /\ Printed({Cur.src}) /\ UNCHANGED <<local, pos>>
  /\ UNCHANGED <<call, list, dirs, flags, block, remote, dev>>

-----------------------------------------------------------------------------
(* sync_ls(), for do_sync_ls() and for each directory of                     *)
(* remote_build_list(); a directory found is listed after this one.          *)
BeginLs ==
  /\ pc = "begin" /\ call.name = "ls"
  /\ Goto("ls") /\ dirs' = <<call.src>>
  /\ UNCHANGED <<call, list, pos, flags, block, diag, trees, wire, dev>>

SyncLs ==
  /\ pc = "ls"
  /\ \/ /\ dirs # << >> /\ Head(dirs) \notin Long
        /\ Sent([id |-> "LIST", path |-> Head(dirs)]) /\ Goto("dents")
     \/ /\ dirs # << >> /\ (Head(dirs) \in Long \/ link = "lost") /\ CloseAndFail
     \/ /\ dirs = << >> /\ UNCHANGED wire
        /\ IF call.name = "ls" THEN QuitAndReturn(0) ELSE Goto("next")
  /\ UNCHANGED <<call, progress, diag, trees, dev>>

SyncLsBuildList ==
  /\ pc = "dents"
  /\ \/ /\ Got({"DENT"}) /\ Goto("dents")
        /\ LET p == Msg.path IN
           /\ list' = IF call.name = "pull" /\ IsCopied(Msg.file)
                      THEN <<[src |-> p, dst |-> p, kind |-> Msg.file.kind]>> \o list
                      ELSE list
           /\ dirs' = IF call.name = "pull" /\ IsDir(Msg.file)
                      THEN <<Head(dirs), p>> \o Tail(dirs) ELSE dirs
           /\ IF IsCopied(Msg.file) \/ IsDir(Msg.file) THEN UNCHANGED diag
              ELSE Printed({p})
     \/ /\ Got({"DONE"}) /\ Goto("ls") /\ dirs' = Tail(dirs)
        /\ UNCHANGED <<list, diag>>
     \/ /\ in = << >> /\ link = "lost" /\ CloseAndFail
        /\ UNCHANGED <<list, dirs, diag>>
  /\ UNCHANGED <<call, pos, flags, block, trees, dev>>

-----------------------------------------------------------------------------
(* External: the sync service of adbd.  It answers in order, waits while its *)
(* answers are not read, and may fail any request but STAT and LIST.         *)
Request(ids) == /\ link \in {"up", "closed"} /\ out # << >> /\ Head(out).id \in ids
                /\ out' = Tail(out) /\ UNCHANGED link
Req == Head(out)
Reply(ms) == IF link = "closed" THEN UNCHANGED in
             ELSE Len(in) < Buffer /\ in' = in \o ms
DevStat ==
  /\ Request({"STAT"}) /\ Req.path \notin Long
  /\ Reply(<<[id |-> "STAT", file |-> remote[Req.path]]>>) /\ UNCHANGED <<remote, dev>>

DevList ==
  /\ Request({"LIST"})
  /\ \E ps \in SetToSeqs({p \in Child[Req.path] : remote[p] # Absent}) :
       Reply([i \in DOMAIN ps |-> [id |-> "DENT", path |-> ps[i],
                                   file |-> remote[ps[i]]]]
             \o <<[id |-> "DONE"]>>)
  /\ UNCHANGED <<remote, dev>>

DevSend ==
  /\ Request({"SEND"})
  /\ \E ok \in {TRUE, FALSE} :
       /\ ok => ~IsDir(remote[Req.path])
       /\ dev' = [path |-> Req.path, kind |-> Req.kind, ok |-> ok]
       /\ remote' = [remote EXCEPT ![Req.path] =
                       IF ok /\ Req.kind # IFLNK THEN Created ELSE Removed(@)]
       /\ IF ok THEN UNCHANGED in ELSE Reply(<<[id |-> "FAIL"]>>)

DevData ==
  /\ Request({"DATA"})
  /\ \/ /\ dev.ok
        /\ remote' = [remote EXCEPT ![dev.path] =
                        IF dev.kind = IFLNK THEN File(IFLNK, Now, 1, Req.version)
                        ELSE Extended(@, Req)]
        /\ UNCHANGED <<in, dev>>
     \/ /\ dev.ok /\ Reply(<<[id |-> "FAIL"]>>) /\ dev' = [dev EXCEPT !.ok = FALSE]
        /\ remote' = [remote EXCEPT ![dev.path] = Absent]
     \/ ~dev.ok /\ UNCHANGED <<in, remote, dev>>

DevDone ==
  /\ Request({"DONE"}) /\ dev' = Idle
  /\ \/ /\ dev.ok /\ remote[dev.path] # Absent /\ Reply(<<[id |-> "OKAY"]>>)
        /\ remote' = [remote EXCEPT ![dev.path].time =
                        IF dev.kind = IFLNK THEN Now ELSE Req.time]
     \/ /\ dev.ok /\ remote[dev.path] = Absent /\ Reply(<<[id |-> "FAIL"]>>)
        /\ UNCHANGED remote
     \/ ~dev.ok /\ UNCHANGED <<in, remote>>

DevRecv ==
  /\ Request({"RECV"}) /\ UNCHANGED <<remote, dev>>
  /\ LET f == remote[Req.path]
         whole == [i \in 1..f.blocks |-> [id |-> "DATA", version |-> f.version]] IN
     \/ IsCopied(f) /\ Reply(whole \o <<[id |-> "DONE"]>>)
     \/ \E n \in 0..f.blocks : Reply(SubSeq(whole, 1, n) \o <<[id |-> "FAIL"]>>)

DevUnlink ==
  /\ Request({"ULNK"}) /\ Req.path \notin Long
  /\ \/ /\ Reply(<<[id |-> "OKAY"]>>) /\ remote[Req.path] # Absent
        /\ remote' = [remote EXCEPT ![Req.path] = Absent]
     \/ Reply(<<[id |-> "FAIL"]>>) /\ UNCHANGED remote
  /\ UNCHANGED dev

(* The service ends after QUIT, and after a name that is too long.           *)
DevQuit ==
  /\ link \in {"up", "closed"} /\ out # << >>
  /\ \/ Req.id = "QUIT" /\ link' = "closed" /\ UNCHANGED in
     \/ /\ Req.id \in {"STAT", "ULNK"} /\ Req.path \in Long
        /\ link' = "lost" /\ Reply(<<[id |-> "FAIL"]>>)
  /\ out' = << >> /\ UNCHANGED <<remote, dev>>

(* The connection ends: by the client with all it sent, or at any point.  A  *)
(* file that was being received is removed.                                  *)
DevEnd ==
  /\ \/ link = "closed" /\ out = << >> /\ dev # Idle /\ UNCHANGED wire
     \/ /\ link = "up" /\ link' = "lost" /\ out' = << >>
        /\ \E n \in 0..Len(in) : in' = SubSeq(in, 1, n)
  /\ dev' = Idle
  /\ remote' = IF dev.ok THEN [remote EXCEPT ![dev.path] = Absent] ELSE remote

Serve == DevStat \/ DevList \/ DevSend \/ DevData \/ DevDone \/ DevRecv
           \/ DevUnlink \/ DevQuit
Device == (Serve \/ DevEnd) /\ UNCHANGED <<call, pc, ret, progress, diag, local>>

SyncClient ==
  \/ Connect \/ PushNothing \/ AskMode \/ ModeFails \/ PushMode \/ PullMode
  \/ UnlinkMode \/ Unlink \/ Unlinked \/ BeginDir \/ NoDir \/ LocalBuildList
  \/ LocalStops \/ LocalListed \/ SyncStartReadtime \/ SyncFinishReadtime \/ NextFile
  \/ SyncSend \/ WriteData \/ SendDone \/ SendStatus \/ AskSize \/ Size
  \/ SyncRecv \/ RecvFirst \/ RecvBody \/ BeginLs \/ SyncLs \/ SyncLsBuildList
  \/ Quit

=============================================================================
