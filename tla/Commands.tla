------------------------------ MODULE Commands ------------------------------
(***************************************************************************)
(* The commands of the adb client that talk to a device (commandline.c),    *)
(* composed with FileSync: what a command does with the results of its sync *)
(* calls and of the services it opens, the temporary file of install and of *)
(* the PAX tools, install sessions, sideload, and the exit code.            *)
(*                                                                          *)
(* A service is a connection of its own: adb_connect() may fail, the device *)
(* does the service's work and ends the stream, or the connection is lost.  *)
(* Two file systems, the sync connection and adbd are those of FileSync.    *)
(***************************************************************************)
EXTENDS FileSync, PaxTool

CONSTANTS Cases,       \* command lines with the file systems they begin with
          Tmp,         \* the name in /data/local/tmp
          Firmwares,   \* values of pax.ctrl.systool.sysver, 0 if it is not set
          Outputs,     \* what a PAX tool may print
          MaxRead,     \* tokens in the buffer of a read
          MaxAbsent,   \* bound: times that a wanted device is found missing
          MaxAsked,    \* bound: blocks that a sideloading device asks for
          BlockSize,   \* SIDELOAD_HOST_BLOCK_SIZE
          IntBound     \* 2^31: an int is from -IntBound to IntBound - 1

ASSUME CommandAssumption ==
  /\ Tmp \in Paths /\ Outputs \subseteq Seq(STRING)
  /\ {MaxRead, BlockSize, IntBound} \subseteq Nat \ {0}
  /\ {MaxAbsent, MaxAsked} \subseteq Nat /\ Firmwares \subseteq Nat

VARIABLES
  cmd,     \* the command line
  fw,      \* external: the firmware of the device
  stage,   \* where the command is
  exit,    \* what it returned, once stage is "end"
  err,     \* the result it keeps for its end
  todo,    \* sync: the partitions to come; install-multiple: the files to come
  svc,     \* the service in use
  strm,    \* its stream: "none", "try", "wait", "up", "asked", "ended",
           \*   "over", "failed"
  absent,  \* failed attempts of a command that waits for the device
  lossy,   \* history: a connection was not made or was lost
  value,   \* the property read by pax_getprop(), or the status line's verdict
  output,  \* external: what the tool prints
  nread,   \* how much of it was read
  cut,     \* history: a read cut a marker or held two
  fed,     \* copy_to_file(): "no", "part" or "whole" of the file was sent
  sess,    \* external: the install session, and the files written to it
  asked, ask, answer  \* sideload: blocks asked for; the last one; what it got

tool == <<output, nread, cut>>
stream == <<svc, strm, absent>>
install == <<fed, sess>>
sideload == <<asked, ask, answer>>
cmdVars == <<cmd, fw, stage, exit, err, todo, stream, lossy, value, tool,
             install, sideload>>
vars == <<syncVars, cmdVars>>

NoAnswer == [offset |-> -1, length |-> 0]

Init ==
  /\ \E c \in Cases : cmd = c.cmd /\ local = c.local /\ remote = c.remote
  /\ fw \in IF cmd.name \in {"push", "unlink", "sysver"} THEN Firmwares ELSE {0}
  /\ stage = "start" /\ exit = 0 /\ err = 0 /\ todo = << >>
  /\ svc = "none" /\ strm = "none" /\ absent = 0 /\ lossy = FALSE /\ value = 0
  /\ output = << >> /\ nread = 0 /\ cut = FALSE
  /\ fed = "no" /\ sess = [state |-> "none", files |-> {}]
  /\ asked = 0 /\ ask = 0 /\ answer = NoAnswer
  /\ call = cmd.call /\ pc = "idle" /\ ret = 0
  /\ list = << >> /\ pos = 1 /\ dirs = << >> /\ flags = {} /\ block = 0
  /\ diag = {} /\ link = "none" /\ out = << >> /\ in = << >> /\ dev = Idle

-----------------------------------------------------------------------------
(* A do_sync_* call, a service, the end of the command.                      *)
NoProgress ==
  list' = << >> /\ pos' = 1 /\ dirs' = << >> /\ flags' = {} /\ block' = 0

SyncCall(c, s) ==
  /\ call' = c /\ pc' = "connect" /\ ret' = -1 /\ stage' = s
  /\ NoProgress
  /\ UNCHANGED <<diag, trees, wire, dev, stream>>

Service(v, s) ==
  /\ svc' = v /\ strm' = "try" /\ stage' = s /\ pc' = "idle"
  /\ NoProgress
  /\ UNCHANGED <<call, ret, diag, trees, wire, dev, absent>>

End(r) ==
  /\ stage' = "end" /\ exit' = r
  /\ UNCHANGED <<syncVars, stream>>

Returned(s) == stage = s /\ pc = "returned"
Over(s) == stage = s /\ strm = "over"
Failed(s) == stage = s /\ strm = "failed"

(* The services for which the command waits until there is a device:         *)
(* send_shellcommand(), pax_tool_command() and "persist shell".              *)
Waits == svc \in {"pm", "delete", "tool", "shellcommand"}

(* adb_connect().                                                            *)
AdbConnect ==
  /\ strm = "try"
  /\ \/ strm' = "up" /\ UNCHANGED <<absent, lossy>>
     \/ /\ Waits /\ absent < MaxAbsent
        /\ strm' = "wait" /\ absent' = absent + 1 /\ lossy' = TRUE
     \/ ~Waits /\ strm' = "failed" /\ lossy' = TRUE /\ UNCHANGED absent
  /\ UNCHANGED <<syncVars, cmd, fw, stage, exit, err, todo, svc, value, tool,
                 install, sideload>>

(* adb_sleep_ms(1000) and do_cmd("wait-for-device").                         *)
WaitForDevice ==
  /\ strm = "wait" /\ strm' = "try"
  /\ UNCHANGED <<syncVars, cmd, fw, stage, exit, err, todo, svc, absent, lossy,
                 value, tool, install, sideload>>

(* read_and_dump(), read_status_line(), the loop of pax_getprop(): to the    *)
(* end of the stream.                                                        *)
ReadAndDump ==
  /\ strm = "ended" /\ svc # "tool"
  /\ strm' = "over"
  /\ UNCHANGED <<syncVars, cmd, fw, stage, exit, err, todo, svc, absent, lossy,
                 value, tool, install, sideload>>

-----------------------------------------------------------------------------
(* External: what the device does for a service before it ends the stream.   *)
DevService ==
  /\ strm = "up" /\ strm' = "ended"
  /\ svc # "sideload-host" /\ (svc = "write" => fed = "whole")
  /\ \E ok \in {0, 1} :
       /\ value' = IF svc = "getprop" THEN fw ELSE ok
       /\ sess' = CASE svc = "create" /\ ok = 1 -> [sess EXCEPT !.state = "open"]
                    [] svc = "write" /\ ok = 1 ->
                         [sess EXCEPT !.files = @ \cup {Head(todo)}]
                    [] svc = "commit" /\ ok = 1 -> [sess EXCEPT !.state = "committed"]
                    [] svc = "abandon" /\ ok = 1 -> [sess EXCEPT !.state = "abandoned"]
                    [] OTHER -> sess
  /\ remote' = IF svc \in {"rm", "delete"} THEN [remote EXCEPT ![Tmp] = Removed(@)]
               ELSE remote
  /\ output' \in IF svc = "tool" THEN Outputs ELSE {output}
  /\ UNCHANGED <<call, pc, ret, progress, diag, local, wire, dev, cmd, fw, stage,
                 exit, err, todo, svc, absent, lossy, nread, cut, fed, sideload>>

(* The connection is lost, before or after the device did its work; of the   *)
(* answer a part may have arrived.  A number loses its last digits.          *)
ServiceLost ==
  /\ strm \in {"up", "asked", "ended"} /\ strm' = "ended"
  /\ lossy' = TRUE
  /\ value' \in IF svc = "getprop" THEN {fw, fw \div 10, fw \div 100, 0} ELSE {0}
  /\ \E n \in nread .. Len(output) : output' = SubSeq(output, 1, n)
  /\ UNCHANGED <<syncVars, cmd, fw, stage, exit, err, todo, svc, absent, nread, cut,
                 install, sideload>>

-----------------------------------------------------------------------------
(* adb_commandline(): ls, pull and getappinfo are one sync call.             *)
SyncCommand ==
  /\ stage = "start" /\ cmd.name \in {"ls", "pull"}
  /\ SyncCall(cmd.call, "call")
  /\ UNCHANGED <<cmd, fw, exit, err, todo, lossy, value, tool, install, sideload>>

SyncReturned ==
  /\ Returned("call") /\ End(ret)
  /\ UNCHANGED <<cmd, fw, err, todo, lossy, value, tool, install, sideload>>

(* "sync": /system, /vendor and /data, each when those before it succeeded.  *)
SyncPartitions ==
  /\ stage = "start" /\ cmd.name = "sync"
  /\ stage' = "partitions" /\ todo' = cmd.files
  /\ UNCHANGED <<syncVars, cmd, fw, exit, err, stream, lossy, value, tool, install,
                 sideload>>

NextPartition ==
  /\ stage = "partitions" /\ pc \in {"idle", "returned"}
  /\ IF ret # 0 \/ todo = << >> THEN End(ret) /\ UNCHANGED todo
     ELSE /\ SyncCall([cmd.call EXCEPT !.src = Head(todo), !.dst = Head(todo)],
                      "partitions")
          /\ todo' = Tail(todo) /\ UNCHANGED exit
  /\ UNCHANGED <<cmd, fw, err, lossy, value, tool, install, sideload>>

(* "push", "unlink" and "sysver" first ask for the firmware's version.       *)
AskVersion ==
  /\ stage = "start" /\ cmd.name \in {"push", "unlink", "sysver"}
  /\ Service("getprop", "route")
  /\ UNCHANGED <<cmd, fw, exit, err, todo, lossy, value, tool, install, sideload>>

(* pax_systool_sysver(): -1 when it could not be asked.                      *)
SysverRead == IF strm = "failed" THEN -1 ELSE value

(* Under /data/resource/app/ new firmware wants its systool.                 *)
RouteFile ==
  /\ (Over("route") \/ Failed("route")) /\ cmd.name \in {"push", "unlink"}
  /\ IF SysverRead >= 100 /\ cmd.app
     THEN stage' = "manage" /\ UNCHANGED <<syncVars, stream>>
     ELSE SyncCall(cmd.call, "call")
  /\ UNCHANGED <<cmd, fw, exit, err, todo, lossy, value, tool, install, sideload>>

(* pax_sysver(): three properties, or the tool.                              *)
RouteSysver ==
  /\ (Over("route") \/ Failed("route")) /\ cmd.name = "sysver"
  /\ IF SysverRead = 1
     THEN stage' = "manage" /\ UNCHANGED <<syncVars, stream, todo>>
     ELSE Service("getprop", "props") /\ todo' = <<"apbootver", "spver">>
  /\ UNCHANGED <<cmd, fw, exit, err, lossy, value, tool, install, sideload>>

NextProp ==
  /\ Over("props") \/ Failed("props")
  /\ IF todo = << >> THEN End(0) /\ UNCHANGED todo
     ELSE Service("getprop", "props") /\ todo' = Tail(todo) /\ UNCHANGED exit
  /\ UNCHANGED <<cmd, fw, err, lossy, value, tool, install, sideload>>

-----------------------------------------------------------------------------
(* pax_tool_manage(): with a local file, push it, use it, remove it.         *)
PushTo(dst) == [cmd.call EXCEPT !.name = "push", !.dst = dst, !.progress = FALSE]
FileBased == cmd.file \/ cmd.name = "push"

Manage ==
  /\ stage = "manage" \/ (stage = "start" /\ cmd.name \in {"systool", "puk"})
  /\ CASE FileBased /\ local[cmd.call.src] = Absent -> End(1)
       [] FileBased /\ local[cmd.call.src] # Absent ->
            SyncCall(PushTo(Tmp), "pushed") /\ UNCHANGED exit
       [] ~FileBased -> Service("tool", "tool") /\ UNCHANGED exit
  /\ UNCHANGED <<cmd, fw, err, todo, lossy, value, tool, install, sideload>>

(* Mutant: the tool runs whatever became of the push.                        *)
ManagePushedAnyway ==
  /\ Returned("pushed") /\ Service("tool", "tool")
  /\ UNCHANGED <<cmd, fw, exit, err, todo, lossy, value, tool, install, sideload>>

ManagePushed ==
  /\ Returned("pushed")
  /\ IF ret # 0 THEN End(ret) ELSE Service("tool", "tool") /\ UNCHANGED exit
  /\ UNCHANGED <<cmd, fw, err, todo, lossy, value, tool, install, sideload>>

(* pax_stream_and_parse_ret(): reads of any length; puktools has no marker.  *)
ToolRead ==
  /\ svc = "tool" /\ strm = "ended"
  /\ \/ /\ nread = Len(output) /\ strm' = "over" /\ UNCHANGED <<nread, err, cut>>
     \/ \E n \in nread + 1 .. Len(output) :
          /\ n - nread <= MaxRead /\ nread' = n
          /\ err' = IF cmd.name = "puk" THEN err
                    ELSE ParseRead(err, SubSeq(output, nread + 1, n))
          /\ cut' = (cut \/ CutsMarker(output, nread + 1, n))
          /\ UNCHANGED strm
  /\ UNCHANGED <<syncVars, cmd, fw, stage, exit, todo, svc, absent, lossy, value,
                 output, install, sideload>>

ManageTool ==
  /\ Over("tool")
  /\ IF FileBased THEN Service("rm", "rm") /\ UNCHANGED exit ELSE End(err)
  /\ UNCHANGED <<cmd, fw, err, todo, lossy, value, tool, install, sideload>>

ManageRemoved ==
  /\ Over("rm") \/ Failed("rm")
  /\ End(err)
  /\ UNCHANGED <<cmd, fw, err, todo, lossy, value, tool, install, sideload>>

-----------------------------------------------------------------------------
(* install_app(): the result is that of the push, whatever pm says.          *)
InstallApp ==
  /\ stage = "start" /\ cmd.name = "install"
  /\ IF IsCopied(local[cmd.call.src])
     THEN SyncCall(PushTo(Tmp), "apk") /\ UNCHANGED exit
     ELSE End(-1)
  /\ UNCHANGED <<cmd, fw, err, todo, lossy, value, tool, install, sideload>>

ApkPushed ==
  /\ Returned("apk") /\ err' = ret
  /\ IF ret = 0 THEN Service("pm", "pm") ELSE Service("delete", "delete")
  /\ UNCHANGED <<cmd, fw, exit, todo, lossy, value, tool, install, sideload>>

(* Mutant: the file in /data/local/tmp is not deleted.                       *)
PmDoneKeeps ==
  /\ Over("pm") /\ End(err)
  /\ UNCHANGED <<cmd, fw, err, todo, lossy, value, tool, install, sideload>>

PmDone ==
  /\ Over("pm") /\ Service("delete", "delete")
  /\ UNCHANGED <<cmd, fw, exit, err, todo, lossy, value, tool, install, sideload>>

DeleteDone ==
  /\ Over("delete") /\ End(err)
  /\ UNCHANGED <<cmd, fw, err, todo, lossy, value, tool, install, sideload>>

-----------------------------------------------------------------------------
(* install_multiple_app(): create a session, stream the files, commit.       *)
InstallMultiple ==
  /\ stage = "start" /\ cmd.name = "install-multiple"
  /\ IF \A i \in DOMAIN cmd.files : IsCopied(local[cmd.files[i]])
     THEN Service("create", "create") /\ UNCHANGED exit
     ELSE End(-1)
  /\ UNCHANGED <<cmd, fw, err, todo, lossy, value, tool, install, sideload>>

SessionCreated ==
  /\ Over("create") \/ Failed("create")
  /\ IF strm = "over" /\ value = 1
     THEN /\ stage' = "apks" /\ todo' = cmd.files
          /\ UNCHANGED <<syncVars, stream, exit>>
     ELSE End(-1) /\ UNCHANGED todo
  /\ UNCHANGED <<cmd, fw, err, lossy, value, tool, install, sideload>>

(* A file that is gone or cannot be opened by now ends it.                   *)
NextApk ==
  /\ stage = "apks"
  /\ \/ todo = << >> /\ Service("commit", "final")
     \/ todo # << >> /\ Service("abandon", "final")
     \/ todo # << >> /\ Service("write", "write")
  /\ fed' = "no"
  /\ UNCHANGED <<cmd, fw, exit, err, todo, lossy, value, tool, sess, sideload>>

(* copy_to_file(): to the end of the file or a read error; what adb_write()  *)
(* returns is not looked at.  The device was told the size by stat().        *)
CopyToFile ==
  /\ svc = "write" /\ strm = "up" /\ fed = "no" /\ fed' \in {"part", "whole"}
  /\ UNCHANGED <<syncVars, cmd, fw, stage, exit, err, todo, stream, lossy, value,
                 tool, sess, sideload>>

(* Mutant: the status of the write is not looked at.                         *)
ApkWrittenAnyway ==
  /\ Over("write") \/ Failed("write")
  /\ stage' = "apks" /\ todo' = Tail(todo)
  /\ UNCHANGED <<syncVars, stream, cmd, fw, exit, err, lossy, value, tool, install,
                 sideload>>

ApkWritten ==
  /\ Over("write") \/ Failed("write")
  /\ IF strm = "over" /\ value = 1
     THEN /\ stage' = "apks" /\ todo' = Tail(todo) /\ UNCHANGED <<syncVars, stream>>
     ELSE Service("abandon", "final") /\ UNCHANGED todo
  /\ UNCHANGED <<cmd, fw, exit, err, lossy, value, tool, install, sideload>>

(* The status of whichever of the two was sent decides.                      *)
Finalized ==
  /\ Over("final") \/ Failed("final")
  /\ End(IF strm = "over" /\ value = 1 THEN 0 ELSE -1)
  /\ UNCHANGED <<cmd, fw, err, todo, lossy, value, tool, install, sideload>>

-----------------------------------------------------------------------------
(* adb_sideload_host(): the device asks for blocks; an older one takes the   *)
(* whole package from adb_download_buffer().                                 *)
Sideload ==
  /\ stage = "start" /\ cmd.name = "sideload"
  /\ IF local[cmd.call.src] = Absent THEN End(1)
     ELSE Service("sideload-host", "serve") /\ UNCHANGED exit
  /\ UNCHANGED <<cmd, fw, err, todo, lossy, value, tool, install, sideload>>

DevAsk ==
  /\ svc = "sideload-host" /\ strm = "up"
  /\ \/ /\ asked < MaxAsked /\ asked' = asked + 1 /\ strm' = "asked"
        /\ ask' \in 0 .. cmd.size \div BlockSize + 1 /\ UNCHANGED value
     \/ strm' = "ended" /\ value' = 1 /\ UNCHANGED <<asked, ask>>
  /\ UNCHANGED <<syncVars, cmd, fw, stage, exit, err, todo, svc, absent, lossy, tool,
                 install, answer>>

(* block * SIDELOAD_HOST_BLOCK_SIZE is an int, and becomes a size_t, where a *)
(* negative one is past any end.  When it overflows, the compiled code wraps *)
(* around or has multiplied in the wider type.                               *)
IntProducts(n) ==
  {((n * BlockSize + IntBound) % (2 * IntBound)) - IntBound, n * BlockSize}

(* Mutant: the last block is not cut at the end of the package.              *)
ServeFullBlock ==
  /\ svc = "sideload-host" /\ strm = "asked"
  /\ \E offset \in IntProducts(ask) :
     IF offset < 0 \/ offset >= cmd.size
     THEN End(1) /\ answer' = NoAnswer
     ELSE /\ answer' = [offset |-> offset, length |-> BlockSize]
          /\ strm' = "up"
          /\ UNCHANGED <<syncVars, stage, exit, svc, absent>>
  /\ UNCHANGED <<cmd, fw, err, todo, lossy, value, tool, install, asked, ask>>

ServeBlock ==
  /\ svc = "sideload-host" /\ strm = "asked"
  /\ \E offset \in IntProducts(ask) :
     IF offset < 0 \/ offset >= cmd.size
     THEN End(1) /\ answer' = NoAnswer
     ELSE /\ answer' = [offset |-> offset,
                        length |-> IF offset + BlockSize > cmd.size
                                   THEN cmd.size - offset ELSE BlockSize]
          /\ strm' = "up"
          /\ UNCHANGED <<syncVars, stage, exit, svc, absent>>
  /\ UNCHANGED <<cmd, fw, err, todo, lossy, value, tool, install, asked, ask>>

Served ==
  /\ Over("serve") /\ End(IF value = 1 THEN 0 ELSE 1)
  /\ UNCHANGED <<cmd, fw, err, todo, lossy, value, tool, install, sideload>>

Download ==
  /\ Failed("serve") /\ Service("sideload", "download")
  /\ UNCHANGED <<cmd, fw, exit, err, todo, lossy, value, tool, install, sideload>>

Downloaded ==
  /\ Over("download") \/ Failed("download")
  /\ End(IF strm = "over" /\ value = 1 THEN 0 ELSE 1)
  /\ UNCHANGED <<cmd, fw, err, todo, lossy, value, tool, install, sideload>>

-----------------------------------------------------------------------------
(* shell, exec-in, exec-out, jdwp, remount, reboot, root, tcpip ...: one     *)
(* stream; uninstall, logcat and syslog wait for a device.                   *)
PlainCommand ==
  /\ stage = "start" /\ cmd.name \in {"shell", "remount", "logcat"}
  /\ Service(IF cmd.name = "logcat" THEN "shellcommand" ELSE "plain", "plain")
  /\ UNCHANGED <<cmd, fw, exit, err, todo, lossy, value, tool, install, sideload>>

(* backup() makes its file before it connects; restore() opens it.           *)
Backup ==
  /\ stage = "start" /\ cmd.name = "backup"
  /\ \/ /\ local' = [local EXCEPT ![cmd.call.dst] = Removed(@)]
        /\ stage' = "end" /\ exit' = -1 /\ UNCHANGED <<svc, strm>>
     \/ /\ ~IsDir(local[cmd.call.dst])
        /\ local' = [local EXCEPT ![cmd.call.dst] = Created]
        /\ svc' = "plain" /\ strm' = "try" /\ stage' = "plain" /\ UNCHANGED exit
  /\ UNCHANGED <<call, pc, ret, progress, diag, remote, wire, dev, cmd, fw, err, todo,
                 absent, lossy, value, tool, install, sideload>>

Restore ==
  /\ stage = "start" /\ cmd.name = "restore"
  /\ IF local[cmd.call.src] = Absent THEN End(-1)
     ELSE Service("plain", "plain") /\ UNCHANGED exit
  /\ UNCHANGED <<cmd, fw, err, todo, lossy, value, tool, install, sideload>>

(* With "persist" a shell is opened again when the device is back.           *)
PlainDone ==
  /\ Over("plain") \/ Failed("plain")
  /\ IF cmd.name = "shell" /\ cmd.persist
     THEN strm' = "wait" /\ UNCHANGED <<syncVars, stage, exit, svc, absent>>
     ELSE End(CASE strm = "over" -> 0 [] cmd.name = "remount" -> 1 [] OTHER -> -1)
  /\ UNCHANGED <<cmd, fw, err, todo, lossy, value, tool, install, sideload>>

-----------------------------------------------------------------------------
(* The steps of FileSync, with the history of losses.                        *)
Other == /\ lossy' = (lossy \/ (link # "lost" /\ link' = "lost")
                            \/ (pc = "connect" /\ link' = "none"))
         /\ UNCHANGED <<cmd, fw, stage, exit, err, todo, stream, value, tool,
                        install, sideload>>
SyncStep == SyncClient /\ Other
DeviceStep == Device /\ Other

Command ==
  \/ AdbConnect \/ WaitForDevice \/ ReadAndDump \/ SyncCommand \/ SyncReturned
  \/ SyncPartitions \/ NextPartition \/ AskVersion \/ RouteFile \/ RouteSysver
  \/ NextProp \/ Manage \/ ManagePushed \/ ToolRead \/ ManageTool \/ ManageRemoved
  \/ InstallApp \/ ApkPushed \/ PmDone \/ DeleteDone \/ InstallMultiple
  \/ SessionCreated \/ NextApk \/ CopyToFile \/ ApkWritten \/ Finalized \/ Sideload
  \/ ServeBlock \/ Served \/ Download \/ Downloaded \/ PlainCommand \/ Backup
  \/ Restore \/ PlainDone

Next ==
  SyncStep \/ DeviceStep \/ Command \/ DevService \/ DevAsk \/ ServiceLost

(* The client runs, adbd serves what it was sent, and a service comes to its *)
(* end or its device stops asking.  Nothing makes a connection fail.         *)
Spec == /\ Init /\ [][Next]_vars
        /\ WF_vars(SyncStep) /\ WF_vars(Command)
        /\ WF_vars(Serve /\ UNCHANGED <<call, pc, ret, progress, diag, local>> /\ Other)
        /\ WF_vars(DevService) /\ WF_vars(DevAsk)

-----------------------------------------------------------------------------
Stages == {"start", "call", "partitions", "route", "props", "manage", "pushed", "tool",
           "rm", "apk", "pm", "delete", "create", "apks", "write", "final", "serve",
           "download", "plain", "end"}

(* The type invariant.  A connection's queues stay within their buffers, up  *)
(* to the one reply that was begun.                                          *)
TypeOK ==
  /\ stage \in Stages /\ exit \in Int /\ err \in Int /\ ret \in -1 .. 1
  /\ \A p \in Paths : IsDir(local[p]) => local[p].blocks = 0
  /\ flags \subseteq Paths /\ diag \subseteq Paths
  /\ pos \in 1 .. Len(list) + 1 /\ Len(out) <= Buffer + 1
  /\ nread \in 0 .. Len(output) /\ absent \in 0 .. MaxAbsent

Below(p) == Child[p] \cup UNION {Child[q] : q \in Child[p]}

(* A push, pull or sync that returns 0 has told of every file that it did    *)
(* not copy: each other file below the source is in its list, and is the     *)
(* same on both sides.  A listing that stopped has told of one file, which   *)
(* stands for the rest of its directory (local_build_list() returns -1 there *)
(* and its caller for a subdirectory does not look).  A file whose pull the  *)
(* device failed is not left half written.  (The results of                  *)
(* write_data_file() and of sync_recv()'s remote_error are not passed on.)   *)
CopiesOrReports ==
  (pc = "returned" /\ ret = 0 /\ call.name \in {"push", "pull", "sync"}
     /\ ~call.listonly) =>
    LET from == IF call.name = "pull" THEN remote ELSE local
        to == IF call.name = "pull" THEN local ELSE remote
        todoFiles == IF IsDir(from[call.src]) THEN Below(call.src) ELSE {call.src}
    IN  /\ \A p \in todoFiles : IsCopied(from[p]) /\ p \notin diag =>
              \E i \in DOMAIN list : list[i].src = p
        /\ \A i \in DOMAIN list : list[i].src \notin flags =>
              \/ SameData(from[list[i].src], to[list[i].dst]) /\ to[list[i].dst] # Absent
              \/ list[i].src \in diag /\ (call.name = "pull" => to[list[i].dst] = Absent)

(* A file that "adb sync" skips is on the device, with the size of the local *)
(* one and its time, or a later time for a link: the answers to the STAT     *)
(* requests, all sent before the first is read, are matched with the right   *)
(* files.                                                                    *)
SkippedMatch ==
  \A p \in flags : /\ remote[p] # Absent /\ remote[p].blocks = local[p].blocks
                   /\ remote[p].time >= local[p].time

(* No command removes a directory of the device: do_sync_unlink() refuses    *)
(* what STAT reports as one, and forwards the request without an answer only *)
(* when the connection is gone.                                              *)
KeepsDirectories ==
  [][\A p \in Paths : IsDir(remote[p]) => remote'[p] = remote[p]]_vars

(* When pm or a PAX tool runs on the pushed file, it is whole, or an error   *)
(* was printed for it.                                                       *)
ToolSeesWhole ==
  (svc \in {"pm", "tool"} /\ strm = "up" /\ (svc = "pm" \/ FileBased)) =>
    \/ SameData(local[cmd.call.src], remote[Tmp]) /\ remote[Tmp] # Absent
    \/ cmd.call.src \in diag

(* The temporary file of install and of the tools is gone when the command   *)
(* has returned and adbd has done what it was sent, unless a connection      *)
(* failed.                                                                   *)
TempFileRemoved ==
  stage = "end" /\ ~lossy /\ out = << >> /\ dev = Idle => remote[Tmp] = Absent

(* install-multiple commits a session only with all of its files, and leaves *)
(* none open unless a connection failed or pm refused to end it.             *)
CommitsWhole ==
  /\ sess.state = "committed" => sess.files = Range(cmd.files)
  /\ stage = "end" /\ ~lossy /\ sess.state = "open" => exit # 0

(* The exit code of a systool command is that of the last marker in what it  *)
(* printed, when no read ended inside a marker or held two.                  *)
ExitCodeMatches ==
  stage = "end" /\ cmd.name = "systool" /\ svc \in {"tool", "rm"} /\ ~cut =>
    exit = WholeOutputCode(output)

(* adb_sideload_host() serves the block that was asked for, all of it and no *)
(* more, and refuses only blocks past the end, for packages under 2 GB.      *)
SideloadServes ==
  (cmd.name = "sideload" /\ cmd.size <= IntBound /\ asked > 0 /\ strm = "up")
    => /\ answer.offset = ask * BlockSize /\ answer.offset < cmd.size
       /\ answer.offset + answer.length = Min({cmd.size, (ask + 1) * BlockSize})

(* The client waits for the status of a file and the device for the rest of  *)
(* it: the file became shorter after stat().                                 *)
Stalled == svc = "write" /\ strm = "up" /\ fed = "part"

(* Every command comes to its end, but for "persist", and for an APK that    *)
(* was cut while it was streamed.                                            *)
CommandEnds == <>(stage = "end" \/ Stalled \/ cmd.persist)

(* The code of the marker is the exit code of the command (README): a tool   *)
(* that reported a failure does not end in 0.                                *)
ToolFailureReported ==
  stage = "end" /\ cmd.name = "systool" /\ svc \in {"tool", "rm"}
    /\ WholeOutputCode(output) # 0 => exit # 0

=============================================================================
