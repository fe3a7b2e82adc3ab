----------------------------- MODULE AdbClient -----------------------------
(***************************************************************************)
(* How clients find, start and replace the server: adb_connect() and       *)
(* _adb_connect() of adb_client.c, launch_server(), adb_main() and the     *)
(* host:version and host:kill requests of adb.c, the key files that a      *)
(* starting server makes (adb_auth_host.c), and the commands start-server  *)
(* and kill-server.                                                        *)
(*                                                                         *)
(* Processes share the server's port and the two key files.  A client      *)
(* launches at most one child, Child[c]: a server when execl() works, and  *)
(* a second copy of the client when it does not.  A key is named by the    *)
(* server that made it.                                                    *)
(***************************************************************************)
EXTENDS Naturals, Sequences, Functions

CONSTANTS
  Clients,      \* adb processes started by users
  Child,        \* Child[c] is the process that c forks
  First,        \* the server that may be running already
  NoProc,       \* no process, and no key
  MaxDeaths     \* bound: servers that are stopped by a signal

Kids == Range(Child)
Servers == Kids \cup {First}
Procs == Clients \cup Servers

(* Children are distinct processes; "empty" names none of them. *)
ASSUME ProcAssumption ==
  /\ Child \in [Clients -> Kids] /\ IsInjective(Child)
  /\ Clients \cap Servers = {} /\ First \notin Kids
  /\ NoProc \notin Procs /\ "empty" \notin Procs \cup {NoProc}
  /\ MaxDeaths \in Nat

Parent(k) == CHOOSE c \in Clients : Child[c] = k

Current == "current"     \* ADB_SERVER_VERSION of the clients
Older == "older"         \* another number
Unknown == "unknown"     \* a server without host:version

VARIABLES
  cmd,       \* a client's command: "service", "start-server", "kill-server"
  pc,        \* where each process is
  ret,       \* what adb_connect() or main() returned: "none", "ok", "error"
  conn,      \* the connection of a client: to, the request, the answer
  port,      \* the process that listens on the server's port
  version,   \* each process's ADB_SERVER_VERSION
  asked,     \* history: the server that told the client its version
  pipe,      \* what the child wrote on the launch pipe: "none", "OK", "other"
  ran,       \* history: servers that carried out the client's service
  priv, pub, \* the key files: a key, NoProc (absent) or "empty"
  key,       \* the key a server loaded
  spoiled,   \* history: two servers made keys at once, or one failed to
  deaths     \* servers stopped by a signal

keyVars == <<priv, pub, key, spoiled>>
vars == <<cmd, pc, ret, conn, port, version, asked, pipe, ran,
          priv, pub, key, spoiled, deaths>>

Idle == [to |-> NoProc, req |-> "none", got |-> "none"]
Commands == {"service", "start-server", "kill-server"}

Generating == {"open", "public", "close"}
Starting == {"stat", "read", "bind", "ack"} \cup Generating

Labels == {"none", "version", "kill", "kill-server", "launch", "wait", "service", "end",
           "loop", "exit", "gone"} \cup Starting
Conns == [to : Servers \cup {NoProc}, req : {"none", "version", "kill", "service"},
          got : {"none", "okay", "fail", "lost"}]

(* The processes and what they exchange, and the files and the history. *)
ProcType ==
  /\ pc \in [Procs -> Labels]
  /\ ret \in [Procs -> {"none", "ok", "error"}]
  /\ conn \in [Procs -> Conns]
  /\ port \in Servers \cup {NoProc}
  /\ pipe \in [Clients -> {"none", "OK", "other"}]

FileType ==
  /\ cmd \in [Clients -> Commands]
  /\ version \in [Procs -> {Current, Older, Unknown}]
  /\ asked \in [Clients -> Servers \cup {NoProc}]
  /\ ran \in [Clients -> Seq(Servers)]
  /\ priv \in Servers \cup {NoProc, "empty"} /\ pub \in Servers \cup {NoProc, "empty"}
  /\ key \in [Servers -> Servers \cup {NoProc}]
  /\ spoiled \in BOOLEAN
  /\ deaths \in 0 .. MaxDeaths

TypeOK == ProcType /\ FileType

-----------------------------------------------------------------------------
(***************************************************************************)
(* _adb_connect(): connect, send one request, read the status.             *)
(***************************************************************************)

Goto(p, l) == pc' = [pc EXCEPT ![p] = l]

Return(p, r) ==
  /\ Goto(p, "end")
  /\ ret' = [ret EXCEPT ![p] = r]

(* The request is written; the answer comes from whoever owns the port. *)
Ask(p, req) ==
  /\ conn[p] = Idle /\ port # NoProc
  /\ conn' = [conn EXCEPT ![p] = [to |-> port, req |-> req, got |-> "none"]]
  /\ UNCHANGED <<cmd, pc, ret, port, version, asked, pipe, ran, keyVars, deaths>>

(* -2: "cannot connect to daemon". *)
Refused(p) ==
  /\ conn[p] = Idle /\ port = NoProc
  /\ UNCHANGED conn

Answered(p) ==
  /\ conn[p].got # "none"
  /\ conn' = [conn EXCEPT ![p] = Idle]

-----------------------------------------------------------------------------
(***************************************************************************)
(* adb_connect().                                                          *)
(***************************************************************************)

Owner(p) == IF p \in Clients THEN p ELSE Parent(p)

(* A server is up: start-server is done, other commands go on. *)
ServerIsUp(p) ==
  IF cmd[Owner(p)] = "start-server" THEN Return(p, "ok")
  ELSE Goto(p, "service") /\ UNCHANGED ret

(* A mutant: the comparison is the wrong way round. *)
OtherVersionIsGood(v) == v # Current

UpToDate(v) == v = Current

(* host:version, and what follows from the answer. *)
QueryVersion(c) ==
  /\ pc[c] = "version"
  /\ \/ Ask(c, "version")
     \/ /\ Refused(c)
        /\ Goto(c, "launch")
        /\ UNCHANGED <<cmd, ret, port, version, asked, pipe, ran, keyVars, deaths>>
     \/ /\ Answered(c)
        /\ LET s == conn[c].to IN
           /\ asked' = [asked EXCEPT ![c] = s]
           /\ IF conn[c].got = "lost" THEN Return(c, "error")
              ELSE IF UpToDate(version[s]) THEN ServerIsUp(c)
              ELSE Goto(c, "kill") /\ UNCHANGED ret
        /\ UNCHANGED <<cmd, port, version, pipe, ran, keyVars, deaths>>

(* The server is out of date: host:kill, whatever becomes of it. *)
KillOld(c) ==
  /\ pc[c] = "kill"
  /\ \/ Ask(c, "kill")
     \/ /\ Refused(c) \/ Answered(c)
        /\ Goto(c, "launch")
        /\ UNCHANGED <<cmd, ret, port, version, asked, pipe, ran, keyVars, deaths>>

(* launch_server(): pipe() or fork() fails, or the child becomes a server, *)
(* or execl() fails and the child returns 0 like its parent.               *)
Launch(c) ==
  /\ pc[c] = "launch"
  /\ \/ Return(c, "error") /\ UNCHANGED pipe
     \/ /\ pc' = [pc EXCEPT ![c] = "wait", ![Child[c]] = "stat"]
        /\ UNCHANGED <<ret, pipe>>
     \/ /\ pipe' = [pipe EXCEPT ![c] = "other"]
        /\ IF cmd[c] = "start-server"
           THEN /\ pc' = [pc EXCEPT ![c] = "wait", ![Child[c]] = "end"]
                /\ ret' = [ret EXCEPT ![Child[c]] = "ok"]
           ELSE /\ pc' = [pc EXCEPT ![c] = "wait", ![Child[c]] = "service"]
                /\ UNCHANGED ret
  /\ UNCHANGED <<cmd, conn, port, version, asked, ran, keyVars, deaths>>

(* A mutant: whatever the child wrote is taken for "OK". *)
AnyAck(c) ==
  /\ pc[c] = "wait" /\ pipe[c] # "none"
  /\ ServerIsUp(c)
  /\ UNCHANGED <<cmd, conn, port, version, asked, pipe, ran, keyVars, deaths>>

(* A mutant: the parent waits until it has read "OK". *)
WaitForOk(c) ==
  /\ pc[c] = "wait" /\ pipe[c] = "OK"
  /\ ServerIsUp(c)
  /\ UNCHANGED <<cmd, conn, port, version, asked, pipe, ran, keyVars, deaths>>

(* The parent reads three bytes of the pipe. *)
WaitForAck(c) ==
  /\ pc[c] = "wait" /\ pipe[c] # "none"
  /\ IF pipe[c] = "OK" THEN ServerIsUp(c) ELSE Return(c, "error")
  /\ UNCHANGED <<cmd, conn, port, version, asked, pipe, ran, keyVars, deaths>>

(* The last _adb_connect(), by the client or by a child that did not exec. *)
ConnectService(p) ==
  /\ pc[p] = "service"
  /\ \/ Ask(p, "service")
     \/ /\ \/ Refused(p) /\ Return(p, "error")
           \/ /\ Answered(p)
              /\ Return(p, IF conn[p].got = "okay" THEN "ok" ELSE "error")
        /\ UNCHANGED <<cmd, port, version, asked, pipe, ran, keyVars, deaths>>

(* adb kill-server: -2, no server, is not told from success. *)
KillServer(c) ==
  /\ pc[c] = "kill-server"
  /\ \/ Ask(c, "kill")
     \/ /\ \/ Refused(c) /\ Return(c, "ok")
           \/ /\ Answered(c)
              /\ Return(c, IF conn[c].got = "okay" THEN "ok" ELSE "error")
        /\ UNCHANGED <<cmd, port, version, asked, pipe, ran, keyVars, deaths>>

-----------------------------------------------------------------------------
(***************************************************************************)
(* The server: adb_auth_init(), install_listener(), "OK", the event loop.  *)
(***************************************************************************)

(* A mutant: get_user_key() makes a new key every time. *)
AlwaysStat(s) ==
  /\ pc[s] = "stat"
  /\ Goto(s, "open")
  /\ spoiled' = (spoiled \/ \E o \in Servers : pc[o] \in Generating)
  /\ UNCHANGED <<cmd, ret, conn, port, version, asked, pipe, ran, priv, pub, key, deaths>>

(* get_user_key(): is there a key file? *)
StatKey(s) ==
  /\ pc[s] = "stat"
  /\ Goto(s, IF priv = NoProc THEN "open" ELSE "read")
  /\ spoiled' = (spoiled \/ \E o \in Servers : pc[o] \in Generating)
  /\ UNCHANGED <<cmd, ret, conn, port, version, asked, pipe, ran, priv, pub, key, deaths>>

(* generate_key(): fopen() empties the file; it is filled by fclose(),     *)
(* after the public key was written.                                       *)
OpenKey(s) ==
  /\ pc[s] = "open"
  /\ \/ priv' = "empty" /\ Goto(s, "public") /\ UNCHANGED spoiled
     \/ UNCHANGED priv /\ Goto(s, "bind") /\ spoiled' = TRUE
  /\ UNCHANGED <<cmd, ret, conn, port, version, asked, pipe, ran, pub, key, deaths>>

WritePublicKeyfile(s) ==
  /\ pc[s] = "public"
  /\ \/ pub' = s /\ Goto(s, "close") /\ UNCHANGED <<priv, spoiled>>
     \/ UNCHANGED pub /\ priv' = s /\ Goto(s, "bind") /\ spoiled' = TRUE
  /\ UNCHANGED <<cmd, ret, conn, port, version, asked, pipe, ran, key, deaths>>

CloseKey(s) ==
  /\ pc[s] = "close"
  /\ priv' = s
  /\ Goto(s, "read")
  /\ UNCHANGED <<cmd, ret, conn, port, version, asked, pipe, ran, pub, key, spoiled, deaths>>

(* read_key() of an empty file fails, and the server runs without a key. *)
ReadKey(s) ==
  /\ pc[s] = "read"
  /\ key' = [key EXCEPT ![s] = IF priv = "empty" THEN NoProc ELSE priv]
  /\ Goto(s, "bind")
  /\ UNCHANGED <<cmd, ret, conn, port, version, asked, pipe, ran, priv, pub, spoiled, deaths>>

(* The process ends: its port is free, its clients see the end of file,    *)
(* and so does its parent if it waits for "OK".                            *)
Gone(s) ==
  /\ Goto(s, "gone")
  /\ port' = IF port = s THEN NoProc ELSE port
  /\ conn' = [p \in Procs |-> IF conn[p].to = s /\ conn[p].got = "none"
                              THEN [conn[p] EXCEPT !.got = "lost"] ELSE conn[p]]
  /\ pipe' = [c \in Clients |-> IF Child[c] = s /\ pipe[c] = "none" THEN "other" ELSE pipe[c]]

(* install_listener("tcp:5037"): exit(1) when the port is taken. *)
Bind(s) ==
  /\ pc[s] = "bind"
  /\ IF port = NoProc
     THEN /\ port' = s
          /\ Goto(s, "ack")
          /\ UNCHANGED <<conn, pipe>>
     ELSE Gone(s)
  /\ UNCHANGED <<cmd, ret, version, asked, ran, keyVars, deaths>>

Ack(s) ==
  /\ pc[s] = "ack"
  /\ pipe' = [pipe EXCEPT ![Parent(s)] = "OK"]
  /\ Goto(s, "loop")
  /\ UNCHANGED <<cmd, ret, conn, port, version, asked, ran, keyVars, deaths>>

(* handle_host_request() and the services: one request of one connection.  *)
(* A service may be refused, for instance for want of a device.            *)
Serve(s, p) ==
  /\ pc[s] = "loop" /\ conn[p].to = s /\ conn[p].got = "none"
  /\ \E g \in {"okay", "fail"} :
       /\ conn[p].req = "version" => g = IF version[s] = Unknown THEN "fail" ELSE "okay"
       /\ conn[p].req = "kill" => g = "okay"
       /\ conn' = [conn EXCEPT ![p].got = g]
       /\ IF conn[p].req = "service" /\ g = "okay"
          THEN ran' = [ran EXCEPT ![Owner(p)] = Append(@, s)]
          ELSE UNCHANGED ran
  /\ IF conn[p].req = "kill" THEN Goto(s, "exit") ELSE UNCHANGED pc
  /\ UNCHANGED <<cmd, ret, port, version, asked, pipe, keyVars, deaths>>

(* exit(0), after "OKAY" was written. *)
Exit(s) ==
  /\ pc[s] = "exit"
  /\ Gone(s)
  /\ UNCHANGED <<cmd, ret, version, asked, ran, keyVars, deaths>>

(* The server is stopped by a signal.  It stays in the session of the      *)
(* terminal: it is the parent that calls setsid().                         *)
Killed(s) ==
  /\ deaths < MaxDeaths
  /\ pc[s] \in Starting \cup {"loop", "exit"}
  /\ Gone(s)
  /\ deaths' = deaths + 1
  /\ spoiled' = (spoiled \/ pc[s] \in Generating)
  /\ UNCHANGED <<cmd, ret, version, asked, ran, priv, pub, key>>

-----------------------------------------------------------------------------
Init ==
  /\ cmd \in [Clients -> Commands]
  /\ \E running, keys \in BOOLEAN, v \in {Current, Older, Unknown} :
       /\ running => keys
       /\ version = [p \in Procs |-> IF p = First THEN v ELSE Current]
       /\ pc = [p \in Procs |->
                  IF p \in Clients THEN IF cmd[p] = "kill-server" THEN "kill-server" ELSE "version"
                  ELSE IF p = First /\ running THEN "loop" ELSE "none"]
       /\ port = IF running THEN First ELSE NoProc
       /\ priv = IF keys THEN First ELSE NoProc
       /\ pub = priv
       /\ key = [s \in Servers |-> IF s = First /\ running THEN First ELSE NoProc]
  /\ ret = [p \in Procs |-> "none"]
  /\ conn = [p \in Procs |-> Idle]
  /\ asked = [c \in Clients |-> NoProc]
  /\ pipe = [c \in Clients |-> "none"]
  /\ ran = [c \in Clients |-> << >>]
  /\ spoiled = FALSE
  /\ deaths = 0

ClientStep(c) ==
  \/ QueryVersion(c)
  \/ KillOld(c)
  \/ Launch(c)
  \/ WaitForAck(c)
  \/ KillServer(c)

AuthInit(s) ==
  \/ StatKey(s)
  \/ OpenKey(s)
  \/ WritePublicKeyfile(s)
  \/ CloseKey(s)
  \/ ReadKey(s)

AdbMain(s) ==
  \/ AuthInit(s)
  \/ Bind(s)
  \/ Ack(s)
  \/ \E p \in Procs : Serve(s, p)
  \/ Exit(s)

Next ==
  \/ \E c \in Clients : ClientStep(c)
  \/ \E p \in Clients \cup Kids : ConnectService(p)
  \/ \E s \in Servers : AdbMain(s) \/ Killed(s)

Spec ==
  /\ Init /\ [][Next]_vars
  /\ \A c \in Clients : WF_vars(ClientStep(c))
  /\ \A p \in Clients \cup Kids : WF_vars(ConnectService(p))
  /\ \A s \in Servers : WF_vars(AdbMain(s))

-----------------------------------------------------------------------------
(* A command is carried out at most once, although a failed execl() leaves *)
(* two processes that both go on as the client (adb.c:1220), and a command *)
(* that reports success was carried out by a server of the client's own    *)
(* version, whichever servers were replaced meanwhile (adb_client.c:265).  *)
ServedOnce ==
  \A c \in Clients :
    /\ Len(ran[c]) <= 1
    /\ cmd[c] = "service" /\ ret[c] = "ok" => Len(ran[c]) = 1
    /\ \A i \in DOMAIN ran[c] : version[ran[c][i]] = Current

(* host:kill of a client that replaces an old server (adb_client.c:267)    *)
(* stops a server of the current version only when the server it had asked *)
(* is already gone: another client replaced it first.                      *)
KillsOnlyOld ==
  [][\A c \in Clients :
       /\ cmd[c] # "kill-server" /\ conn[c].req = "kill"
       /\ conn[c].got = "none" /\ conn'[c].got = "okay"
       /\ version[conn[c].to] = Current
       => /\ asked[c] # conn[c].to
          /\ pc[asked[c]] = "gone"]_vars

(* A server that takes requests signs with the key whose public half it    *)
(* offers to devices (adb_auth_host.c:351, 415), unless two servers made a *)
(* key at the same time or one did not finish making it.                   *)
KeysMatch ==
  \A s \in Servers :
    pc[s] = "loop" /\ ~spoiled => key[s] # NoProc /\ key[s] = pub /\ key[s] = priv

(* Every client ends: no answer and no "OK" is waited for in vain, whatever *)
(* server is killed (launch_server, adb_connect).                          *)
ClientsEnd == <>(\A c \in Clients : pc[c] = "end")
=============================================================================
