-------------------------- MODULE AdbClientProofs --------------------------
(***************************************************************************)
(* The key files of a starting server, the replacement of an old server    *)
(* and the one service that a client asks for.                             *)
(***************************************************************************)
EXTENDS AdbClient, TLAPS

(***************************************************************************)
(* The key files.  Unless two servers made keys at once or one did not     *)
(* finish, one at most makes them, while no other has got further; then    *)
(* both files hold one key, and a server that has read it has that one.    *)
(***************************************************************************)
Past == {"read", "bind", "ack", "loop"}

KeyInv ==
  /\ \A s, o \in Servers : pc[s] \in Generating /\ pc[o] \in Generating => s = o
  /\ \A s, o \in Servers : pc[s] \in Generating => pc[o] \notin Past
  /\ \A s \in Servers : pc[s] \in Past \cup {"public", "close"} => priv # NoProc
  /\ \A s \in Servers : pc[s] = "close" => pub = s
  /\ priv # NoProc /\ (\A s \in Servers : pc[s] \notin Generating) =>
       priv \in Servers /\ pub = priv
  /\ \A s \in Servers : pc[s] \in {"bind", "ack", "loop"} => key[s] = priv

Keys == ~spoiled => KeyInv

(***************************************************************************)
(* The server that was there first, the only one of another version.  It   *)
(* is in charge of the port until it is gone; who has a connection to      *)
(* another server has it because the first is not there.                   *)
(***************************************************************************)
FirstInv ==
  /\ \A p \in Procs \ {First} : version[p] = Current
  /\ pc[First] \in {"none", "loop", "exit", "gone"}
  /\ pc[First] \in {"loop", "exit"} <=> port = First

ToFirst(p) ==
  /\ conn[p].to = First => pc[First] # "none"
  /\ conn[p].to \in Kids => pc[First] \in {"none", "gone"}
  /\ conn[p].to = First /\ conn[p].got = "lost" => pc[First] = "gone"
  /\ conn[p].to = First /\ conn[p].req = "kill" /\ conn[p].got # "none" =>
       pc[First] \in {"exit", "gone"}

(* A connection is open for the request of the step its process is at. *)
Requests(p) ==
  \/ conn[p] = Idle
  \/ /\ conn[p].to # NoProc
     /\ \/ pc[p] = "version" /\ conn[p].req = "version"
        \/ pc[p] \in {"kill", "kill-server"} /\ conn[p].req = "kill"
        \/ pc[p] = "service" /\ conn[p].req = "service"

(* A client that goes on has seen the end of a server of another version. *)
Replaced == version[First] = Current \/ pc[First] \in {"none", "exit", "gone"}

Asks(c) ==
  /\ asked[c] = First => pc[First] # "none"
  /\ pc[c] = "kill" => asked[c] = First /\ version[First] # Current
  /\ pc[c] \in {"launch", "wait", "service"} \/ pc[Child[c]] = "service" => Replaced
  /\ pc[c] = "kill-server" <=> cmd[c] = "kill-server" /\ pc[c] # "end"

ReplaceInv ==
  /\ FirstInv
  /\ \A p \in Procs : ToFirst(p) /\ Requests(p)
  /\ \A c \in Clients : Asks(c)

(***************************************************************************)
(* The service is asked for by the client or by its child, never by both.  *)
(***************************************************************************)
Asked(p, c) ==
  pc[p] = "service" => IF conn[p].got = "okay" THEN Len(ran[c]) = 1 ELSE ran[c] = << >>

OneAsks(c) ==
  /\ pc[c] \in {"version", "kill", "kill-server", "launch"} =>
       pc[Child[c]] = "none" /\ pipe[c] = "none" /\ ran[c] = << >>
  /\ pc[Child[c]] \in {"service", "end"} =>
       pc[c] \in {"wait", "end"} /\ pipe[c] = "other" /\ ret[c] # "ok"
  /\ pc[c] = "wait" /\ pc[Child[c]] \notin {"service", "end"} => ran[c] = << >>
  /\ Asked(c, c) /\ Asked(Child[c], c)
  /\ ret[c] = "ok" => pc[c] = "end" /\ (cmd[c] = "service" => Len(ran[c]) = 1)
  /\ Len(ran[c]) <= 1
  /\ \A i \in DOMAIN ran[c] : version[ran[c][i]] = Current

ServedInv == \A c \in Clients : OneAsks(c)
-----------------------------------------------------------------------------
(* The processes. *)

\* A client, its child and the first server are different processes.
LEMMA Family ==
    /\ Clients \subseteq Procs /\ Servers \subseteq Procs /\ Kids \subseteq Servers
    /\ First \in Servers /\ First \notin Kids /\ First \notin Clients /\ NoProc \notin Procs
    /\ \A c \in Clients : Child[c] \in Kids /\ c \notin Servers
    /\ \A k \in Kids : \E c \in Clients : Child[c] = k
    /\ \A c, d \in Clients : Child[c] = Child[d] => c = d
<1>1. \A k \in Kids : \E c \in Clients : Child[c] = k
  BY ProcAssumption DEF Kids, Range
<1>2. \A c, d \in Clients : Child[c] = Child[d] => c = d
  BY ProcAssumption DEF IsInjective
<1> QED  BY <1>1, <1>2, ProcAssumption DEF Procs, Servers

\* adb_connect() in a child that did not exec runs the client's command.
LEMMA Owners ==
    ASSUME NEW c \in Clients PROVE Owner(c) = c /\ Owner(Child[c]) = c
<1>1. Owner(c) = c
  BY DEF Owner
<1>2. Parent(Child[c]) = c
  BY Family DEF Parent
<1> QED  BY <1>1, <1>2, Family DEF Owner

\* A process that is not connected.
LEMMA IdleFields == Idle.got = "none" /\ Idle.to = NoProc /\ Idle.req = "none"
BY DEF Idle

\* One process takes a step.
LEMMA GotoKeeps ==
    ASSUME ProcType, NEW p \in Procs, NEW l \in Labels, Goto(p, l)
    PROVE  /\ pc' \in [Procs -> Labels] /\ pc'[p] = l
           /\ \A q \in Procs \ {p} : pc'[q] = pc[q]
BY DEF ProcType, Goto

\* adb_connect() returns.
LEMMA ReturnKeeps ==
    ASSUME ProcType, NEW p \in Procs, NEW r \in {"ok", "error"}, Return(p, r)
    PROVE  /\ pc' \in [Procs -> Labels] /\ pc'[p] = "end"
           /\ ret' \in [Procs -> {"none", "ok", "error"}] /\ ret'[p] = r
           /\ \A q \in Procs \ {p} : pc'[q] = pc[q] /\ ret'[q] = ret[q]
<1>1. "end" \in Labels
  BY DEF Labels
<1>2. /\ pc' \in [Procs -> Labels] /\ pc'[p] = "end"
      /\ \A q \in Procs \ {p} : pc'[q] = pc[q]
  BY <1>1, GotoKeeps DEF Return
<1> QED  BY <1>2, Zenon DEF Return, ProcType

\* A request is sent.
LEMMA AskKeeps ==
    ASSUME ProcType, NEW p \in Procs, NEW req \in {"version", "kill", "service"}, Ask(p, req)
    PROVE  /\ conn' \in [Procs -> Conns] /\ conn[p] = Idle /\ port \in Servers
           /\ conn'[p] = [to |-> port, req |-> req, got |-> "none"]
           /\ \A q \in Procs \ {p} : conn'[q] = conn[q]
<1>1. port \in Servers /\ conn[p] = Idle
  BY DEF Ask, ProcType
<1>2. [to |-> port, req |-> req, got |-> "none"] \in Conns
  BY <1>1 DEF Conns
<1> QED  BY <1>1, <1>2 DEF Ask, ProcType

\* The answer is read and the connection closed.
LEMMA AnsweredKeeps ==
    ASSUME ProcType, NEW p \in Procs, Answered(p)
    PROVE  /\ conn' \in [Procs -> Conns] /\ conn[p].got # "none" /\ conn'[p] = Idle
           /\ \A q \in Procs \ {p} : conn'[q] = conn[q]
<1>1. Idle \in Conns
  BY DEF Idle, Conns
<1> QED  BY <1>1 DEF Answered, ProcType

\* What adb_connect() does once a server is up.
LEMMA UpKeeps ==
    ASSUME ProcType, NEW p \in Procs, ServerIsUp(p)
    PROVE  /\ pc' \in [Procs -> Labels] /\ \A q \in Procs \ {p} : pc'[q] = pc[q]
           /\ ret' \in [Procs -> {"none", "ok", "error"}]
           /\ \A q \in Procs \ {p} : ret'[q] = ret[q]
           /\ \/ cmd[Owner(p)] = "start-server" /\ pc'[p] = "end" /\ ret'[p] = "ok"
              \/ cmd[Owner(p)] # "start-server" /\ pc'[p] = "service" /\ ret'[p] = ret[p]
<1>1. CASE cmd[Owner(p)] = "start-server"
  BY <1>1, ReturnKeeps DEF ServerIsUp
<1>2. CASE cmd[Owner(p)] # "start-server"
  <2>1. "service" \in Labels
    BY DEF Labels
  <2> QED  BY <1>2, <2>1, GotoKeeps DEF ServerIsUp, ProcType
<1> QED  BY <1>1, <1>2

\* A process ends: its clients and its parent see it.
LEMMA GoneKeeps ==
    ASSUME ProcType, NEW s \in Servers, Gone(s)
    PROVE  /\ pc' \in [Procs -> Labels] /\ pc'[s] = "gone"
           /\ \A q \in Procs \ {s} : pc'[q] = pc[q]
           /\ port' \in Servers \cup {NoProc} /\ port' = IF port = s THEN NoProc ELSE port
           /\ conn' \in [Procs -> Conns]
           /\ \A p \in Procs : /\ conn'[p].to = conn[p].to /\ conn'[p].req = conn[p].req
                               /\ \/ conn'[p] = conn[p] /\ ~(conn[p].to = s /\ conn[p].got = "none")
                                  \/ conn'[p].got = "lost" /\ conn[p].to = s /\ conn[p].got = "none"
           /\ pipe' \in [Clients -> {"none", "OK", "other"}]
           /\ \A c \in Clients : \/ pipe'[c] = pipe[c]
                                 \/ pipe'[c] = "other" /\ Child[c] = s /\ pipe[c] = "none"
<1>1. "gone" \in Labels /\ s \in Procs
  BY Family DEF Labels
<1>2. /\ pc' \in [Procs -> Labels] /\ pc'[s] = "gone"
      /\ \A q \in Procs \ {s} : pc'[q] = pc[q]
  BY <1>1, GotoKeeps DEF Gone
<1>3. port' \in Servers \cup {NoProc} /\ port' = IF port = s THEN NoProc ELSE port
  BY DEF Gone, ProcType
<1>4. ASSUME NEW p \in Procs
      PROVE  /\ conn'[p] \in Conns
             /\ conn'[p].to = conn[p].to /\ conn'[p].req = conn[p].req
             /\ \/ conn'[p] = conn[p] /\ ~(conn[p].to = s /\ conn[p].got = "none")
                \/ conn'[p].got = "lost" /\ conn[p].to = s /\ conn[p].got = "none"
  <2>1. conn[p] \in Conns
    BY DEF ProcType
  <2>2. conn'[p] = IF conn[p].to = s /\ conn[p].got = "none"
                   THEN [conn[p] EXCEPT !.got = "lost"] ELSE conn[p]
    BY DEF Gone
  <2> QED  BY <2>1, <2>2 DEF Conns
<1>5. conn' \in [Procs -> Conns]
  BY <1>4 DEF Gone
<1>6. /\ pipe' \in [Clients -> {"none", "OK", "other"}]
      /\ \A c \in Clients : \/ pipe'[c] = pipe[c]
                            \/ pipe'[c] = "other" /\ Child[c] = s /\ pipe[c] = "none"
  BY DEF Gone, ProcType
<1> QED  BY <1>2, <1>3, <1>4, <1>5, <1>6, Zenon
-----------------------------------------------------------------------------
(* The types. *)

\* The client's steps keep the types of the state.
LEMMA ClientTypes ==
    ASSUME TypeOK, NEW c \in Clients, ClientStep(c) PROVE TypeOK'
<1> USE DEF TypeOK, keyVars
<1>0. c \in Procs /\ Child[c] \in Procs
  BY Family
<1>1. CASE QueryVersion(c)
  <2>1. CASE Ask(c, "version")
    BY <1>0, <2>1, AskKeeps, Zenon DEF Ask, ProcType, FileType
  <2>2. CASE ~Ask(c, "version") /\ conn[c].got = "none"
    <3>1. /\ Goto(c, "launch")
          /\ UNCHANGED <<cmd, ret, conn, port, version, asked, pipe, ran, keyVars, deaths>>
      BY <1>1, <2>2, Zenon DEF QueryVersion, Refused, Answered
    <3>2. "launch" \in Labels
      BY DEF Labels
    <3>3. pc' \in [Procs -> Labels]
      BY <1>0, <3>1, <3>2, GotoKeeps
    <3> QED  BY <3>1, <3>3 DEF ProcType, FileType
  <2>3. CASE ~Ask(c, "version") /\ Answered(c) /\ ~Refused(c)
    <3>1. conn' \in [Procs -> Conns] /\ conn[c] \in Conns
      BY <1>0, <2>3, AnsweredKeeps DEF ProcType
    <3>2. pc' \in [Procs -> Labels] /\ ret' \in [Procs -> {"none", "ok", "error"}]
      <4>1. "kill" \in Labels
        BY DEF Labels
      <4> QED  BY <1>0, <1>1, <2>3, <4>1, ReturnKeeps, UpKeeps, GotoKeeps, Zenon
                  DEF QueryVersion, ProcType
    <3>3. /\ asked' = [asked EXCEPT ![c] = conn[c].to]
          /\ UNCHANGED <<cmd, port, version, pipe, ran, priv, pub, key, spoiled, deaths>>
      BY <1>1, <2>3 DEF QueryVersion
    <3>4. asked' \in [Clients -> Servers \cup {NoProc}]
      BY <3>1, <3>3 DEF FileType, Conns
    <3> QED  BY <3>1, <3>2, <3>3, <3>4, Zenon DEF ProcType, FileType
  <2> QED  BY <1>1, <2>1, <2>2, <2>3 DEF QueryVersion, Answered, Refused, Idle
<1>2. CASE KillOld(c)
  <2>1. CASE Ask(c, "kill")
    BY <1>0, <2>1, AskKeeps, Zenon DEF Ask, ProcType, FileType
  <2>2. CASE (Refused(c) \/ Answered(c)) /\ ~Ask(c, "kill")
    <3>1. pc' \in [Procs -> Labels]
      <4>1. "launch" \in Labels
        BY DEF Labels
      <4> QED  BY <1>0, <1>2, <2>2, <4>1, GotoKeeps DEF KillOld
    <3>2. conn' \in [Procs -> Conns]
      BY <1>0, <2>2, AnsweredKeeps DEF Refused, ProcType
    <3> QED  BY <1>2, <2>2, <3>1, <3>2, Zenon DEF KillOld, ProcType, FileType
  <2> QED  BY <1>2, <2>1, <2>2 DEF KillOld
<1>3. CASE Launch(c)
  <2>1. {"wait", "stat", "service", "end"} \subseteq Labels
    BY DEF Labels, Starting
  <2>2. pc' \in [Procs -> Labels] /\ ret' \in [Procs -> {"none", "ok", "error"}]
    BY <1>0, <1>3, <2>1, ReturnKeeps DEF Launch, ProcType
  <2>3. pipe' \in [Clients -> {"none", "OK", "other"}]
    BY <1>3 DEF Launch, ProcType
  <2> QED  BY <1>3, <2>2, <2>3, Zenon DEF Launch, ProcType, FileType
<1>4. CASE WaitForAck(c)
  <2>1. pc' \in [Procs -> Labels] /\ ret' \in [Procs -> {"none", "ok", "error"}]
    BY <1>0, <1>4, ReturnKeeps, UpKeeps, Zenon DEF WaitForAck
  <2> QED  BY <1>4, <2>1 DEF WaitForAck, ProcType, FileType
<1>5. CASE KillServer(c)
  <2>1. CASE Ask(c, "kill")
    BY <1>0, <2>1, AskKeeps, Zenon DEF Ask, ProcType, FileType
  <2>2. CASE ~Ask(c, "kill")
    <3>1. pc' \in [Procs -> Labels] /\ ret' \in [Procs -> {"none", "ok", "error"}]
      BY <1>0, <1>5, <2>2, ReturnKeeps, Zenon DEF KillServer
    <3>2. conn' \in [Procs -> Conns]
      BY <1>0, <1>5, <2>2, AnsweredKeeps DEF KillServer, Refused, ProcType
    <3> QED  BY <1>5, <2>2, <3>1, <3>2 DEF KillServer, ProcType, FileType
  <2> QED  BY <2>1, <2>2
<1> QED  BY <1>1, <1>2, <1>3, <1>4, <1>5 DEF ClientStep

\* So does the request for the service.
LEMMA ServiceTypes ==
    ASSUME TypeOK, NEW p \in Procs, ConnectService(p) PROVE TypeOK'
<1> USE DEF TypeOK, keyVars
<1>1. CASE Ask(p, "service")
  BY <1>1, AskKeeps, Zenon DEF Ask, ProcType, FileType
<1>2. CASE ~Ask(p, "service")
  <2>1. pc' \in [Procs -> Labels] /\ ret' \in [Procs -> {"none", "ok", "error"}]
    BY <1>2, ReturnKeeps DEF ConnectService
  <2>2. conn' \in [Procs -> Conns]
    BY <1>2, AnsweredKeeps DEF ConnectService, Refused, ProcType
  <2> QED  BY <1>2, <2>1, <2>2 DEF ConnectService, ProcType, FileType
<1> QED  BY <1>1, <1>2

\* So does adb_auth_init().
LEMMA AuthTypes ==
    ASSUME TypeOK, NEW s \in Servers, AuthInit(s) PROVE TypeOK'
<1> USE DEF TypeOK
<1>1. s \in Procs /\ {"open", "read", "public", "close", "bind"} \subseteq Labels
  BY Family DEF Labels, Starting, Generating
<1>2. PICK l \in {"open", "read", "public", "close", "bind"} : Goto(s, l)
  BY Zenon DEF AuthInit, StatKey, OpenKey, WritePublicKeyfile, CloseKey, ReadKey
<1>3. pc' \in [Procs -> Labels]
  BY <1>1, <1>2, GotoKeeps
<1>4. UNCHANGED <<cmd, ret, conn, port, version, asked, pipe, ran, deaths>>
  BY DEF AuthInit, StatKey, OpenKey, WritePublicKeyfile, CloseKey, ReadKey
<1>5. ProcType'
  BY <1>3, <1>4 DEF ProcType
<1>6. /\ priv' \in {priv, "empty", s} /\ pub' \in {pub, s}
      /\ key' = key \/ key' = [key EXCEPT ![s] = IF priv = "empty" THEN NoProc ELSE priv]
      /\ spoiled' \in BOOLEAN
  BY Zenon DEF AuthInit, StatKey, OpenKey, WritePublicKeyfile, CloseKey, ReadKey, FileType
<1>7. key' \in [Servers -> Servers \cup {NoProc}]
  BY <1>6 DEF FileType
<1> QED  BY <1>4, <1>5, <1>6, <1>7 DEF FileType

\* So does the server.
LEMMA ServerTypes ==
    ASSUME TypeOK, NEW s \in Servers, AdbMain(s) \/ Killed(s) PROVE TypeOK'
<1> USE DEF TypeOK, keyVars
<1>0. s \in Procs /\ {"ack", "loop", "exit"} \subseteq Labels
  BY Family DEF Labels, Starting
<1>1. CASE AuthInit(s)
  BY <1>1, AuthTypes
<1>2. CASE Bind(s)
  <2>1. CASE port = NoProc
    BY <1>0, <1>2, <2>1, GotoKeeps DEF Bind, ProcType, FileType
  <2>2. CASE port # NoProc
    BY <1>2, <2>2, GoneKeeps, Zenon DEF Bind, ProcType, FileType
  <2> QED  BY <2>1, <2>2
<1>3. CASE Ack(s)
  BY <1>0, <1>3, GotoKeeps, Zenon DEF Ack, ProcType, FileType
<1>4. ASSUME NEW p \in Procs, Serve(s, p) PROVE TypeOK'
  <2>1. pc' \in [Procs -> Labels]
    BY <1>0, <1>4, GotoKeeps DEF Serve, ProcType
  <2>2. PICK g \in {"okay", "fail"} : conn' = [conn EXCEPT ![p].got = g]
    BY <1>4, Zenon DEF Serve
  <2>3. [conn[p] EXCEPT !.got = g] \in Conns
    BY DEF ProcType, Conns
  <2>4. conn' \in [Procs -> Conns]
    BY <2>2, <2>3 DEF ProcType
  <2>5. ran' \in [Clients -> Seq(Servers)]
    <3>1. ran' = ran \/ ran' = [ran EXCEPT ![Owner(p)] = Append(@, s)]
      BY <1>4 DEF Serve
    <3>2. \A c \in Clients : Append(ran[c], s) \in Seq(Servers)
      BY DEF FileType
    <3>3. CASE Owner(p) \in Clients
      BY <3>1, <3>2, <3>3, Zenon DEF FileType
    <3>4. CASE Owner(p) \notin Clients
      BY <3>1, <3>4 DEF FileType
    <3> QED  BY <3>3, <3>4
  <2> QED  BY <1>4, <2>1, <2>4, <2>5, Zenon DEF Serve, ProcType, FileType
<1>5. CASE Exit(s)
  BY <1>5, GoneKeeps, Zenon DEF Exit, ProcType, FileType
<1>6. CASE Killed(s)
  <2>1. deaths' \in 0 .. MaxDeaths /\ spoiled' \in BOOLEAN
    BY <1>6, ProcAssumption DEF Killed, FileType
  <2> QED  BY <1>6, <2>1, GoneKeeps, Zenon DEF Killed, ProcType, FileType
<1> QED  BY <1>1, <1>2, <1>3, <1>4, <1>5, <1>6 DEF AdbMain

\* The first states have the types.
LEMMA TypeInit == Init => TypeOK
<1> SUFFICES ASSUME Init PROVE TypeOK
  OBVIOUS
<1>1. ProcType
  BY Family DEF Init, ProcType, Labels, Conns, Idle
<1>2. PICK running, keys \in BOOLEAN, v \in {Current, Older, Unknown} :
        /\ version = [p \in Procs |-> IF p = First THEN v ELSE Current]
        /\ priv = IF keys THEN First ELSE NoProc
        /\ pub = priv
        /\ key = [s \in Servers |-> IF s = First /\ running THEN First ELSE NoProc]
  BY DEF Init
<1>3. FileType
  <2>1. /\ priv \in Servers \cup {NoProc, "empty"} /\ pub \in Servers \cup {NoProc, "empty"}
        /\ key \in [Servers -> Servers \cup {NoProc}]
        /\ version \in [Procs -> {Current, Older, Unknown}]
    BY <1>2, Family
  <2>2. /\ cmd \in [Clients -> Commands] /\ asked \in [Clients -> Servers \cup {NoProc}]
        /\ spoiled \in BOOLEAN /\ deaths = 0
    BY Zenon DEF Init
  <2>4. deaths \in 0 .. MaxDeaths
    BY <2>2, ProcAssumption
  <2>3. ran \in [Clients -> Seq(Servers)]
    <3>1. << >> \in Seq(Servers)
      OBVIOUS
    <3> QED  BY <3>1 DEF Init
  <2> QED  BY <2>1, <2>2, <2>3, <2>4 DEF FileType
<1> QED  BY <1>1, <1>3 DEF TypeOK

\* Every step keeps them.
LEMMA TypeStep == TypeOK /\ [Next]_vars => TypeOK'
<1> SUFFICES ASSUME TypeOK, [Next]_vars PROVE TypeOK'
  OBVIOUS
<1>1. CASE UNCHANGED vars
  BY <1>1 DEF vars, TypeOK, ProcType, FileType
<1> QED  BY <1>1, Family, ClientTypes, ServiceTypes, ServerTypes DEF Next
-----------------------------------------------------------------------------
(* The key files. *)

\* A server goes on, or ends, outside generate_key().
GoesOn(s) ==
  \/ pc'[s] = pc[s]
  \/ pc[s] \notin Generating /\ pc'[s] \notin Generating \cup Past
  \/ pc[s] \in {"bind", "ack", "loop"} /\ pc'[s] \in {"ack", "loop"}

\* Such steps leave the keys as they are.
LEMMA KeysFrame ==
    ASSUME Keys, UNCHANGED <<priv, pub, key>>,
           ~spoiled' => ~spoiled /\ \A s \in Servers : GoesOn(s)
    PROVE  Keys'
<1> SUFFICES ASSUME ~spoiled' PROVE KeyInv'
  BY DEF Keys
<1>1. \A s \in Servers :
        /\ pc'[s] \in Generating <=> pc[s] \in Generating
        /\ pc'[s] \in Past => pc[s] \in Past
        /\ pc'[s] = "close" => pc[s] = "close"
        /\ pc'[s] \in {"public", "close"} => pc[s] \in {"public", "close"}
        /\ pc'[s] \in {"bind", "ack", "loop"} => pc[s] \in {"bind", "ack", "loop"}
  BY DEF GoesOn, Generating, Past
<1>2. KeyInv
  BY DEF Keys
<1> QED  BY <1>1, <1>2 DEF KeyInv

\* get_user_key() and generate_key(), as long as one server at a time is there.
LEMMA AuthKeys ==
    ASSUME TypeOK, Keys, NEW s \in Servers, AuthInit(s) PROVE Keys'
<1> SUFFICES ASSUME ~spoiled' PROVE KeyInv'
  BY DEF Keys
<1>0. /\ s \in Procs /\ {"open", "read", "public", "close", "bind"} \subseteq Labels
      /\ \A o \in Servers : o \in Procs /\ o # NoProc /\ o # "empty"
      /\ "empty" # NoProc
  BY Family, ProcAssumption DEF Labels, Starting, Generating
<1>1. ASSUME NEW l \in {"open", "read", "public", "close", "bind"}, Goto(s, l)
      PROVE  pc'[s] = l /\ \A o \in Servers \ {s} : pc'[o] = pc[o]
  BY <1>0, <1>1, GotoKeeps DEF TypeOK
<1>2. ~spoiled /\ KeyInv
  <2>1. CASE StatKey(s)
    BY <2>1, Zenon DEF StatKey, Keys
  <2>2. CASE OpenKey(s) \/ WritePublicKeyfile(s) \/ CloseKey(s) \/ ReadKey(s)
    <3>1. spoiled' = spoiled \/ spoiled' = TRUE
      BY <2>2, Zenon DEF OpenKey, WritePublicKeyfile, CloseKey, ReadKey
    <3> QED  BY <3>1 DEF Keys
  <2> QED  BY <2>1, <2>2 DEF AuthInit
<1>3. CASE StatKey(s)
  <2>1. /\ UNCHANGED <<priv, pub, key>> /\ \A o \in Servers : pc[o] \notin Generating
        /\ pc[s] = "stat"
    BY <1>3, Zenon DEF StatKey
  <2>2. CASE priv = NoProc
    <3>1. pc'[s] = "open" /\ \A o \in Servers \ {s} : pc'[o] = pc[o]
      BY <1>1, <1>3, <2>2 DEF StatKey
    <3> QED  BY <1>2, <2>1, <2>2, <3>1 DEF KeyInv, Past, Generating
  <2>3. CASE priv # NoProc
    <3>1. pc'[s] = "read" /\ \A o \in Servers \ {s} : pc'[o] = pc[o]
      BY <1>1, <1>3, <2>3 DEF StatKey
    <3> QED  BY <1>2, <2>1, <2>3, <3>1 DEF KeyInv, Past, Generating
  <2> QED  BY <2>2, <2>3
<1>4. CASE OpenKey(s)
  <2>1. priv' = "empty" /\ UNCHANGED <<pub, key>> /\ pc[s] = "open" /\ Goto(s, "public")
    BY <1>4 DEF OpenKey
  <2>2. pc'[s] = "public" /\ \A o \in Servers \ {s} : pc'[o] = pc[o]
    BY <1>1, <2>1
  <2> QED  BY <1>0, <1>2, <2>1, <2>2 DEF KeyInv, Past, Generating
<1>5. CASE WritePublicKeyfile(s)
  <2>1. pub' = s /\ UNCHANGED <<priv, key>> /\ pc[s] = "public" /\ Goto(s, "close")
    BY <1>5 DEF WritePublicKeyfile
  <2>2. pc'[s] = "close" /\ \A o \in Servers \ {s} : pc'[o] = pc[o]
    BY <1>1, <2>1
  <2> QED  BY <1>0, <1>2, <2>1, <2>2 DEF KeyInv, Past, Generating
<1>6. CASE CloseKey(s)
  <2>1. priv' = s /\ UNCHANGED <<pub, key>> /\ pc[s] = "close" /\ Goto(s, "read")
    BY <1>6 DEF CloseKey
  <2>2. pc'[s] = "read" /\ \A o \in Servers \ {s} : pc'[o] = pc[o]
    BY <1>1, <2>1
  <2> QED  BY <1>0, <1>2, <2>1, <2>2 DEF KeyInv, Past, Generating
<1>7. CASE ReadKey(s)
  <2>1. UNCHANGED <<priv, pub>> /\ pc[s] = "read" /\ Goto(s, "bind")
    BY <1>7 DEF ReadKey
  <2>2. pc'[s] = "bind" /\ \A o \in Servers \ {s} : pc'[o] = pc[o]
    BY <1>1, <2>1
  <2>3. \A o \in Servers : pc[o] \notin Generating
    BY <1>2, <2>1 DEF KeyInv, Past
  <2>4. priv \in Servers /\ pub = priv
    BY <1>2, <2>1, <2>3 DEF KeyInv, Past
  <2>5. key'[s] = priv /\ \A o \in Servers \ {s} : key'[o] = key[o]
    BY <1>0, <1>7, <2>4 DEF ReadKey, TypeOK, FileType
  <2> QED  BY <1>0, <1>2, <2>1, <2>2, <2>3, <2>4, <2>5 DEF KeyInv, Past, Generating
<1> QED  BY <1>3, <1>4, <1>5, <1>6, <1>7 DEF AuthInit

\* No other step makes or loses a key.
LEMMA KeysStep == TypeOK /\ ServedInv /\ Keys /\ [Next]_vars => Keys'
<1> SUFFICES ASSUME TypeOK, ServedInv, Keys, [Next]_vars PROVE Keys'
  OBVIOUS
<1> USE DEF keyVars
<1>0. /\ ProcType
      /\ Generating \cup Past \subseteq
           Labels \ {"none", "stat", "service", "end", "gone", "exit"}
  BY DEF TypeOK, Generating, Past, Labels, Starting
<1>1. CASE UNCHANGED vars
  BY <1>1, KeysFrame DEF vars, GoesOn
<1>2. ASSUME NEW c \in Clients, ClientStep(c) PROVE Keys'
  <2>1. UNCHANGED <<priv, pub, key, spoiled>>
    BY <1>2, Zenon DEF ClientStep, QueryVersion, KillOld, Launch, WaitForAck, KillServer, Ask
  <2>2. CASE Launch(c)
    <3>1. pc[Child[c]] = "none"
      BY <2>2, Zenon DEF Launch, ServedInv, OneAsks
    <3>2. /\ \A s \in Servers \ {Child[c]} : pc'[s] = pc[s]
          /\ pc'[Child[c]] \in {"none", "stat", "end", "service"}
      BY <2>2, <3>1, Family DEF Launch, Return, Goto, TypeOK, ProcType
    <3>3. \A s \in Servers : GoesOn(s)
      BY <3>1, <3>2 DEF GoesOn, Generating, Past
    <3> QED  BY <2>1, <3>3, KeysFrame
  <2>3. CASE ~Launch(c)
    <3>1. \A s \in Servers : pc'[s] = pc[s]
      <4>1. pc' = pc \/ \E l : Goto(c, l)
        BY <1>2, <2>3, Owners, Zenon
           DEF ClientStep, QueryVersion, KillOld, WaitForAck, KillServer, Ask,
           Return, ServerIsUp
      <4> QED  BY <4>1, Family DEF Goto, TypeOK, ProcType
    <3> QED  BY <2>1, <3>1, KeysFrame DEF GoesOn
  <2> QED  BY <2>2, <2>3
<1>3. ASSUME NEW p \in Procs, ConnectService(p) PROVE Keys'
  <2>1. UNCHANGED <<priv, pub, key, spoiled>> /\ pc[p] = "service"
    BY <1>3, Zenon DEF ConnectService, Ask
  <2>2. pc' = pc \/ Goto(p, "end")
    BY <1>3 DEF ConnectService, Ask, Return
  <2>3. \A s \in Servers : GoesOn(s)
    BY <2>1, <2>2, Family DEF Goto, TypeOK, ProcType, GoesOn, Generating, Past
  <2> QED  BY <2>1, <2>3, KeysFrame
<1>4. ASSUME NEW s \in Servers, Bind(s) \/ Ack(s) \/ Exit(s) \/ \E p \in Procs : Serve(s, p)
      PROVE  Keys'
  <2>1. UNCHANGED <<priv, pub, key, spoiled>>
    BY <1>4 DEF Bind, Ack, Exit, Serve
  <2>2. \/ pc' = pc
        \/ pc[s] \in {"bind", "ack"} /\ (Goto(s, "ack") \/ Goto(s, "loop"))
        \/ pc[s] \in {"bind", "loop", "exit"} /\ (Goto(s, "exit") \/ Goto(s, "gone"))
    BY <1>4, Zenon DEF Bind, Ack, Exit, Serve, Gone
  <2>3. \A o \in Servers : GoesOn(o)
    BY <2>2, Family DEF Goto, TypeOK, ProcType, GoesOn, Generating, Past
  <2> QED  BY <2>1, <2>3, KeysFrame
<1>5. ASSUME NEW s \in Servers, Killed(s) PROVE Keys'
  <2>1. /\ UNCHANGED <<priv, pub, key>> /\ Goto(s, "gone")
        /\ ~spoiled' => ~spoiled /\ pc[s] \notin Generating
    BY <1>5, Zenon DEF Killed, Gone
  <2>2. ~spoiled' => \A o \in Servers : GoesOn(o)
    BY <2>1, Family DEF Goto, TypeOK, ProcType, GoesOn, Generating, Past
  <2> QED  BY <2>1, <2>2, KeysFrame
<1> QED  BY <1>1, <1>2, <1>3, <1>4, <1>5, Family, AuthKeys DEF Next, AdbMain
-----------------------------------------------------------------------------
(* The replacement of an old server. *)

\* A step of a client or of its child shows nowhere else.
LEMMA ClientFrame ==
    ASSUME ReplaceInv, NEW c \in Clients, UNCHANGED <<version, cmd, port>>,
           \A q \in Procs \ {c, Child[c]} : pc'[q] = pc[q] /\ conn'[q] = conn[q],
           \A d \in Clients \ {c} : asked'[d] = asked[d],
           Asks(c)', \A q \in {c, Child[c]} : ToFirst(q)' /\ Requests(q)'
    PROVE  ReplaceInv'
<1>1. /\ pc'[First] = pc[First] /\ First \in Procs
      /\ \A d \in Clients \ {c} : d \notin {c, Child[c]} /\ Child[d] \notin {c, Child[c]}
      /\ \A d \in Clients : d \in Procs /\ Child[d] \in Procs
  BY Family
<1>2. FirstInv'
  BY <1>1 DEF ReplaceInv, FirstInv
<1>3. ASSUME NEW q \in Procs \ {c, Child[c]} PROVE ToFirst(q)' /\ Requests(q)'
  <2>1. conn'[q] = conn[q] /\ pc'[q] = pc[q] /\ ToFirst(q) /\ Requests(q)
    BY DEF ReplaceInv
  <2> QED  BY <1>1, <2>1, Zenon DEF ToFirst, Requests
<1>4. ASSUME NEW d \in Clients \ {c} PROVE Asks(d)'
  <2>1. pc'[d] = pc[d] /\ pc'[Child[d]] = pc[Child[d]] /\ asked'[d] = asked[d] /\ Asks(d)
    BY <1>1 DEF ReplaceInv
  <2> QED  BY <1>1, <2>1, Zenon DEF Asks, Replaced
<1> QED  BY <1>2, <1>3, <1>4 DEF ReplaceInv

\* What a request to whoever owns the port means for the first server.
LEMMA AskFirst ==
    ASSUME TypeOK, ReplaceInv, NEW p \in Procs, NEW req \in {"version", "kill", "service"},
           Ask(p, req)
    PROVE  ToFirst(p)' /\ conn'[p].req = req /\ conn'[p].to # NoProc
<1>1. /\ port \in Servers /\ conn'[p] = [to |-> port, req |-> req, got |-> "none"]
      /\ pc' = pc
  BY AskKeeps, Zenon DEF TypeOK, Ask
<1>2. port # First => pc[First] \in {"none", "gone"}
  BY DEF ReplaceInv, FirstInv
<1>3. port = First => pc[First] # "none"
  BY DEF ReplaceInv, FirstInv
<1> QED  BY <1>1, <1>2, <1>3, Family DEF ToFirst

\* Once the answer is read, or where nothing answers, nothing is asked.
LEMMA IdleFirst ==
    ASSUME NEW p, conn'[p] = Idle PROVE ToFirst(p)' /\ Requests(p)'
BY Family DEF Idle, ToFirst, Requests, Servers, Procs

\* A request that was answered, or could not be made, tells whether the first
\* server is still in charge.
LEMMA AnswerFirst ==
    ASSUME TypeOK, ReplaceInv, NEW c \in Clients
    PROVE  /\ Refused(c) => Replaced
           /\ pc[c] = "kill" /\ Answered(c) => Replaced
           /\ pc[c] = "version" /\ Answered(c) /\ conn[c].got # "lost" =>
                \/ version[conn[c].to] = Current /\ Replaced
                \/ version[conn[c].to] # Current /\ conn[c].to = First
<1>0. c \in Procs /\ First \in Procs /\ conn[c].to \in Servers \cup {NoProc}
  BY Family DEF TypeOK, ProcType, Conns
<1>1. Refused(c) => Replaced
  BY <1>0, Family DEF Refused, Replaced, ReplaceInv, FirstInv
<1>2. ASSUME Answered(c) PROVE conn[c].to \in Kids \/ conn[c].to = First
  BY <1>0, <1>2 DEF Answered, Idle, ReplaceInv, Requests, Servers
<1>3. ASSUME pc[c] = "kill", Answered(c) PROVE Replaced
  BY <1>0, <1>2, <1>3 DEF Answered, Idle, ReplaceInv, Requests, ToFirst, Replaced
<1>4. ASSUME pc[c] = "version", Answered(c)
      PROVE  \/ version[conn[c].to] = Current /\ Replaced
             \/ version[conn[c].to] # Current /\ conn[c].to = First
  BY <1>0, <1>2, <1>4, Family DEF ReplaceInv, FirstInv, ToFirst, Replaced
<1> QED  BY <1>1, <1>3, <1>4

\* A client goes on to launch a server, or to its service, only after the end
\* of a server of another version.
LEMMA ClientReplaces ==
    ASSUME TypeOK, ReplaceInv, ServedInv, NEW c \in Clients, ClientStep(c) PROVE ReplaceInv'
<1> USE DEF keyVars
<1> DEFINE k == Child[c]
<1>0. /\ c \in Procs /\ k \in Procs /\ c # k /\ c # First /\ k # First /\ ProcType
      /\ First \in Procs /\ Asks(c) /\ ToFirst(k) /\ Requests(k) /\ ToFirst(c) /\ Requests(c)
  BY Family DEF TypeOK, ReplaceInv
<1>1. ASSUME NEW req \in {"version", "kill"}, Ask(c, req),
             \/ req = "version" /\ pc[c] = "version"
             \/ req = "kill" /\ pc[c] \in {"kill", "kill-server"}
      PROVE  ReplaceInv'
  <2>1. /\ UNCHANGED <<cmd, pc, port, version, asked>>
        /\ \A q \in Procs \ {c} : conn'[q] = conn[q]
    BY <1>0, <1>1, AskKeeps, Zenon DEF Ask
  <2>2. ToFirst(c)' /\ conn'[c].req = req /\ conn'[c].to # NoProc
    BY <1>0, <1>1, AskFirst
  <2>3. Requests(c)' /\ Asks(c)'
    BY <1>0, <1>1, <2>1, <2>2, Zenon DEF Requests, Asks, Replaced
  <2>4. ToFirst(k)' /\ Requests(k)'
    BY <1>0, <2>1, Zenon DEF ToFirst, Requests
  <2> QED  BY <2>1, <2>2, <2>3, <2>4, ClientFrame
\* The client goes on with no connection.
<1>2. ASSUME UNCHANGED <<version, cmd, port>>, pc'[k] = pc[k], conn'[k] = conn[k], conn'[c] = Idle,
             \A q \in Procs \ {c, k} : pc'[q] = pc[q] /\ conn'[q] = conn[q],
             \A d \in Clients \ {c} : asked'[d] = asked[d],
             Asks(c)'
      PROVE  ReplaceInv'
  <2>1. ToFirst(c)' /\ Requests(c)'
    BY <1>2, IdleFirst
  <2>2. ToFirst(k)' /\ Requests(k)'
    BY <1>0, <1>2, Zenon DEF ToFirst, Requests
  <2> QED  BY <1>2, <2>1, <2>2, ClientFrame, Zenon
<1>3. CASE QueryVersion(c)
  <2>1. CASE Ask(c, "version")
    BY <1>1, <1>3, <2>1, Zenon DEF QueryVersion
  <2>2. CASE ~Ask(c, "version") /\ conn[c].got = "none"
    <3>1. /\ Goto(c, "launch") /\ Refused(c) /\ pc[c] = "version"
          /\ UNCHANGED <<cmd, conn, port, version, asked>>
      BY <1>3, <2>2 DEF QueryVersion, Refused, Answered
    <3>2. pc'[c] = "launch" /\ \A q \in Procs \ {c} : pc'[q] = pc[q]
      BY <1>0, <3>1, GotoKeeps DEF Labels
    <3>3. Asks(c)'
      BY <1>0, <3>1, <3>2, AnswerFirst, Zenon DEF Asks, Replaced
    <3> QED  BY <1>0, <1>2, <3>1, <3>2, <3>3 DEF Refused
  <2>3. CASE ~Ask(c, "version") /\ Answered(c) /\ ~Refused(c)
    <3>1. /\ asked' = [asked EXCEPT ![c] = conn[c].to] /\ UNCHANGED <<cmd, port, version>>
          /\ pc[c] = "version"
      BY <1>3, <2>3 DEF QueryVersion
    <3>2. asked'[c] = conn[c].to /\ \A d \in Clients \ {c} : asked'[d] = asked[d]
      BY <3>1 DEF TypeOK, FileType
    <3>3. conn'[c] = Idle /\ \A q \in Procs \ {c} : conn'[q] = conn[q]
      BY <1>0, <2>3, AnsweredKeeps
    <3>4. /\ \A q \in Procs \ {c} : pc'[q] = pc[q]
          /\ \/ pc'[c] = "end"
             \/ pc'[c] = "service" /\ version[conn[c].to] = Current /\ conn[c].got # "lost"
             \/ pc'[c] = "kill" /\ version[conn[c].to] # Current /\ conn[c].got # "lost"
      <4>1. "kill" \in Labels
        BY DEF Labels
      <4> QED  BY <1>0, <1>3, <2>3, <4>1, ReturnKeeps, UpKeeps, GotoKeeps, Zenon
                  DEF QueryVersion, UpToDate
    <3>5. Asks(c)'
      BY <1>0, <2>3, <3>1, <3>2, <3>4, AnswerFirst, Zenon DEF Asks, Replaced, ToFirst
    <3> QED  BY <1>0, <1>2, <3>1, <3>2, <3>3, <3>4, <3>5
  <2> QED  BY <1>3, <2>1, <2>2, <2>3 DEF QueryVersion, Answered, Refused, Idle
<1>4. CASE KillOld(c)
  <2>1. CASE Ask(c, "kill")
    BY <1>1, <1>4, <2>1 DEF KillOld
  <2>2. CASE ~Ask(c, "kill")
    <3>1. /\ Goto(c, "launch") /\ (Refused(c) \/ Answered(c))
          /\ pc[c] = "kill" /\ UNCHANGED <<cmd, port, version, asked>>
      BY <1>4, <2>2 DEF KillOld
    <3>2. pc'[c] = "launch" /\ \A q \in Procs \ {c} : pc'[q] = pc[q]
      BY <1>0, <3>1, GotoKeeps, Zenon DEF Labels
    <3>3. conn'[c] = Idle /\ \A q \in Procs \ {c} : conn'[q] = conn[q]
      BY <1>0, <3>1, AnsweredKeeps, Zenon DEF Refused
    <3>4. Asks(c)'
      BY <1>0, <3>1, <3>2, AnswerFirst, Zenon DEF Asks, Replaced
    <3> QED  BY <1>0, <1>2, <3>1, <3>2, <3>3, <3>4
  <2> QED  BY <2>1, <2>2
<1>5. CASE Launch(c)
  <2>1. UNCHANGED <<cmd, conn, port, version, asked>> /\ pc[c] = "launch"
    BY <1>5 DEF Launch
  <2>2. pc[k] = "none" /\ Replaced
    BY <1>0, <2>1 DEF ServedInv, OneAsks, Asks
  <2>3. /\ \A q \in Procs \ {c, k} : pc'[q] = pc[q]
        /\ \/ pc'[c] = "end" /\ pc'[k] = pc[k]
           \/ pc'[c] = "wait" /\ pc'[k] \in {"stat", "end", "service"}
    BY <1>0, <1>5 DEF Launch, Return, Goto, ProcType
  <2>4. conn[c] = Idle /\ conn[k] = Idle
    BY <1>0, <2>1, <2>2 DEF Requests
  <2>5. \A q \in {c, k} : ToFirst(q)' /\ Requests(q)'
    BY <2>1, <2>4, IdleFirst
  <2>6. Asks(c)'
    BY <1>0, <2>1, <2>2, <2>3 DEF Asks, Replaced
  <2> QED  BY <2>1, <2>3, <2>5, <2>6, ClientFrame
<1>6. CASE WaitForAck(c)
  <2>1. UNCHANGED <<cmd, conn, port, version, asked>> /\ pc[c] = "wait"
    BY <1>6 DEF WaitForAck
  <2>2. /\ \A q \in Procs \ {c} : pc'[q] = pc[q]
        /\ pc'[c] \in {"end", "service"}
    BY <1>0, <1>6, ReturnKeeps, UpKeeps DEF WaitForAck
  <2>3. conn[c] = Idle
    BY <1>0, <2>1, Zenon DEF Requests
  <2>4. Asks(c)'
    BY <1>0, <2>1, <2>2 DEF Asks, Replaced
  <2> QED  BY <1>0, <1>2, <2>1, <2>2, <2>3, <2>4
<1>7. CASE KillServer(c)
  <2>1. CASE Ask(c, "kill")
    BY <1>1, <1>7, <2>1 DEF KillServer
  <2>2. CASE ~Ask(c, "kill")
    <3>1. /\ (Refused(c) \/ Answered(c)) /\ pc[c] = "kill-server"
          /\ UNCHANGED <<cmd, port, version, asked>>
      BY <1>7, <2>2 DEF KillServer
    <3>2. pc'[c] = "end" /\ \A q \in Procs \ {c} : pc'[q] = pc[q]
      BY <1>0, <1>7, <2>2, ReturnKeeps, Zenon DEF KillServer
    <3>3. conn'[c] = Idle /\ \A q \in Procs \ {c} : conn'[q] = conn[q]
      BY <1>0, <3>1, AnsweredKeeps, Zenon DEF Refused
    <3>4. Asks(c)'
      BY <1>0, <3>1, <3>2 DEF Asks, Replaced
    <3> QED  BY <1>0, <1>2, <3>1, <3>2, <3>3, <3>4
  <2> QED  BY <2>1, <2>2
<1> QED  BY <1>3, <1>4, <1>5, <1>6, <1>7 DEF ClientStep

\* So does the request for the service, by the client or by its child.
LEMMA ServiceReplaces ==
    ASSUME TypeOK, ReplaceInv, NEW c \in Clients, NEW p \in {c, Child[c]}, ConnectService(p)
    PROVE  ReplaceInv'
<1> USE DEF keyVars
<1>0. /\ c \in Procs /\ Child[c] \in Procs /\ c # Child[c] /\ p \in Procs /\ ProcType
      /\ First \notin {c, Child[c]} /\ First \in Procs /\ Asks(c)
      /\ \A q \in {c, Child[c]} : ToFirst(q) /\ Requests(q)
  BY Family DEF TypeOK, ReplaceInv
<1>1. UNCHANGED <<cmd, port, version, asked>> /\ pc[p] = "service"
  BY Zenon DEF ConnectService, Ask
<1>2. CASE Ask(p, "service")
  <2>1. pc' = pc /\ \A q \in Procs \ {p} : conn'[q] = conn[q]
    BY <1>0, <1>2, AskKeeps, Zenon DEF Ask
  <2>2. ToFirst(p)' /\ Requests(p)'
    BY <1>0, <1>1, <1>2, <2>1, AskFirst, Zenon DEF Requests
  <2>3. Asks(c)' /\ \A q \in {c, Child[c]} \ {p} : ToFirst(q)' /\ Requests(q)'
    <3>1. Asks(c)'
      BY <1>0, <1>1, <2>1, Zenon DEF Asks, Replaced
    <3>2. ASSUME NEW q \in {c, Child[c]} \ {p} PROVE ToFirst(q)' /\ Requests(q)'
      <4>1. conn'[q] = conn[q] /\ ToFirst(q) /\ Requests(q)
        BY <1>0, <2>1
      <4> QED  BY <2>1, <4>1, Zenon DEF ToFirst, Requests
    <3> QED  BY <3>1, <3>2
  <2> QED  BY <1>0, <1>1, <2>1, <2>2, <2>3, ClientFrame, Zenon
<1>3. CASE ~Ask(p, "service")
  <2>1. Refused(p) \/ Answered(p)
    BY <1>3 DEF ConnectService
  <2>2. pc'[p] = "end" /\ \A q \in Procs \ {p} : pc'[q] = pc[q]
    BY <1>0, <1>3, ReturnKeeps, Zenon DEF ConnectService
  <2>3. conn'[p] = Idle /\ \A q \in Procs \ {p} : conn'[q] = conn[q]
    BY <1>0, <2>1, AnsweredKeeps DEF Refused
  <2>4. ToFirst(p)' /\ Requests(p)'
    BY <2>3, IdleFirst
  <2>5. Asks(c)' /\ \A q \in {c, Child[c]} \ {p} : ToFirst(q)' /\ Requests(q)'
    <3>1. pc'[First] = pc[First] /\ \A q \in {c, Child[c]} \ {p} : pc'[q] = pc[q]
      BY <1>0, <2>2
    <3>2. Asks(c)'
      BY <1>0, <1>1, <2>2, <3>1 DEF Asks, Replaced
    <3>3. ASSUME NEW q \in {c, Child[c]} \ {p} PROVE ToFirst(q)' /\ Requests(q)'
      <4>1. conn'[q] = conn[q] /\ pc'[q] = pc[q] /\ ToFirst(q) /\ Requests(q)
        BY <1>0, <2>3, <3>1
      <4> QED  BY <3>1, <4>1, Zenon DEF ToFirst, Requests
    <3> QED  BY <3>2, <3>3
  <2> QED  BY <1>0, <1>1, <2>2, <2>3, <2>4, <2>5, ClientFrame, Zenon
<1> QED  BY <1>2, <1>3

Serving == Starting \cup {"loop", "exit"}

\* A step of a server, which is no client and whose connections others opened.
LEMMA ServerFrame ==
    ASSUME ReplaceInv, NEW s \in Servers, UNCHANGED <<version, cmd, asked>>,
           pc[s] \in Serving, pc'[s] \in Serving \cup {"gone"},
           \A q \in Procs \ {s} : pc'[q] = pc[q],
           \A q \in Procs : \/ conn'[q] = conn[q]
                            \/ /\ conn'[q].to = conn[q].to /\ conn'[q].req = conn[q].req
                               /\ conn[q].to # NoProc,
           FirstInv', \A q \in Procs : ToFirst(q)',
           Replaced => Replaced', pc[First] # "none" => pc'[First] # "none"
    PROVE  ReplaceInv'
<1>1. \A l \in Serving \cup {"gone"} :
        l \notin {"version", "kill", "kill-server", "launch", "wait", "service", "end"}
  BY DEF Serving, Starting, Generating
<1>2. ASSUME NEW q \in Procs PROVE Requests(q)'
  <2>1. CASE q = s
    BY <1>1, <2>1 DEF ReplaceInv, Requests, Idle
  <2>2. CASE q # s
    BY <2>2 DEF ReplaceInv, Requests, Idle
  <2> QED  BY <2>1, <2>2
<1>3. ASSUME NEW c \in Clients PROVE Asks(c)'
  <2>1. pc'[c] = pc[c] /\ (pc'[Child[c]] = "service" => pc[Child[c]] = "service")
    BY <1>1, Family
  <2> QED  BY <2>1 DEF ReplaceInv, Asks
<1> QED  BY <1>2, <1>3 DEF ReplaceInv

\* A server that ends: when it is the first, that was the end of it.
LEMMA GoneReplaces ==
    ASSUME TypeOK, ReplaceInv, NEW s \in Servers, Gone(s), pc[s] \in Serving,
           UNCHANGED <<version, cmd, asked>>
    PROVE  ReplaceInv'
<1>1. /\ pc'[s] = "gone" /\ \A q \in Procs \ {s} : pc'[q] = pc[q]
      /\ port' = IF port = s THEN NoProc ELSE port
      /\ \A p \in Procs : /\ conn'[p].to = conn[p].to /\ conn'[p].req = conn[p].req
                          /\ \/ conn'[p] = conn[p] /\ ~(conn[p].to = s /\ conn[p].got = "none")
                             \/ conn'[p].got = "lost" /\ conn[p].to = s /\ conn[p].got = "none"
  BY GoneKeeps DEF TypeOK
<1>2. First \in Procs /\ s # NoProc /\ First # NoProc
  BY Family
<1>3. FirstInv'
  BY <1>1, <1>2 DEF ReplaceInv, FirstInv
<1>4. ASSUME NEW p \in Procs PROVE ToFirst(p)'
  <2>1. ToFirst(p)
    BY DEF ReplaceInv
  <2>2. CASE s = First
    BY <1>1, <2>1, <2>2 DEF ToFirst
  <2>3. CASE s # First
    BY <1>1, <1>2, <2>1, <2>3 DEF ToFirst
  <2> QED  BY <2>2, <2>3
<1>5. (Replaced => Replaced') /\ (pc[First] # "none" => pc'[First] # "none")
  BY <1>1, <1>2 DEF Replaced
<1> QED  BY <1>1, <1>2, <1>3, <1>4, <1>5, ServerFrame

\* A server's step neither brings the first server back nor hides its end.
LEMMA ServerReplaces ==
    ASSUME TypeOK, ReplaceInv, NEW s \in Servers, AdbMain(s) \/ Killed(s) PROVE ReplaceInv'
<1> USE DEF keyVars
<1>0. /\ s \in Procs /\ First \in Procs /\ s # NoProc /\ ProcType
      /\ pc[First] \in {"none", "loop", "exit", "gone"}
      /\ Starting \subseteq Labels /\ Starting \subseteq Serving
      /\ \A l \in Starting : l \notin {"none", "loop", "exit", "gone"}
  BY Family DEF ReplaceInv, FirstInv, TypeOK, Labels, Serving, Starting, Generating
\* A step of a server that starts.
<1>1. ASSUME pc[s] \in Starting, NEW l \in Starting \cup {"loop"}, Goto(s, l),
             UNCHANGED <<version, cmd, asked, conn>>, port' = port \/ (port = NoProc /\ port' = s)
      PROVE  ReplaceInv'
  <2>1. s # First /\ l \in Labels /\ l \in Serving
    BY <1>0, <1>1 DEF Labels, Serving
  <2>2. pc'[s] = l /\ \A q \in Procs \ {s} : pc'[q] = pc[q]
    BY <1>0, <1>1, <2>1, GotoKeeps
  <2>3. FirstInv'
    BY <1>0, <1>1, <2>1, <2>2, Family, Zenon DEF ReplaceInv, FirstInv
  <2>4. \A q \in Procs : ToFirst(q)'
    BY <1>0, <1>1, <2>1, <2>2, Zenon DEF ReplaceInv, ToFirst
  <2>5. (Replaced => Replaced') /\ (pc[First] # "none" => pc'[First] # "none")
    BY <1>0, <1>1, <2>1, <2>2 DEF Replaced
  <2> QED  BY <1>0, <1>1, <2>1, <2>2, <2>3, <2>4, <2>5, ServerFrame
<1>2. CASE AuthInit(s)
  <2>1. /\ pc[s] \in Starting /\ UNCHANGED <<version, cmd, asked, conn, port>>
        /\ \E l \in {"open", "read", "public", "close", "bind"} : Goto(s, l)
    BY <1>2
       DEF AuthInit, StatKey, OpenKey, WritePublicKeyfile, CloseKey, ReadKey, Starting, Generating
  <2>2. {"open", "read", "public", "close", "bind"} \subseteq Starting
    BY DEF Starting, Generating
  <2> QED  BY <1>1, <2>1, <2>2
<1>3. CASE Bind(s)
  <2>1. pc[s] \in Starting /\ "ack" \in Starting /\ UNCHANGED <<version, cmd, asked>>
    BY <1>3 DEF Bind, Starting
  <2>2. CASE port = NoProc
    BY <1>1, <1>3, <2>1, <2>2 DEF Bind
  <2>3. CASE port # NoProc
    BY <1>0, <1>3, <2>1, <2>3, GoneReplaces DEF Bind
  <2> QED  BY <2>2, <2>3
<1>4. CASE Ack(s)
  <2>1. pc[s] \in Starting
    BY <1>4 DEF Ack, Starting
  <2> QED  BY <1>1, <1>4, <2>1 DEF Ack
<1>5. ASSUME NEW p \in Procs, Serve(s, p) PROVE ReplaceInv'
  <2>1. /\ pc[s] = "loop" /\ conn[p].to = s /\ UNCHANGED <<version, cmd, asked, port>>
        /\ Requests(p) /\ ToFirst(p)
    BY <1>5 DEF Serve, ReplaceInv
  <2>2. /\ conn'[p].to = s /\ conn'[p].req = conn[p].req /\ conn'[p].got \in {"okay", "fail"}
        /\ \A q \in Procs \ {p} : conn'[q] = conn[q]
    <3>1. PICK g \in {"okay", "fail"} : conn' = [conn EXCEPT ![p].got = g]
      BY <1>5, Zenon DEF Serve
    <3> QED  BY <1>0, <2>1, <3>1 DEF ProcType, Conns
  <2>3. /\ \A q \in Procs \ {s} : pc'[q] = pc[q]
        /\ pc'[s] = IF conn[p].req = "kill" THEN "exit" ELSE "loop"
    BY <1>0, <1>5, <2>1, GotoKeeps, Zenon DEF Serve, Labels
  <2>4. FirstInv'
    BY <1>0, <2>1, <2>3, Zenon DEF ReplaceInv, FirstInv
  <2>5. ASSUME NEW q \in Procs PROVE ToFirst(q)'
    <3>1. CASE q = p
      BY <1>0, <2>1, <2>2, <2>3, <3>1, Zenon DEF ToFirst
    <3>2. CASE q # p
      BY <1>0, <2>1, <2>2, <2>3, <3>2, Zenon DEF ReplaceInv, ToFirst
    <3> QED  BY <3>1, <3>2
  <2>6. (Replaced => Replaced') /\ (pc[First] # "none" => pc'[First] # "none")
    BY <1>0, <2>1, <2>3, Zenon DEF Replaced
  <2>7. pc[s] \in Serving /\ pc'[s] \in Serving
    BY <2>1, <2>3 DEF Serving
  <2> QED  BY <1>0, <2>1, <2>2, <2>3, <2>4, <2>5, <2>6, <2>7, ServerFrame, Zenon
<1>6. CASE Exit(s)
  BY <1>6, GoneReplaces DEF Exit, Serving
<1>7. CASE Killed(s)
  BY <1>7, GoneReplaces DEF Killed, Serving
<1> QED  BY <1>2, <1>3, <1>4, <1>5, <1>6, <1>7 DEF AdbMain

-----------------------------------------------------------------------------
(* Who asks for the service, and how often. *)

\* What a step leaves alone for a client, it leaves alone for good.
LEMMA OneFrame ==
    ASSUME NEW c \in Clients, OneAsks(c), UNCHANGED <<cmd, version>>,
           pc'[c] = pc[c], pc'[Child[c]] = pc[Child[c]], ret'[c] = ret[c],
           pipe'[c] = pipe[c], ran'[c] = ran[c],
           conn'[c].got = conn[c].got, conn'[Child[c]].got = conn[Child[c]].got
    PROVE  OneAsks(c)'
BY Zenon DEF OneAsks, Asked

\* A step of a client or of its child leaves other clients alone.
LEMMA ClientsApart ==
    ASSUME ServedInv, NEW c \in Clients, UNCHANGED <<cmd, version, ran>>, OneAsks(c)',
           \A q \in Procs \ {c, Child[c]} :
             pc'[q] = pc[q] /\ conn'[q] = conn[q] /\ ret'[q] = ret[q],
           \A d \in Clients \ {c} : pipe'[d] = pipe[d]
    PROVE  ServedInv'
<1>1. ASSUME NEW d \in Clients \ {c} PROVE OneAsks(d)'
  <2>1. d \in Procs \ {c, Child[c]} /\ Child[d] \in Procs \ {c, Child[c]} /\ OneAsks(d)
    BY Family DEF ServedInv
  <2> QED  BY <2>1, OneFrame
<1> QED  BY <1>1 DEF ServedInv

\* adb_connect() goes on in one process, and launch_server() leaves at most one
\* that will ask for the service.
LEMMA ClientServed ==
    ASSUME TypeOK, ReplaceInv, ServedInv, NEW c \in Clients, ClientStep(c) PROVE ServedInv'
<1> USE DEF keyVars
<1> DEFINE k == Child[c]
<1>0. /\ c \in Procs /\ k \in Procs /\ c # k /\ ProcType /\ OneAsks(c) /\ Asks(c)
      /\ Requests(c) /\ Requests(k) /\ Owner(c) = c
  BY Family, Owners DEF TypeOK, ServedInv, ReplaceInv
<1>1. UNCHANGED <<cmd, version, ran>>
  BY Zenon DEF ClientStep, QueryVersion, KillOld, Launch, WaitForAck, KillServer, Ask
\* A step of the client alone.
<1>2. ASSUME \A q \in Procs \ {c} : pc'[q] = pc[q] /\ conn'[q] = conn[q] /\ ret'[q] = ret[q],
             UNCHANGED pipe, OneAsks(c)'
      PROVE  ServedInv'
  BY <1>0, <1>1, <1>2, ClientsApart
<1>3. CASE QueryVersion(c)
  <2>0. pc[c] = "version" /\ UNCHANGED pipe
    BY <1>3 DEF QueryVersion, Ask
  <2>1. pc[k] = "none" /\ pipe[c] = "none" /\ ran[c] = << >> /\ ret[c] # "ok"
    BY <1>0, <2>0, Zenon DEF OneAsks
  <2>2. CASE Ask(c, "version")
    <3>1. /\ conn'[c].got = "none" /\ conn[c].got = "none" /\ UNCHANGED <<pc, ret>>
          /\ \A q \in Procs \ {c} : conn'[q] = conn[q]
      <4>1. /\ conn[c] = Idle /\ conn'[c] = [to |-> port, req |-> "version", got |-> "none"]
            /\ \A q \in Procs \ {c} : conn'[q] = conn[q]
        BY <1>0, <2>2, AskKeeps, Zenon
      <4> QED  BY <2>2, <4>1, IdleFields DEF Ask
    <3>2. OneAsks(c)'
      BY <1>0, <1>1, <2>0, <3>1, OneFrame
    <3> QED  BY <1>2, <2>0, <3>1, <3>2
  <2>3. CASE ~Ask(c, "version")
    <3>1. conn'[c] = Idle /\ \A q \in Procs \ {c} : conn'[q] = conn[q]
      <4>1. Refused(c) \/ Answered(c)
        BY <1>3, <2>3 DEF QueryVersion
      <4> QED  BY <1>0, <4>1, AnsweredKeeps DEF Refused
    <3>2. /\ \A q \in Procs \ {c} : pc'[q] = pc[q] /\ ret'[q] = ret[q]
          /\ \/ pc'[c] \in {"launch", "kill", "service"} /\ ret'[c] = ret[c]
             \/ pc'[c] = "end" /\ (ret'[c] = "ok" => cmd[c] = "start-server")
      <4>1. {"launch", "kill"} \subseteq Labels
        BY DEF Labels
      <4>2. \/ \E l \in {"launch", "kill"} : Goto(c, l) /\ UNCHANGED ret
            \/ ServerIsUp(c)
            \/ Return(c, "error")
        BY <1>3, <2>3 DEF QueryVersion
      <4>3. CASE \E l \in {"launch", "kill"} : Goto(c, l) /\ UNCHANGED ret
        BY <1>0, <4>1, <4>3, GotoKeeps, Zenon
      <4>4. CASE ServerIsUp(c)
        BY <1>0, <4>4, UpKeeps, Zenon
      <4>5. CASE Return(c, "error")
        BY <1>0, <4>5, ReturnKeeps, Zenon
      <4> QED  BY <4>2, <4>3, <4>4, <4>5, Zenon
    <3>3. conn'[c].got = "none"
      BY <3>1 DEF Idle
    <3>4. OneAsks(c)'
      BY <1>0, <1>1, <2>0, <2>1, <3>2, <3>3, Zenon DEF OneAsks, Asked
    <3> QED  BY <1>2, <2>0, <3>1, <3>2, <3>4
  <2> QED  BY <2>2, <2>3
<1>4. CASE KillOld(c)
  <2>0. pc[c] = "kill" /\ UNCHANGED <<pipe, ret>>
    BY <1>4, Zenon DEF KillOld, Ask
  <2>1. pc[k] = "none" /\ pipe[c] = "none" /\ ran[c] = << >> /\ ret[c] # "ok"
    BY <1>0, <2>0, Zenon DEF OneAsks
  <2>2. /\ \A q \in Procs \ {c} : pc'[q] = pc[q] /\ conn'[q] = conn[q]
        /\ pc'[c] \in {"kill", "launch"}
    <3>1. CASE Ask(c, "kill")
      BY <1>0, <2>0, <3>1, AskKeeps, Zenon DEF Ask
    <3>2. CASE ~Ask(c, "kill")
      <4>1. "launch" \in Labels /\ Goto(c, "launch") /\ (Refused(c) \/ Answered(c))
        BY <1>4, <3>2 DEF KillOld, Labels
      <4> QED  BY <1>0, <4>1, GotoKeeps, AnsweredKeeps DEF Refused
    <3> QED  BY <3>1, <3>2
  <2>3. OneAsks(c)'
    BY <1>0, <1>1, <2>0, <2>1, <2>2, Zenon DEF OneAsks, Asked
  <2> QED  BY <1>2, <2>0, <2>2, <2>3
<1>5. CASE Launch(c)
  <2>0. pc[c] = "launch" /\ UNCHANGED conn
    BY <1>5 DEF Launch
  <2>1. /\ pc[k] = "none" /\ pipe[c] = "none" /\ ran[c] = << >> /\ ret[c] # "ok"
        /\ conn[k].got = "none"
    BY <1>0, <2>0, IdleFields, Zenon DEF OneAsks, Requests
  <2>2. CASE Return(c, "error") /\ UNCHANGED pipe
    <3>1. /\ pc'[c] = "end" /\ ret'[c] = "error"
          /\ \A q \in Procs \ {c} : pc'[q] = pc[q] /\ ret'[q] = ret[q]
      BY <1>0, <2>2, ReturnKeeps, Zenon
    <3>2. OneAsks(c)'
      BY <1>0, <1>1, <2>0, <2>1, <2>2, <3>1, Zenon DEF OneAsks, Asked
    <3> QED  BY <1>2, <2>0, <2>2, <3>1, <3>2
  <2>3. CASE ~(Return(c, "error") /\ UNCHANGED pipe)
    <3>1. /\ \A q \in Procs \ {c, k} : pc'[q] = pc[q] /\ ret'[q] = ret[q]
          /\ pc'[c] = "wait" /\ ret'[c] = ret[c]
          /\ \/ pc'[k] = "stat"
             \/ pc'[k] \in {"end", "service"} /\ pipe'[c] = "other"
      BY <1>0, <1>5, <2>3, Zenon DEF Launch, ProcType
    <3>2. \A d \in Clients \ {c} : pipe'[d] = pipe[d]
      BY <1>0, <1>5, <2>3 DEF Launch, ProcType
    <3>3. OneAsks(c)'
      BY <1>0, <1>1, <2>0, <2>1, <3>1, Zenon DEF OneAsks, Asked
    <3> QED  BY <1>1, <2>0, <3>1, <3>2, <3>3, ClientsApart
  <2> QED  BY <2>2, <2>3
<1>6. CASE WaitForAck(c)
  <2>0. pc[c] = "wait" /\ UNCHANGED <<conn, pipe>>
    BY <1>6 DEF WaitForAck
  <2>1. conn[c].got = "none" /\ ret[c] # "ok"
    BY <1>0, <2>0, IdleFields, Zenon DEF OneAsks, Requests
  <2>2. CASE pipe[c] = "OK"
    <3>1. pc[k] \notin {"service", "end"} /\ ran[c] = << >>
      BY <1>0, <2>0, <2>2, Zenon DEF OneAsks
    <3>2. /\ \A q \in Procs \ {c} : pc'[q] = pc[q] /\ ret'[q] = ret[q]
          /\ \/ pc'[c] = "service" /\ ret'[c] = ret[c]
             \/ pc'[c] = "end" /\ cmd[c] = "start-server"
      BY <1>0, <1>6, <2>2, UpKeeps, Zenon DEF WaitForAck
    <3>3. OneAsks(c)'
      BY <1>0, <1>1, <2>0, <2>1, <2>2, <3>1, <3>2, Zenon DEF OneAsks, Asked
    <3> QED  BY <1>2, <2>0, <3>2, <3>3
  <2>3. CASE pipe[c] # "OK"
    <3>1. /\ pc'[c] = "end" /\ ret'[c] = "error"
          /\ \A q \in Procs \ {c} : pc'[q] = pc[q] /\ ret'[q] = ret[q]
      BY <1>0, <1>6, <2>3, ReturnKeeps DEF WaitForAck
    <3>2. OneAsks(c)'
      BY <1>0, <1>1, <2>0, <2>1, <3>1, Zenon DEF OneAsks, Asked
    <3> QED  BY <1>2, <2>0, <3>1, <3>2
  <2> QED  BY <2>2, <2>3
<1>7. CASE KillServer(c)
  <2>0. pc[c] = "kill-server" /\ cmd[c] = "kill-server" /\ UNCHANGED pipe
    BY <1>0, <1>7, Zenon DEF KillServer, Ask, Asks
  <2>1. pc[k] = "none" /\ pipe[c] = "none" /\ ran[c] = << >> /\ ret[c] # "ok"
    BY <1>0, <2>0, Zenon DEF OneAsks
  <2>2. /\ \A q \in Procs \ {c} : pc'[q] = pc[q] /\ conn'[q] = conn[q] /\ ret'[q] = ret[q]
        /\ \/ pc'[c] = "kill-server" /\ ret'[c] = ret[c]
           \/ pc'[c] = "end"
    <3>1. CASE Ask(c, "kill")
      BY <1>0, <2>0, <3>1, AskKeeps, Zenon DEF Ask
    <3>2. CASE ~Ask(c, "kill")
      <4>1. (Return(c, "ok") \/ Return(c, "error")) /\ (Refused(c) \/ Answered(c))
        BY <1>7, <3>2 DEF KillServer
      <4> QED  BY <1>0, <4>1, ReturnKeeps, AnsweredKeeps DEF Refused
    <3> QED  BY <3>1, <3>2
  <2>3. OneAsks(c)'
    BY <1>0, <1>1, <2>0, <2>1, <2>2, Zenon DEF OneAsks, Asked
  <2> QED  BY <1>2, <2>0, <2>2, <2>3
<1> QED  BY <1>3, <1>4, <1>5, <1>6, <1>7 DEF ClientStep

\* The request for the service is made once and its answer is the result.
LEMMA ServiceServed ==
    ASSUME TypeOK, ServedInv, NEW c \in Clients, NEW p \in {c, Child[c]}, ConnectService(p)
    PROVE  ServedInv'
<1> USE DEF keyVars
<1>0. /\ c \in Procs /\ Child[c] \in Procs /\ c # Child[c] /\ ProcType /\ OneAsks(c) /\ p \in Procs
  BY Family DEF TypeOK, ServedInv
<1>1. UNCHANGED <<cmd, version, ran, pipe>> /\ pc[p] = "service"
  BY Zenon DEF ConnectService, Ask
<1>2. CASE Ask(p, "service")
  <2>1. /\ conn'[p].got = "none" /\ conn[p].got = "none" /\ UNCHANGED <<pc, ret>>
        /\ \A q \in Procs \ {p} : conn'[q] = conn[q]
    <3>1. /\ conn[p] = Idle /\ conn'[p] = [to |-> port, req |-> "service", got |-> "none"]
          /\ \A q \in Procs \ {p} : conn'[q] = conn[q]
      BY <1>0, <1>2, AskKeeps, Zenon
    <3> QED  BY <1>2, <3>1, IdleFields DEF Ask
  <2>2. OneAsks(c)'
    BY <1>0, <1>1, <2>1, OneFrame, Zenon
  <2> QED  BY <1>0, <1>1, <2>1, <2>2, ClientsApart
<1>3. CASE ~Ask(p, "service")
  <2>1. /\ ret'[p] = "ok" => conn[p].got = "okay"
        /\ \A q \in Procs \ {p} : pc'[q] = pc[q] /\ ret'[q] = ret[q]
    <3>1. \/ Return(p, "error")
          \/ Return(p, "ok") /\ conn[p].got = "okay"
      BY <1>3 DEF ConnectService
    <3> QED  BY <1>0, <3>1, ReturnKeeps
  <2>2. pc'[p] = "end"
    BY <1>0, <1>3, ReturnKeeps DEF ConnectService
  <2>3. \A q \in Procs \ {p} : conn'[q] = conn[q]
    BY <1>0, <1>3, AnsweredKeeps DEF ConnectService, Refused
  <2>4. OneAsks(c)'
    <3>1. CASE p = c
      BY <1>0, <1>1, <2>1, <2>2, <2>3, <3>1, Zenon DEF OneAsks, Asked
    <3>2. CASE p = Child[c]
      BY <1>0, <1>1, <2>1, <2>2, <2>3, <3>2, Zenon DEF OneAsks, Asked
    <3> QED  BY <3>1, <3>2
  <2> QED  BY <1>0, <1>1, <2>1, <2>3, <2>4, ClientsApart
<1> QED  BY <1>2, <1>3

\* A server's step that runs no service.
LEMMA NotServed ==
    ASSUME ServedInv, NEW s \in Servers, UNCHANGED <<version, cmd, ret, ran>>,
           pc[s] \in Serving, pc'[s] \in Serving \cup {"gone"},
           \A q \in Procs \ {s} : pc'[q] = pc[q],
           \A q \in Procs : pc[q] = "service" =>
                              (conn'[q].got = "okay" <=> conn[q].got = "okay"),
           \A c \in Clients : Child[c] # s => pipe'[c] = pipe[c]
    PROVE  ServedInv'
<1>1. \A l \in Serving \cup {"gone"} : l \notin {"none", "service", "end"}
  BY DEF Serving, Starting, Generating
<1>2. ASSUME NEW c \in Clients PROVE OneAsks(c)'
  <2>1. c \in Procs /\ Child[c] \in Procs /\ c # s /\ OneAsks(c)
    BY Family DEF ServedInv
  <2>2. CASE Child[c] = s
    BY <1>1, <2>1, <2>2, Zenon DEF OneAsks, Asked
  <2>3. CASE Child[c] # s
    BY <2>1, <2>3, Zenon DEF OneAsks, Asked
  <2> QED  BY <2>2, <2>3
<1> QED  BY <1>2 DEF ServedInv

\* A server that ends.
LEMMA GoneServed ==
    ASSUME TypeOK, ServedInv, NEW s \in Servers, Gone(s), pc[s] \in Serving,
           UNCHANGED <<version, cmd, ret, ran>>
    PROVE  ServedInv'
<1>1. /\ pc'[s] = "gone" /\ \A q \in Procs \ {s} : pc'[q] = pc[q]
      /\ \A p \in Procs : \/ conn'[p] = conn[p]
                          \/ conn'[p].got = "lost" /\ conn[p].got = "none"
      /\ \A c \in Clients : Child[c] # s => pipe'[c] = pipe[c]
  BY GoneKeeps DEF TypeOK
<1> QED  BY <1>1, NotServed

\* Only a server of the current version gets the request for a service.
LEMMA ServeServed ==
    ASSUME TypeOK, ReplaceInv, ServedInv, NEW s \in Servers, NEW p \in Procs, Serve(s, p)
    PROVE  ServedInv'
<1> USE DEF keyVars
<1>0. /\ s \in Procs /\ ProcType /\ FileType /\ Requests(p) /\ FirstInv
      /\ pc[s] = "loop" /\ conn[p].to = s /\ conn[p].got = "none"
      /\ UNCHANGED <<cmd, ret, version, pipe>>
  BY Family, Zenon DEF TypeOK, ReplaceInv, Serve
<1>1. \A q \in Procs \ {p} : conn'[q] = conn[q]
  BY <1>0 DEF Serve, ProcType
<1>2. /\ \A q \in Procs \ {s} : pc'[q] = pc[q]
      /\ pc'[s] = IF conn[p].req = "kill" THEN "exit" ELSE "loop"
  BY <1>0, GotoKeeps DEF Serve, Labels
<1>3. CASE ran' = ran /\ (conn[p].req = "service" => conn'[p].got # "okay")
  <2>1. pc[p] = "service" => conn[p].req = "service"
    BY <1>0, Family DEF Requests, Idle
  <2>2. pc[s] \in Serving /\ pc'[s] \in Serving
    BY <1>0, <1>2 DEF Serving
  <2> QED  BY <1>0, <1>1, <1>2, <1>3, <2>1, <2>2, NotServed
<1>4. CASE conn[p].req = "service" /\ ran' = [ran EXCEPT ![Owner(p)] = Append(@, s)]
  <2>1. pc[p] = "service" /\ pc' = pc /\ conn'[p].got = "okay"
    <3>1. pc[p] = "service"
      BY <1>0, <1>4, Family DEF Requests, Idle
    <3>2. pc' = pc
      BY <1>4 DEF Serve
    <3>3. conn'[p].got = "okay"
      <4>1. PICK g \in {"okay", "fail"} :
              /\ conn' = [conn EXCEPT ![p].got = g]
              /\ g # "okay" => ran' = ran
        BY Zenon DEF Serve
      <4>2. g = "okay"
        <5>1. \E d \in Clients : Owner(p) = d
          BY <1>0, <3>1, Family, Owners DEF FirstInv, Procs, Servers
        <5>2. PICK d \in Clients : Owner(p) = d
          BY <5>1
        <5>3. ran'[d] = Append(ran[d], s) /\ ran[d] \in Seq(Servers)
          BY <1>0, <1>4, <5>2 DEF FileType
        <5> QED  BY <4>1, <5>3
      <4> QED  BY <1>0, <4>1, <4>2 DEF ProcType, Conns
    <3> QED  BY <3>1, <3>2, <3>3
  <2>2. PICK c \in Clients : p \in {c, Child[c]}
    BY <1>0, <2>1, Family DEF FirstInv, Procs, Servers
  <2>3. Owner(p) = c /\ OneAsks(c) /\ Asks(c) /\ c \in Procs /\ Child[c] \in Procs /\ c # Child[c]
    BY <2>2, Owners, Family DEF ServedInv, ReplaceInv
  <2>4. ran[c] = << >> /\ ran'[c] = <<s>> /\ \A d \in Clients \ {c} : ran'[d] = ran[d]
    <3>1. ran[c] = << >>
      BY <1>0, <2>1, <2>2, <2>3, Zenon DEF OneAsks, Asked
    <3> QED  BY <1>0, <1>4, <2>3, <3>1 DEF FileType
  <2>5. version[s] = Current
    BY <1>0, <2>1, <2>2, <2>3 DEF FirstInv, Asks, Replaced
  <2>6. /\ Len(ran'[c]) = 1 /\ Len(ran'[c]) <= 1
        /\ \A i \in DOMAIN ran'[c] : version'[ran'[c][i]] = Current
    BY <1>0, <2>4, <2>5
  <2>7. OneAsks(c)'
    <3>1. CASE p = c
      BY <1>0, <1>1, <2>1, <2>3, <2>6, <3>1, Zenon DEF OneAsks, Asked
    <3>2. CASE p = Child[c]
      BY <1>0, <1>1, <2>1, <2>3, <2>6, <3>2, Zenon DEF OneAsks, Asked
    <3> QED  BY <2>2, <3>1, <3>2
  <2>8. ASSUME NEW d \in Clients \ {c} PROVE OneAsks(d)'
    <3>1. d \in Procs \ {p} /\ Child[d] \in Procs \ {p} /\ OneAsks(d)
      BY <2>2, Family DEF ServedInv
    <3> QED  BY <1>0, <1>1, <2>1, <2>4, <3>1, OneFrame, Zenon
  <2> QED  BY <2>7, <2>8 DEF ServedInv
<1> QED  BY <1>3, <1>4 DEF Serve

\* A server runs a command's service once.
LEMMA ServerServed ==
    ASSUME TypeOK, ReplaceInv, ServedInv, NEW s \in Servers, AdbMain(s) \/ Killed(s)
    PROVE  ServedInv'
<1> USE DEF keyVars
<1>0. s \in Procs /\ ProcType /\ Starting \subseteq Labels /\ Starting \subseteq Serving
  BY Family DEF TypeOK, Labels, Serving
\* A step of a server that starts.
<1>1. ASSUME pc[s] \in Starting, NEW l \in Starting \cup {"loop"}, Goto(s, l),
             UNCHANGED <<version, cmd, ret, ran, conn>>,
             \A c \in Clients : Child[c] # s => pipe'[c] = pipe[c]
      PROVE  ServedInv'
  <2>1. l \in Labels /\ l \in Serving
    BY <1>0, <1>1 DEF Labels, Serving
  <2>2. pc'[s] = l /\ \A q \in Procs \ {s} : pc'[q] = pc[q]
    BY <1>0, <1>1, <2>1, GotoKeeps
  <2> QED  BY <1>0, <1>1, <2>1, <2>2, NotServed
<1>2. CASE AuthInit(s)
  <2>1. /\ pc[s] \in Starting /\ UNCHANGED <<version, cmd, ret, ran, conn, pipe>>
        /\ \E l \in {"open", "read", "public", "close", "bind"} : Goto(s, l)
    BY <1>2, Zenon
       DEF AuthInit, StatKey, OpenKey, WritePublicKeyfile, CloseKey, ReadKey, Starting, Generating
  <2>2. {"open", "read", "public", "close", "bind"} \subseteq Starting
    BY DEF Starting, Generating
  <2> QED  BY <1>1, <2>1, <2>2
<1>3. CASE Bind(s)
  <2>1. pc[s] \in Starting /\ "ack" \in Starting /\ UNCHANGED <<version, cmd, ret, ran>>
    BY <1>3 DEF Bind, Starting
  <2>2. CASE port = NoProc
    BY <1>1, <1>3, <2>1, <2>2 DEF Bind
  <2>3. CASE port # NoProc
    BY <1>0, <1>3, <2>1, <2>3, GoneServed DEF Bind
  <2> QED  BY <2>2, <2>3
<1>4. CASE Ack(s)
  <2>1. pc[s] \in Starting /\ UNCHANGED <<version, cmd, ret, ran, conn>> /\ Goto(s, "loop")
    BY <1>4 DEF Ack, Starting
  <2>2. ASSUME NEW c \in Clients, Child[c] # s PROVE pipe'[c] = pipe[c]
    <3>1. c # Parent(s)
      <4>1. s # First
        BY <1>4 DEF Ack, ReplaceInv, FirstInv
      <4>2. PICK d \in Clients : Child[d] = s
        BY <4>1, Family DEF Servers
      <4> QED  BY <2>2, <4>2, Owners, Family DEF Owner
    <3> QED  BY <1>0, <1>4, <3>1 DEF Ack, ProcType
  <2> QED  BY <1>1, <2>1, <2>2
<1>5. CASE Exit(s)
  BY <1>5, GoneServed DEF Exit, Serving
<1>6. CASE Killed(s)
  BY <1>6, GoneServed DEF Killed, Serving
<1> QED  BY <1>2, <1>3, <1>4, <1>5, <1>6, ServeServed DEF AdbMain

-----------------------------------------------------------------------------
(* The theorems. *)

\* One server may run when the clients start, with its key on disk.
LEMMA StartHolds == Init => ReplaceInv /\ ServedInv /\ Keys
<1> SUFFICES ASSUME Init PROVE ReplaceInv /\ ServedInv /\ Keys
  OBVIOUS
<1>1. PICK running, keys \in BOOLEAN, v \in {Current, Older, Unknown} :
        /\ running => keys
        /\ version = [p \in Procs |-> IF p = First THEN v ELSE Current]
        /\ pc = [p \in Procs |->
                   IF p \in Clients THEN IF cmd[p] = "kill-server" THEN "kill-server" ELSE "version"
                   ELSE IF p = First /\ running THEN "loop" ELSE "none"]
        /\ port = IF running THEN First ELSE NoProc
        /\ priv = IF keys THEN First ELSE NoProc
        /\ pub = priv
        /\ key = [s \in Servers |-> IF s = First /\ running THEN First ELSE NoProc]
  BY Zenon DEF Init
<1>2. /\ conn = [p \in Procs |-> Idle] /\ asked = [c \in Clients |-> NoProc]
      /\ ret = [p \in Procs |-> "none"] /\ pipe = [c \in Clients |-> "none"]
      /\ ran = [c \in Clients |-> << >>]
  BY DEF Init
<1>3. FirstInv
  BY <1>1, Family DEF FirstInv
<1>4. \A p \in Procs : ToFirst(p) /\ Requests(p)
  BY <1>2, Family DEF ToFirst, Requests, Idle
<1>5. ASSUME NEW c \in Clients PROVE Asks(c) /\ OneAsks(c)
  <2>1. /\ pc[c] = IF cmd[c] = "kill-server" THEN "kill-server" ELSE "version"
        /\ pc[Child[c]] = "none"
    BY <1>1, Family
  <2>2. asked[c] # First /\ ret[c] = "none" /\ pipe[c] = "none" /\ ran[c] = << >>
    BY <1>2, Family
  <2>3. Asks(c)
    BY <2>1, <2>2 DEF Asks
  <2>4. OneAsks(c)
    BY <2>1, <2>2 DEF OneAsks, Asked
  <2> QED  BY <2>3, <2>4
<1>6. KeyInv
  <2>1. \A s \in Servers : s \in Procs /\ s \notin Clients
    BY Family DEF Servers
  <2>2. \A s \in Servers : pc[s] = IF s = First /\ running THEN "loop" ELSE "none"
    BY <1>1, <2>1
  <2>3. \A s \in Servers : pc[s] \in {"loop", "none"} /\ (pc[s] = "loop" => s = First /\ running)
    BY <2>2
  <2> QED  BY <1>1, <2>3, Family DEF KeyInv, Generating, Past
<1> QED  BY <1>3, <1>4, <1>5, <1>6 DEF ReplaceInv, ServedInv, Keys

\* A client that asks for the service has seen the end of an old server.
LEMMA ReplaceStep == TypeOK /\ ReplaceInv /\ ServedInv /\ [Next]_vars => ReplaceInv'
<1> SUFFICES ASSUME TypeOK, ReplaceInv, ServedInv, [Next]_vars PROVE ReplaceInv'
  OBVIOUS
<1>1. CASE UNCHANGED vars
  BY <1>1, Zenon DEF vars, ReplaceInv, FirstInv, ToFirst, Requests, Asks, Replaced
<1>2. ASSUME NEW p \in Clients \cup Kids, ConnectService(p) PROVE ReplaceInv'
  BY <1>2, Family, ServiceReplaces
<1> QED  BY <1>1, <1>2, ClientReplaces, ServerReplaces DEF Next

\* No step makes a command run twice.
LEMMA ServedStep == TypeOK /\ ReplaceInv /\ ServedInv /\ [Next]_vars => ServedInv'
<1> SUFFICES ASSUME TypeOK, ReplaceInv, ServedInv, [Next]_vars PROVE ServedInv'
  OBVIOUS
<1>1. CASE UNCHANGED vars
  BY <1>1, OneFrame DEF vars, ServedInv
<1>2. ASSUME NEW p \in Clients \cup Kids, ConnectService(p) PROVE ServedInv'
  BY <1>2, Family, ServiceServed
<1> QED  BY <1>1, <1>2, ClientServed, ServerServed DEF Next

LEMMA ClientInv == Spec => [](TypeOK /\ ReplaceInv /\ ServedInv /\ Keys)
<1>1. Init => TypeOK /\ ReplaceInv /\ ServedInv /\ Keys
  BY TypeInit, StartHolds
<1>2. /\ TypeOK /\ ReplaceInv /\ ServedInv /\ Keys /\ [Next]_vars
      => (TypeOK /\ ReplaceInv /\ ServedInv /\ Keys)'
  BY TypeStep, ReplaceStep, ServedStep, KeysStep
<1> QED  BY <1>1, <1>2, PTL DEF Spec

\* launch_server() and adb_connect(): a command is carried out at most once, by
\* a server of the client's version, however many clients replace the server.
THEOREM CommandsRunOnce == Spec => []ServedOnce
<1>1. ServedInv => ServedOnce
  BY DEF ServedInv, OneAsks, ServedOnce
<1> QED  BY <1>1, ClientInv, PTL

\* adb_auth_init(): the key a server signs with is the one it offers.
THEOREM KeysAgree == Spec => []KeysMatch
<1>1. Keys => KeysMatch
  <2> SUFFICES ASSUME Keys, NEW s \in Servers, pc[s] = "loop", ~spoiled
               PROVE  key[s] # NoProc /\ key[s] = pub /\ key[s] = priv
    BY DEF KeysMatch
  <2>1. pc[s] \in Past /\ \A o \in Servers : pc[o] \notin Generating
    BY DEF Keys, KeyInv, Past
  <2> QED  BY <2>1 DEF Keys, KeyInv
<1> QED  BY <1>1, ClientInv, PTL

\* adb_connect(): host:kill of a client that found an old server reaches a
\* server of the current version only when the old one is gone.
THEOREM OnlyOldIsKilled == Spec => KillsOnlyOld
<1> DEFINE KillStep ==
      \A c \in Clients :
        /\ cmd[c] # "kill-server" /\ conn[c].req = "kill"
        /\ conn[c].got = "none" /\ conn'[c].got = "okay"
        /\ version[conn[c].to] = Current
        => /\ asked[c] # conn[c].to
           /\ pc[asked[c]] = "gone"
<1>1. TypeOK /\ ReplaceInv => KillStep
  <2> SUFFICES ASSUME TypeOK, ReplaceInv, NEW c \in Clients, cmd[c] # "kill-server",
                      conn[c].req = "kill", version[conn[c].to] = Current
               PROVE  asked[c] # conn[c].to /\ pc[asked[c]] = "gone"
    BY DEF KillStep
  <2>1. Requests(c) /\ ToFirst(c) /\ Asks(c) /\ FirstInv /\ c \in Procs /\ conn[c] \in Conns
    BY Family DEF ReplaceInv, TypeOK, ProcType
  <2>2. pc[c] = "kill" /\ conn[c].to # NoProc
    BY <2>1 DEF Requests, Asks, Idle
  <2>3. asked[c] = First /\ version[First] # Current /\ pc[First] # "none"
    BY <2>1, <2>2 DEF Asks
  <2>4. conn[c].to \in Kids
    BY <2>1, <2>2, <2>3 DEF Conns, Servers
  <2> QED  BY <2>1, <2>3, <2>4 DEF ToFirst
<1>2. TypeOK /\ ReplaceInv => [KillStep]_vars
  BY <1>1
<1>3. Spec => []TypeOK /\ []ReplaceInv
  BY ClientInv, PTL
<1> QED  BY <1>2, <1>3, PTL DEF KillsOnlyOld
====
