------------------------------ MODULE Fdevent -------------------------------
(***************************************************************************)
(* The event loop of the server (fdevent.c, the select() version): the     *)
(* table of fdevents, the sets given to select(), the list of pending      *)
(* fdevents, and the callbacks, which may install, change and remove any   *)
(* fdevent, themselves included.                                           *)
(*                                                                         *)
(* Descriptors are the numbers 0 .. MaxFd, below the 128 entries that      *)
(* fdevent_register() clears.  FDE_ERROR is never asked for and left out,  *)
(* and so is the shell-exit descriptor, to which nothing writes on a host. *)
(***************************************************************************)
EXTENDS Naturals, Sequences, FiniteSets

CONSTANTS Fdes,     \* fdevent objects
          Shared,   \* of these, the ones close_all_sockets() may remove
          MaxFd,    \* bound: the largest descriptor
          None      \* the null fdevent

Fds == 0 .. MaxFd

ASSUME FdesAssumption == Shared \subseteq Fdes /\ None \notin Fdes /\ None \notin Fds
ASSUME MaxFdAssumption == MaxFd \in Nat

Events == {"read", "write"}

VARIABLES
  table,     \* fd_table
  number,    \* per fdevent: fd while FDE_ACTIVE, or None
  wanted,    \* per fdevent: the event bits of state
  got,       \* per fdevent: events, what select() reported
  pending,   \* per fdevent: FDE_PENDING
  plist,     \* list_pending
  watched,   \* per descriptor: read_fds and write_fds
  selectN,   \* select_n
  result,    \* per descriptor: what the last select() left in its sets
  phase,     \* where main is in fdevent_loop(); "aborted" after FATAL("missing fde")
  running,   \* the fdevent whose callback runs, and what it was called with
  args,
  open,      \* external: the descriptors that are open
  ready      \* external: per descriptor, what would not block

fdeVars == <<table, number, wanted, got, pending, plist, watched, selectN>>
loopVars == <<result, phase, running, args>>
kernelVars == <<open, ready>>
vars == <<fdeVars, loopVars, kernelVars>>

Init ==
  /\ table = [fd \in Fds |-> None]
  /\ number = [f \in Fdes |-> None]
  /\ wanted = [f \in Fdes |-> {}]
  /\ got = [f \in Fdes |-> {}]
  /\ pending = [f \in Fdes |-> FALSE]
  /\ plist = << >>
  /\ watched = [fd \in Fds |-> {}]
  /\ selectN = 0
  /\ result = [fd \in Fds |-> {}]
  /\ phase = "callback" /\ running = None /\ args = {}
  /\ open = {}
  /\ ready = [fd \in Fds |-> {}]

-----------------------------------------------------------------------------
(* What a callback, or the start of the server, does to fdevents. *)

InCallback == phase = "callback"
Installed == {f \in Fdes : number[f] # None}

(* fdevent_connect: select_n covers the descriptor. *)
Connected(fd) == IF fd >= selectN THEN fd + 1 ELSE selectN

(* fdevent_register: the entry of the table, below fd_table_max. *)
Register(f, fd) ==
  /\ table' = [table EXCEPT ![fd] = f]
  /\ number' = [number EXCEPT ![f] = fd]

(* fdevent_install of a descriptor the caller has just opened.  A number     *)
(* that was closed behind the loop's back is not given out while its         *)
(* fdevent is still there.                                                   *)
Install(f, fd) ==
  /\ InCallback
  /\ f \notin Installed /\ fd \notin open /\ table[fd] = None
  /\ open' = open \cup {fd}
  /\ Register(f, fd)
  /\ selectN' = Connected(fd)
  /\ UNCHANGED <<wanted, got, pending, plist, watched, loopVars, ready>>

(* Mutant of Update: the sets given to select() are forgotten. *)
UpdateStateOnly(f, events) ==
  /\ wanted' = [wanted EXCEPT ![f] = events]
  /\ UNCHANGED watched

(* fdevent_update: the event bits and the sets given to select(). *)
Update(f, events) ==
  /\ wanted' = [wanted EXCEPT ![f] = events]
  /\ watched' = [watched EXCEPT ![number[f]] = events]

Unlisted(f) == SelectSeq(plist, LAMBDA g : g # f)

(* fdevent_set, called through fdevent_add and fdevent_del.  Of an fdevent   *)
(* that is pending the events now asked for are dropped.                     *)
Set(f, events) ==
  /\ f \in Installed /\ wanted[f] # events
  /\ Update(f, events)
  /\ LET left == got[f] \ events
         drop == pending[f] /\ left = {}
     IN /\ got' = [got EXCEPT ![f] = IF pending[f] THEN left ELSE @]
        /\ pending' = [pending EXCEPT ![f] = @ /\ ~drop]
        /\ plist' = IF drop THEN Unlisted(f) ELSE plist
  /\ UNCHANGED <<table, number, selectN>>

FdeventSet(f, events) == InCallback /\ Set(f, events) /\ UNCHANGED <<loopVars, kernelVars>>

(* fdevent_disconnect: select_n follows the largest number in the table, in  *)
(* which the one that is being removed still is.                             *)
Disconnect(fd) ==
  LET used == {i \in 0 .. selectN - 1 : table[i] # None}
  IN /\ watched' = [watched EXCEPT ![fd] = {}]
     /\ \E n \in used : (\A i \in used : i <= n) /\ selectN' = n + 1

(* fdevent_unregister: out of the table, and the descriptor is closed. *)
Unregister(f, fd) ==
  /\ table[fd] = f
  /\ table' = [table EXCEPT ![fd] = None]
  /\ number' = [number EXCEPT ![f] = None]
  /\ open' = open \ {fd}
  /\ ready' = [ready EXCEPT ![fd] = {}]

RemoveWith(f, list) ==
  /\ f \in Installed
  /\ plist' = list
  /\ pending' = [pending EXCEPT ![f] = FALSE]
  /\ Disconnect(number[f])
  /\ Unregister(f, number[f])
  /\ wanted' = [wanted EXCEPT ![f] = {}]
  /\ got' = [got EXCEPT ![f] = {}]

(* Mutant of Remove: the fdevent stays on the pending list. *)
RemoveKeepsListed(f) == RemoveWith(f, plist)

(* fdevent_remove: off the pending list, out of the sets and the table. *)
Remove(f) == RemoveWith(f, IF pending[f] THEN Unlisted(f) ELSE plist)

FdeventRemove(f) == InCallback /\ Remove(f) /\ UNCHANGED loopVars

-----------------------------------------------------------------------------
(* fdevent_loop. *)

Watches == {fd \in Fds : fd < selectN /\ watched[fd] # {}}

(* fdevent_process up to the scan: select() returns what is ready.  A        *)
(* watched descriptor that is not open makes it fail with EBADF, and then    *)
(* fdevent_fd_check reports the registered ones that are not open as         *)
(* readable.                                                                 *)
Select ==
  /\ phase = "select"
  /\ \/ /\ Watches \subseteq open
        /\ \E fd \in Watches : watched[fd] \cap ready[fd] # {}
        /\ result' = [fd \in Fds |-> IF fd \in Watches THEN watched[fd] \cap ready[fd] ELSE {}]
     \/ /\ ~(Watches \subseteq open)
        /\ result' = [fd \in Fds |-> IF fd < selectN /\ table[fd] # None /\ fd \notin open
                                     THEN {"read"} ELSE {}]
  /\ phase' = "scan"
  /\ UNCHANGED <<fdeVars, running, args, kernelVars>>

(* The scan: fdevents that are reported and not yet pending join the list    *)
(* in the order of their descriptors.                                        *)
ScanOf(hit) ==
  /\ phase = "scan"
  /\ LET news == SelectSeq([i \in 1 .. MaxFd + 1 |-> i - 1],
                           LAMBDA fd : fd \in hit /\ ~pending[table[fd]])
         owners == {table[fd] : fd \in hit}
     IN IF None \in owners
        THEN phase' = "aborted" /\ UNCHANGED fdeVars
        ELSE /\ got' = [f \in Fdes |-> IF f \in owners THEN got[f] \cup result[number[f]]
                                       ELSE got[f]]
             /\ pending' = [f \in Fdes |-> pending[f] \/ f \in owners]
             /\ plist' = plist \o [i \in 1 .. Len(news) |-> table[news[i]]]
             /\ phase' = "dispatch"
             /\ UNCHANGED <<table, number, wanted, watched, selectN>>
  /\ UNCHANGED <<result, running, args, kernelVars>>

(* Mutant of Scan: stops at the first descriptor that is reported. *)
ScanFirst ==
  ScanOf({fd \in 0 .. selectN - 1 : result[fd] # {} /\ \A i \in 0 .. fd - 1 : result[i] = {}})

Scan == ScanOf({fd \in 0 .. selectN - 1 : result[fd] # {}})

(* fdevent_plist_dequeue and fdevent_call_fdfunc. *)
Dispatch ==
  /\ phase = "dispatch" /\ plist # << >>
  /\ LET f == Head(plist)
     IN /\ running' = f /\ args' = got[f]
        /\ got' = [got EXCEPT ![f] = {}]
        /\ pending' = [pending EXCEPT ![f] = FALSE]
  /\ plist' = Tail(plist)
  /\ phase' = "callback"
  /\ UNCHANGED <<table, number, wanted, watched, selectN, result, kernelVars>>

(* The callback returns to the loop over the pending list. *)
Return ==
  /\ InCallback
  /\ phase' = "dispatch"
  /\ running' = None /\ args' = {}
  /\ UNCHANGED <<fdeVars, result, kernelVars>>

(* Nothing is pending: select() is next. *)
EndBatch ==
  /\ phase = "dispatch" /\ plist = << >>
  /\ phase' = "select"
  /\ UNCHANGED <<fdeVars, result, running, args, kernelVars>>

(* close_all_sockets() in the input thread of a transport removes the        *)
(* fdevent of a client's socket, wherever main is.                           *)
ThreadRemove(f) ==
  /\ f \in Shared
  /\ Remove(f)
  /\ UNCHANGED loopVars

-----------------------------------------------------------------------------
(* External: data arrives or is taken, buffers fill or drain, and another    *)
(* part of the program closes a number it does not own.                      *)
KernelChange(fd) ==
  /\ fd \in open
  /\ \E e \in SUBSET Events : e # ready[fd] /\ ready' = [ready EXCEPT ![fd] = e]
  /\ UNCHANGED <<fdeVars, loopVars, open>>

CloseBehind(fd) ==
  /\ fd \in open
  /\ open' = open \ {fd}
  /\ ready' = [ready EXCEPT ![fd] = {}]
  /\ UNCHANGED <<fdeVars, loopVars>>

Loop == Select \/ Scan \/ Dispatch \/ Return \/ EndBatch

Next ==
  \/ Loop
  \/ \E f \in Fdes :
       \/ FdeventRemove(f)
       \/ \E fd \in Fds : Install(f, fd)
       \/ \E events \in SUBSET Events : FdeventSet(f, events)
  \/ \E fd \in Fds : KernelChange(fd) \/ CloseBehind(fd)

Spec == Init /\ [][Next]_vars

(* With the input thread of a transport beside main. *)
SharedSpec == Init /\ [][Next \/ \E f \in Shared : ThreadRemove(f)]_vars

(* Main runs, and every callback returns. *)
FairSpec == Spec /\ WF_vars(Loop)

-----------------------------------------------------------------------------
(* Properties. *)

(* The types of the state. *)
TypeOK ==
  /\ table \in [Fds -> Fdes \cup {None}] /\ number \in [Fdes -> Fds \cup {None}]
  /\ wanted \in [Fdes -> SUBSET Events] /\ got \in [Fdes -> SUBSET Events]
  /\ pending \in [Fdes -> BOOLEAN] /\ plist \in Seq(Fdes)
  /\ watched \in [Fds -> SUBSET Events] /\ selectN \in 0 .. MaxFd + 1
  /\ result \in [Fds -> SUBSET Events]
  /\ phase \in {"select", "scan", "dispatch", "callback", "aborted"}
  /\ running \in Fdes \cup {None} /\ args \in SUBSET Events
  /\ open \in SUBSET Fds /\ ready \in [Fds -> SUBSET Events]

(* The table, the fdevents and the sets given to select() agree, and every   *)
(* registered descriptor is within select_n, so that none is forgotten and   *)
(* no set bit is without an fdevent, whatever callbacks install and remove   *)
(* ("fd_table out of sync" and "missing fde" in fdevent.c).                  *)
TableMatches ==
  /\ \A f \in Installed : table[number[f]] = f /\ watched[number[f]] = wanted[f]
                          /\ number[f] < selectN
  /\ \A fd \in Fds : table[fd] = None => watched[fd] = {}
  /\ \A fd \in Fds : table[fd] # None => table[fd] \in Installed /\ number[table[fd]] = fd

(* The pending list holds each fdevent with FDE_PENDING once, each installed *)
(* and with something to report: no callback of a removed fdevent, none with *)
(* no events (fdevent_plist_enqueue, _remove, _dequeue).                     *)
PendingMatches ==
  /\ \A i, j \in 1 .. Len(plist) : plist[i] = plist[j] => i = j
  /\ \A f \in Fdes : pending[f] <=> \E i \in 1 .. Len(plist) : plist[i] = f
  /\ \A f \in Fdes : pending[f] => f \in Installed /\ got[f] # {}
  /\ \A f \in Fdes : ~pending[f] => got[f] = {}

(* "missing fde for fd" (fdevent.c): select() reports a descriptor only      *)
(* while it is registered.                                                   *)
NoMissingFde == phase # "aborted"

(* "if we're pending, make sure we don't signal an event that is no longer   *)
(* wanted" (fdevent_set): when its callback starts, an fdevent still asks    *)
(* for what it is told.                                                      *)
OnlyWanted ==
  [][phase = "dispatch" /\ phase' = "callback" /\ number[running'] \in open
       => args' \subseteq wanted[running']]_vars

(* An fdevent whose wishes no longer change, with something to report for    *)
(* ever, is called again and again, although fdevent_set() may drop what it  *)
(* was pending for; as long as no descriptor is closed behind the loop.      *)
ReadyIsServed ==
  \A f \in Fdes : \A w \in SUBSET Events :
    <>[](/\ f \in Installed /\ wanted[f] = w
         /\ w \cap ready[number[f]] # {}
         /\ \A g \in Installed : number[g] \in open)
      => []<>(running = f)
=============================================================================
