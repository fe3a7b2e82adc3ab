--------------------------- MODULE FdeventTables ----------------------------
(***************************************************************************)
(* Proofs about Fdevent, for any fdevents and any number of descriptors:   *)
(* the table, the fdevents and the sets given to select() agree, and, as   *)
(* long as only the thread of the loop removes fdevents, every descriptor  *)
(* that select() reports has one.                                          *)
(***************************************************************************)
EXTENDS Fdevent, TLAPS

(* The types of what the proof speaks of. *)
TableTypes ==
  /\ table \in [Fds -> Fdes \cup {None}] /\ number \in [Fdes -> Fds \cup {None}]
  /\ wanted \in [Fdes -> SUBSET Events] /\ watched \in [Fds -> SUBSET Events]
  /\ selectN \in 0 .. MaxFd + 1

(* Between select() and the scan, what was reported is in the table. *)
ReportedIsRegistered ==
  phase = "scan" => \A fd \in Fds : result[fd] # {} => table[fd] # None

(* An fdevent that is not installed asks for nothing: fdevent_remove()       *)
(* clears its state, and the next fdevent_install() does not touch the sets. *)
IdleAsksNothing == \A f \in Fdes : number[f] = None => wanted[f] = {}

(* What the tables are, without the loop. *)
Agree == TableTypes /\ TableMatches /\ IdleAsksNothing

(* The inductive invariant. *)
TableInv == Agree /\ ReportedIsRegistered /\ NoMissingFde

(* The variables of Agree. *)
tables == <<table, number, wanted, watched, selectN>>

(* fdevent_init: nothing is registered and nothing is watched. *)
LEMMA TablesInit == Init => TableInv
<1> SUFFICES ASSUME Init PROVE TableInv
  OBVIOUS
<1>1. TableTypes
  BY MaxFdAssumption DEF Init, TableTypes, Fds
<1>2. TableMatches /\ IdleAsksNothing
  BY DEF Init, TableMatches, IdleAsksNothing, Installed
<1>3. ReportedIsRegistered /\ NoMissingFde
  BY DEF Init, ReportedIsRegistered, NoMissingFde
<1> QED
  BY <1>1, <1>2, <1>3 DEF TableInv, Agree

(* A step that leaves the tables alone leaves them in agreement. *)
LEMMA TablesKept ==
  ASSUME Agree, UNCHANGED tables
  PROVE  Agree'
BY DEF Agree, TableTypes, TableMatches, IdleAsksNothing, Installed, tables

(* fdevent_install: the descriptor was free, and comes within select_n. *)
LEMMA TablesInstall ==
  ASSUME Agree, NEW f \in Fdes, NEW fd \in Fds, Install(f, fd)
  PROVE  Agree'
<1> USE FdesAssumption, MaxFdAssumption DEF Fds
<1>1. /\ table[fd] = None /\ number[f] = None
      /\ table' = [table EXCEPT ![fd] = f] /\ number' = [number EXCEPT ![f] = fd]
      /\ selectN' = (IF fd >= selectN THEN fd + 1 ELSE selectN)
      /\ UNCHANGED <<wanted, watched>>
  BY DEF Install, Register, Connected, Installed
<1>2. TableTypes'
  BY <1>1 DEF Agree, TableTypes
<1>3. \A g \in Fdes : number'[g] # None =>
        /\ table'[number'[g]] = g /\ watched'[number'[g]] = wanted'[g]
        /\ number'[g] < selectN'
  <2> SUFFICES ASSUME NEW g \in Fdes, number'[g] # None
               PROVE  /\ table'[number'[g]] = g /\ watched'[number'[g]] = wanted'[g]
                      /\ number'[g] < selectN'
    OBVIOUS
  <2>1. CASE g = f
    <3>1. number'[g] = fd /\ table'[fd] = f
      BY <1>1, <2>1 DEF Agree, TableTypes
    <3>2. watched[fd] = {} /\ wanted[f] = {}
      BY <1>1 DEF Agree, TableMatches, IdleAsksNothing
    <3>3. fd < selectN'
      BY <1>1 DEF Agree, TableTypes
    <3> QED
      BY <1>1, <2>1, <3>1, <3>2, <3>3
  <2>2. CASE g # f
    BY <1>1, <2>2 DEF Agree, TableTypes, TableMatches, Installed
  <2> QED
    BY <2>1, <2>2
<1>4. \A i \in Fds : /\ table'[i] = None => watched'[i] = {}
                     /\ table'[i] # None => /\ table'[i] \in Fdes /\ number'[table'[i]] = i
                                            /\ number'[table'[i]] # None
  BY <1>1 DEF Agree, TableTypes, TableMatches, Installed
<1>5. IdleAsksNothing'
  BY <1>1 DEF Agree, TableTypes, IdleAsksNothing
<1> QED
  BY <1>2, <1>3, <1>4, <1>5 DEF Agree, TableMatches, Installed

(* fdevent_set: the state of the fdevent and the sets change together. *)
LEMMA TablesSet ==
  ASSUME Agree, NEW f \in Fdes, NEW events \in SUBSET Events, FdeventSet(f, events)
  PROVE  Agree'
<1> USE FdesAssumption, MaxFdAssumption
<1>1. /\ number[f] # None /\ number[f] \in Fds
      /\ wanted' = [wanted EXCEPT ![f] = events]
      /\ watched' = [watched EXCEPT ![number[f]] = events]
      /\ UNCHANGED <<table, number, selectN>>
  BY DEF FdeventSet, Set, Update, Installed, Agree, TableTypes
<1>2. TableTypes'
  BY <1>1 DEF Agree, TableTypes
<1>3. TableMatches'
  BY <1>1 DEF Agree, TableTypes, TableMatches, Installed
<1>4. IdleAsksNothing'
  BY <1>1 DEF Agree, TableTypes, IdleAsksNothing
<1> QED
  BY <1>2, <1>3, <1>4 DEF Agree

(* fdevent_remove: select_n covers the removed descriptor, and so all that   *)
(* are left.                                                                 *)
LEMMA TablesRemove ==
  ASSUME Agree, NEW f \in Fdes, Remove(f)
  PROVE  Agree'
<1> USE FdesAssumption, MaxFdAssumption
<1> DEFINE fd == number[f]
           used == {i \in 0 .. selectN - 1 : table[i] # None}
<1>1. /\ fd # None /\ fd \in Fds /\ table[fd] = f
      /\ table' = [table EXCEPT ![fd] = None] /\ number' = [number EXCEPT ![f] = None]
      /\ wanted' = [wanted EXCEPT ![f] = {}] /\ watched' = [watched EXCEPT ![fd] = {}]
  BY DEF Remove, RemoveWith, Disconnect, Unregister, Installed, Agree, TableTypes
<1>2. PICK n \in used : (\A i \in used : i <= n) /\ selectN' = n + 1
  BY DEF Remove, RemoveWith, Disconnect
<1>3. TableTypes'
  BY <1>1, <1>2 DEF Agree, TableTypes, Fds
<1>4. \A g \in Fdes : number'[g] # None =>
        /\ table'[number'[g]] = g /\ watched'[number'[g]] = wanted'[g]
        /\ number'[g] < selectN'
  <2> SUFFICES ASSUME NEW g \in Fdes, number'[g] # None
               PROVE  /\ table'[number'[g]] = g /\ watched'[number'[g]] = wanted'[g]
                      /\ number'[g] < selectN'
    OBVIOUS
  <2>1. g # f /\ number'[g] = number[g] /\ number[g] # fd /\ number[g] \in Fds
    BY <1>1 DEF Agree, TableTypes, TableMatches, Installed
  <2>2. table'[number'[g]] = g /\ watched'[number'[g]] = wanted'[g]
    BY <1>1, <2>1 DEF Agree, TableTypes, TableMatches, Installed
  <2>3. number[g] \in used
    BY <1>1, <2>1 DEF Agree, TableTypes, TableMatches, Installed, Fds
  <2>4. number'[g] < selectN'
    BY <1>2, <2>1, <2>3 DEF Agree, TableTypes, Fds
  <2> QED
    BY <2>2, <2>4
<1>5. \A i \in Fds : /\ table'[i] = None => watched'[i] = {}
                     /\ table'[i] # None => /\ table'[i] \in Fdes /\ number'[table'[i]] = i
                                            /\ number'[table'[i]] # None
  BY <1>1 DEF Agree, TableTypes, TableMatches, Installed
<1>6. IdleAsksNothing'
  BY <1>1 DEF Agree, TableTypes, IdleAsksNothing
<1> QED
  BY <1>3, <1>4, <1>5, <1>6 DEF Agree, TableMatches, Installed

(* select() reports only what is watched, or is registered and not open; and *)
(* until the scan is over no callback runs.                                  *)
LEMMA ReportedInTable ==
  ASSUME TableInv, Select
  PROVE  ReportedIsRegistered'
<1> SUFFICES ASSUME NEW fd \in Fds, result'[fd] # {}
             PROVE  table'[fd] # None
  BY DEF ReportedIsRegistered
<1>1. table' = table
  BY DEF Select, fdeVars
<1>2. watched[fd] # {} \/ table[fd] # None
  BY DEF Select, Watches
<1> QED
  BY <1>1, <1>2 DEF TableInv, Agree, TableMatches

(* The scan finds an fdevent for every descriptor that was reported. *)
LEMMA ScanFindsAll ==
  ASSUME TableInv, Scan
  PROVE  phase' = "dispatch" /\ UNCHANGED tables
<1> DEFINE hit == {fd \in 0 .. selectN - 1 : result[fd] # {}}
           owners == {table[fd] : fd \in hit}
<1>1. phase = "scan" /\ selectN \in 0 .. MaxFd + 1
  BY DEF Scan, ScanOf, TableInv, Agree, TableTypes
<1>2. hit \subseteq Fds
  BY <1>1, MaxFdAssumption DEF Fds
<1>3. None \notin owners
  BY <1>1, <1>2 DEF TableInv, ReportedIsRegistered
<1> QED
  BY <1>3, Zenon DEF Scan, ScanOf, tables

(* Every step of the loop, of a callback and of the kernel keeps TableInv. *)
LEMMA TablesNext == TableInv /\ [Next]_vars => TableInv'
<1> SUFFICES ASSUME TableInv, [Next]_vars PROVE TableInv'
  OBVIOUS
<1>0. Agree
  BY DEF TableInv
<1> DEFINE Quiet == UNCHANGED tables /\ phase' \in {"select", "dispatch", "callback"}
           Called == phase = "callback" /\ phase' = phase
<1>1. ASSUME Quiet PROVE TableInv'
  BY <1>0, <1>1, TablesKept DEF TableInv, ReportedIsRegistered, NoMissingFde
<1>2. ASSUME Called, Agree' PROVE TableInv'
  BY <1>2 DEF TableInv, ReportedIsRegistered, NoMissingFde
<1>3. CASE Select
  <2>1. UNCHANGED tables /\ phase' = "scan"
    BY <1>3 DEF Select, fdeVars, tables
  <2> QED
    BY <1>0, <1>3, <2>1, TablesKept, ReportedInTable DEF TableInv, NoMissingFde
<1>4. CASE Scan
  BY <1>1, <1>4, ScanFindsAll
<1>5. CASE Dispatch
  BY <1>1, <1>5 DEF Dispatch, tables
<1>6. CASE Return
  BY <1>1, <1>6 DEF Return, fdeVars, tables
<1>7. CASE EndBatch
  BY <1>1, <1>7 DEF EndBatch, fdeVars, tables
<1>8. ASSUME NEW f \in Fdes, FdeventRemove(f) PROVE TableInv'
  <2>1. Called /\ Remove(f)
    BY <1>8 DEF FdeventRemove, InCallback, loopVars
  <2> QED
    BY <1>0, <1>2, <2>1, TablesRemove
<1>9. ASSUME NEW f \in Fdes, NEW fd \in Fds, Install(f, fd) PROVE TableInv'
  <2>1. Called
    BY <1>9 DEF Install, InCallback, loopVars
  <2> QED
    BY <1>0, <1>2, <1>9, <2>1, TablesInstall
<1>10. ASSUME NEW f \in Fdes, NEW events \in SUBSET Events, FdeventSet(f, events)
       PROVE  TableInv'
  <2>1. Called
    BY <1>10 DEF FdeventSet, InCallback, loopVars
  <2> QED
    BY <1>0, <1>2, <1>10, <2>1, TablesSet
<1>11. CASE \/ \E fd \in Fds : KernelChange(fd) \/ CloseBehind(fd)
            \/ UNCHANGED vars
  <2>1. UNCHANGED <<tables, phase, result>>
    BY <1>11 DEF KernelChange, CloseBehind, vars, fdeVars, loopVars, tables
  <2>2. Agree'
    BY <1>0, <2>1, TablesKept
  <2> QED
    BY <2>1, <2>2 DEF TableInv, ReportedIsRegistered, NoMissingFde, tables
<1> QED
  BY <1>3, <1>4, <1>5, <1>6, <1>7, <1>8, <1>9, <1>10, <1>11 DEF Next, Loop

(* Whatever callbacks install, change and remove, the table, the fdevents    *)
(* and the sets given to select() agree.                                     *)
THEOREM TablesAgree == Spec => []TableMatches
<1>1. TableInv => TableMatches
  BY DEF TableInv, Agree
<1> QED
  BY <1>1, TablesInit, TablesNext, PTL DEF Spec

(* The server does not abort with "missing fde for fd" (fdevent.c) as long   *)
(* as fdevents are removed by the thread of the loop alone.                  *)
THEOREM NeverMissing == Spec => []NoMissingFde
<1>1. TableInv => NoMissingFde
  BY DEF TableInv
<1> QED
  BY <1>1, TablesInit, TablesNext, PTL DEF Spec
=============================================================================
