--------------------------- MODULE UsbLinuxProofs ---------------------------
(***************************************************************************)
(* Proofs about UsbLinux, for any set of handles: a handle is used only    *)
(* while it is there, a URB is not submitted twice, and a write that is    *)
(* reported was taken.                                                     *)
(***************************************************************************)
EXTENDS UsbLinux, TLAPS

(* The queue of completed URBs holds urb_out at most once. *)
HasOut(q) == \E i \in 1 .. Len(q) : q[i] = "out"
OnceOut(q) == \A i, j \in 1 .. Len(q) : q[i] = "out" /\ q[j] = "out" => i = j

(* A thread holds a reference until its transport_unref(). *)
Holds(h, th) == IF pc[h][th] \in {"none", "close", "done"} THEN 0 ELSE 1

(* A handle is on the list as long as it is there; its threads start       *)
(* together and hold the references; the one that closes is the last.      *)
Living(h) ==
  /\ mem[h] = "live" <=> h \in listed
  /\ mem[h] = "none" => pc[h]["out"] = "none"
  /\ pc[h]["out"] = "none" <=> pc[h]["in"] = "none"
  /\ refs[h] = Holds(h, "out") + Holds(h, "in")
  /\ pc[h]["out"] = "close" => pc[h]["in"] = "done"
  /\ pc[h]["in"] = "close" => pc[h]["out"] = "done"
  /\ lock[h] = "poll" => poll.pc = "unregister" /\ h \in poll.todo

(* The poll thread walks the list with usb_lock held, and holds the lock   *)
(* of one handle at most.                                                  *)
Polling ==
  /\ poll.pc \in {"kick", "unregister"} => usbLock = "poll" /\ poll.todo \subseteq listed
  /\ \A g, h \in Handles : lock[g] = "poll" /\ lock[h] = "poll" => g = h

Alive == Polling /\ \A h \in Handles : Living(h)

(* urb_in is idle when the output thread is about to submit it.  Until the *)
(* handle is kicked, urb_out belongs to an input thread that waits: while  *)
(* the kernel has it, while it is to be reaped, and until the output       *)
(* thread has cleared urb_out_busy.                                        *)
UrbOwned(h) ==
  /\ OnceOut(complete[h])
  /\ HasOut(complete[h]) => urbOut[h] \in {"done", "failed"}
  /\ mem[h] = "none" => urbOut[h] = "idle"
  /\ pc[h]["out"] \in {"none", "read"} => urbIn[h] = "idle"
  /\ pc[h]["out"] = "reaped" /\ reaped[h] = "in" => urbIn[h] = "idle"
  /\ ~dead[h] /\ urbOut[h] # "idle" => pc[h]["in"] = "wait" /\ busyOut[h]
  /\ ~dead[h] /\ pc[h]["out"] = "reaped" /\ reaped[h] = "out" =>
       pc[h]["in"] = "wait" /\ busyOut[h] /\ urbOut[h] = "idle"

(* A status of success, in the URB or as it was reaped, is of a write that *)
(* the device took; it is wiped before the URB is submitted again.         *)
StatusTrue(h) ==
  /\ urbOut[h] = "done" => taken[h]
  /\ wstatus[h] = "done" => taken[h] /\ urbOut[h] # "flight"
  /\ result[h] = "ok" /\ kind[h] = "data" => taken[h] /\ urbOut[h] # "flight"

UsbInv ==
  /\ TypeOK /\ Alive
  /\ \A h \in Handles : UrbOwned(h) /\ StatusTrue(h)

-----------------------------------------------------------------------------
(* Queues and program counters. *)

\* URBs are completed at the end of the queue.
LEMMA AppendQueue ==
    ASSUME NEW q \in Seq(Threads), NEW u \in Threads
    PROVE  /\ Append(q, u) \in Seq(Threads)
           /\ HasOut(Append(q, u)) <=> HasOut(q) \/ u = "out"
           /\ OnceOut(q) /\ (u = "out" => ~HasOut(q)) => OnceOut(Append(q, u))
<1>1. /\ Append(q, u) \in Seq(Threads) /\ Len(q) \in Nat /\ Len(Append(q, u)) = Len(q) + 1
      /\ \A i \in 1 .. Len(q) : Append(q, u)[i] = q[i]
      /\ Append(q, u)[Len(q) + 1] = u
  OBVIOUS
<1> QED  BY <1>1 DEF HasOut, OnceOut

\* REAPURB takes the URB at the head; once urb_out is taken no other is there.
LEMMA TailQueue ==
    ASSUME NEW q \in Seq(Threads), q # << >>, OnceOut(q)
    PROVE  /\ Tail(q) \in Seq(Threads) /\ OnceOut(Tail(q))
           /\ HasOut(Tail(q)) => HasOut(q) /\ Head(q) # "out"
           /\ Head(q) = "out" => HasOut(q)
<1>1. /\ Tail(q) \in Seq(Threads) /\ Len(q) \in Nat /\ Len(q) > 0
      /\ Len(Tail(q)) = Len(q) - 1 /\ Head(q) = q[1]
      /\ \A i \in 1 .. Len(q) - 1 : Tail(q)[i] = q[i + 1]
  OBVIOUS
<1> QED  BY <1>1 DEF HasOut, OnceOut

\* Discarding completes what is in flight, urb_in first.
LEMMA DiscardQueue ==
    ASSUME UrbType, NEW h \in Handles, Discard(h)
    PROVE  /\ complete' \in [Handles -> Seq(Threads)]
           /\ urbIn' \in [Handles -> {"idle", "flight", "done", "failed"}]
           /\ urbOut' \in [Handles -> {"idle", "flight", "done", "failed"}]
           /\ HasOut(complete'[h]) <=> HasOut(complete[h]) \/ urbOut[h] = "flight"
           /\ OnceOut(complete[h]) /\ (urbOut[h] = "flight" => ~HasOut(complete[h]))
                => OnceOut(complete'[h])
<1> DEFINE q == complete[h]
           r == IF urbIn[h] = "flight" THEN Append(q, "in") ELSE q
           s == IF urbOut[h] = "flight" THEN Append(r, "out") ELSE r
<1>1. q \in Seq(Threads)
  BY DEF UrbType
<1>2. /\ r \in Seq(Threads) /\ (HasOut(r) <=> HasOut(q)) /\ (OnceOut(q) => OnceOut(r))
  BY <1>1, AppendQueue DEF Threads
<1>3. /\ s \in Seq(Threads) /\ (HasOut(s) <=> HasOut(q) \/ urbOut[h] = "flight")
      /\ OnceOut(q) /\ (urbOut[h] = "flight" => ~HasOut(q)) => OnceOut(s)
  BY <1>2, AppendQueue, Zenon DEF Threads
<1>4. \A x \in Seq(Threads), u \in Threads : x \o <<u>> = Append(x, u) /\ x \o << >> = x
  OBVIOUS
<1>5. q \o (IF urbIn[h] = "flight" THEN <<"in">> ELSE << >>)
        \o (IF urbOut[h] = "flight" THEN <<"out">> ELSE << >>) = s
  BY <1>1, <1>2, <1>4, Zenon DEF Threads
<1>6. complete' = [complete EXCEPT ![h] = s]
  BY <1>5, Zenon DEF Discard, UrbType
<1>7. complete' \in [Handles -> Seq(Threads)] /\ complete'[h] = s
  BY <1>3, <1>6 DEF UrbType
<1>8. /\ urbIn' \in [Handles -> {"idle", "flight", "done", "failed"}]
      /\ urbOut' \in [Handles -> {"idle", "flight", "done", "failed"}]
  BY Zenon DEF Discard, UrbType
<1> QED  BY <1>3, <1>7, <1>8 DEF UrbType

\* A step of one thread.
LEMMA ToKeeps ==
    ASSUME ThreadType, NEW h \in Handles, NEW th \in Threads, NEW l \in Labels, To(h, th, l)
    PROVE  /\ pc' \in [Handles -> [Threads -> Labels]]
           /\ pc'[h][th] = l
           /\ \A g \in Handles, u \in Threads : g # h \/ u # th => pc'[g][u] = pc[g][u]
BY DEF ThreadType, To

\* usb_kick() on a handle that is not dead yet.
LEMMA KickKeeps ==
    ASSUME TypeOK, NEW h \in Handles, Kick(h)
    PROVE  /\ dead' = [dead EXCEPT ![h] = TRUE] /\ UrbType'
           /\ wstatus' = [wstatus EXCEPT ![h] = "failed"]
           /\ notified' = [notified EXCEPT ![h] = TRUE]
<1>1. UrbType
  BY DEF TypeOK
<1>2. /\ complete' \in [Handles -> Seq(Threads)]
      /\ urbIn' \in [Handles -> {"idle", "flight", "done", "failed"}]
      /\ urbOut' \in [Handles -> {"idle", "flight", "done", "failed"}]
  BY <1>1, DiscardQueue DEF Kick
<1>3. /\ signal' \in [Handles -> BOOLEAN] /\ busyOut' \in [Handles -> BOOLEAN]
      /\ reaper' = reaper /\ reaped' = reaped
  BY <1>1 DEF Kick, UrbType
<1> QED  BY <1>1, <1>2, <1>3 DEF Kick, UrbType

-----------------------------------------------------------------------------
(* The types. *)

\* The poll thread keeps the types of the state.
LEMMA PollTypes == ASSUME TypeOK, Poll PROVE TypeOK'
<1> USE DEF TypeOK
<1>1. CASE PollScan \/ PollKickStart \/ PollSleep
  BY <1>1 DEF PollScan, PollKickStart, PollSleep, handleVars, urbVars, writeVars, refVars,
     lockVars, HandleType, UrbType, WriteType, ThreadType, LockType
<1>2. ASSUME NEW h \in Handles, PollKnown(h) \/ PollSkip(h) \/ PollUnmark(h) PROVE TypeOK'
  <2>0. /\ UNCHANGED <<dev, mem, writeable, dead, listed, unlinked>>
        /\ \/ mark' = mark
           \/ mark' = [mark EXCEPT ![h] = TRUE]
           \/ mark' = [mark EXCEPT ![h] = FALSE]
    BY <1>2, Zenon DEF PollKnown, PollSkip, PollUnmark, handleVars
  <2>1. HandleType'
    BY <2>0, Zenon DEF HandleType
  <2>3. LockType'
    BY <1>2 DEF PollKnown, PollSkip, PollUnmark, lockVars, LockType
  <2>2. UrbType' /\ WriteType' /\ ThreadType'
    BY <1>2 DEF PollKnown, PollSkip, PollUnmark, urbVars, writeVars, refVars, UrbType,
       WriteType, ThreadType
  <2> QED  BY <2>1, <2>2, <2>3
<1>3. ASSUME NEW h \in Handles, PollRegister(h) PROVE TypeOK'
  <2>1. HandleType' /\ LockType'
    BY <1>3, Zenon DEF PollRegister, lockVars, HandleType, LockType
  <2>2. UrbType' /\ WriteType' /\ ThreadType'
    BY <1>3, Zenon DEF PollRegister, urbVars, writeVars, UrbType, WriteType, ThreadType
  <2> QED  BY <2>1, <2>2
<1>4. ASSUME NEW h \in Handles, PollKick(h) PROVE TypeOK'
  <2>1. UrbType' /\ dead' \in [Handles -> BOOLEAN]
        /\ wstatus' \in [Handles -> {"none", "done", "failed"}]
        /\ notified' \in [Handles -> BOOLEAN]
    <3>1. CASE dead[h]
      BY <1>4, <3>1 DEF PollKick, NoKick, urbVars, HandleType, UrbType, WriteType
    <3>2. CASE ~dead[h]
      <4>1. Kick(h)
        BY <1>4, <3>2 DEF PollKick
      <4>2. /\ dead' = [dead EXCEPT ![h] = TRUE] /\ UrbType'
            /\ wstatus' = [wstatus EXCEPT ![h] = "failed"]
            /\ notified' = [notified EXCEPT ![h] = TRUE]
        BY <4>1, KickKeeps
      <4> QED  BY <4>2 DEF HandleType, WriteType
    <3> QED  BY <3>1, <3>2
  <2>2. HandleType' /\ WriteType'
    BY <1>4, <2>1 DEF PollKick, HandleType, WriteType
  <2>3. ThreadType' /\ LockType'
    BY <1>4 DEF PollKick, refVars, lockVars, ThreadType, LockType
  <2> QED  BY <2>1, <2>2, <2>3
<1>5. ASSUME NEW h \in Handles, PollKickReadOnly(h) \/ PollUnregister(h) PROVE TypeOK'
  <2>1. HandleType'
    BY <1>5, Zenon DEF PollKickReadOnly, PollUnregister, HandleType
  <2>2. LockType'
    <3>1. CASE PollKickReadOnly(h)
      BY <3>1 DEF PollKickReadOnly, LockType
    <3>2. CASE PollUnregister(h)
      BY <3>2 DEF PollUnregister, LockType
    <3> QED  BY <1>5, <3>1, <3>2
  <2>3. UrbType' /\ WriteType' /\ ThreadType'
    BY <1>5 DEF PollKickReadOnly, PollUnregister, urbVars, writeVars, refVars, UrbType,
       WriteType, ThreadType
  <2> QED  BY <2>1, <2>2, <2>3
<1> QED  BY <1>1, <1>2, <1>3, <1>4, <1>5 DEF Poll

\* So do the two threads of a transport.
LEMMA ThreadTypes ==
    ASSUME TypeOK, NEW h \in Handles, UrbOwned(h),
           StartThreads(h) \/ Outputs(h) \/ Inputs(h) \/ WriterStops(h)
    PROVE  TypeOK'
<1> USE DEF TypeOK, Threads, Labels
<1>1. CASE StartThreads(h)
  <2>1. ThreadType'
    BY <1>1 DEF StartThreads, ThreadType
  <2> QED  BY <1>1, <2>1, Zenon
              DEF StartThreads, handleVars, urbVars, writeVars, lockVars, HandleType,
              UrbType, WriteType, LockType
<1>2. CASE ReadSubmit(h)
  <2>1. ThreadType'
    BY <1>2, ToKeeps, Zenon DEF ReadSubmit, refVars, ThreadType
  <2>2. UrbType'
    BY <1>2, Zenon DEF ReadSubmit, urbVars, UrbType
  <2> QED  BY <1>2, <2>1, <2>2, Zenon DEF ReadSubmit, handleVars, writeVars, lockVars, HandleType,
              WriteType, LockType
<1>3. CASE Reap(h)
  <2>1. ThreadType'
    BY <1>3, ToKeeps, Zenon DEF Reap, refVars, ThreadType
  <2>2. UrbType' /\ wstatus' \in [Handles -> {"none", "done", "failed"}]
    <3>1. complete[h] \in Seq(Threads) /\ OnceOut(complete[h])
      BY DEF UrbType, UrbOwned
    <3>2. complete[h] # << >> => Tail(complete[h]) \in Seq(Threads)
      BY <3>1, TailQueue
    <3>3. complete[h] # << >> /\ Head(complete[h]) = "out" => urbOut[h] \in {"done", "failed"}
      BY <3>1, TailQueue DEF UrbOwned
    <3>4. complete' \in [Handles -> Seq(Threads)]
      BY <1>3, <3>2, Zenon DEF Reap, UrbType
    <3>5. wstatus' \in [Handles -> {"none", "done", "failed"}]
      BY <1>3, <3>3, Zenon DEF Reap, WriteType
    <3>6. /\ urbIn' \in [Handles -> {"idle", "flight", "done", "failed"}]
          /\ urbOut' \in [Handles -> {"idle", "flight", "done", "failed"}]
      BY <1>3, Zenon DEF Reap, UrbType
    <3>7. /\ reaped' \in [Handles -> {"none", "in", "inFailed", "out", "intr", "error"}]
          /\ signal' \in [Handles -> BOOLEAN]
      BY <1>3, Zenon DEF Reap, UrbType
    <3> QED  BY <1>3, <3>4, <3>5, <3>6, <3>7, Zenon DEF Reap, UrbType
  <2> QED  BY <1>3, <2>1, <2>2, Zenon
              DEF Reap, handleVars, lockVars, HandleType, WriteType, LockType
<1>4. CASE AfterReap(h)
  <2>1. ThreadType'
    BY <1>4, ToKeeps, Zenon DEF AfterReap, NextRead, refVars, ThreadType
  <2>2. UrbType' /\ WriteType'
    BY <1>4, Zenon DEF AfterReap, UrbType, WriteType
  <2> QED  BY <1>4, <2>1, <2>2, Zenon DEF AfterReap, handleVars, lockVars, HandleType, LockType
<1>5. CASE WriteSubmit(h)
  <2>1. ThreadType'
    BY <1>5, ToKeeps, Zenon DEF WriteSubmit, refVars, ThreadType
  <2>2. UrbType'
    BY <1>5, Zenon DEF WriteSubmit, urbVars, UrbType
  <2>3. WriteType'
    <3>1. CASE dead[h] \/ dev[h] # "plugged"
      BY <1>5, <3>1, Zenon DEF WriteSubmit, WriteType
    <3>2. CASE ~(dead[h] \/ dev[h] # "plugged")
      <4>1. PICK k \in {"data", "zero"} : kind' = [kind EXCEPT ![h] = k]
        BY <1>5, <3>2, Zenon DEF WriteSubmit
      <4>2. /\ notified' = [notified EXCEPT ![h] = FALSE] /\ late' = [late EXCEPT ![h] = FALSE]
            /\ taken' = [taken EXCEPT ![h] = FALSE] /\ wstatus' = [wstatus EXCEPT ![h] = "none"]
            /\ result' = [result EXCEPT ![h] = "none"]
        BY <1>5, <3>2 DEF WriteSubmit
      <4> QED  BY <4>1, <4>2 DEF WriteType
    <3> QED  BY <3>1, <3>2
  <2> QED  BY <1>5, <2>1, <2>2, <2>3, Zenon
              DEF WriteSubmit, handleVars, lockVars, HandleType, LockType
<1>6. CASE WriteWake(h)
  <2>1. ThreadType'
    BY <1>6, ToKeeps, Zenon DEF WriteWake, WriteEnds, refVars, ThreadType
  <2>2. WriteType'
    BY <1>6, Zenon DEF WriteWake, WriteEnds, WriteType
  <2> QED  BY <1>6, <2>1, <2>2, Zenon
              DEF WriteWake, handleVars, urbVars, lockVars, HandleType, UrbType,
              LockType
<1>7. CASE WriterStops(h)
  <2>1. ThreadType'
    BY <1>7, ToKeeps, Zenon DEF WriterStops, refVars, ThreadType
  <2> QED  BY <1>7, <2>1, Zenon
              DEF WriterStops, handleVars, urbVars, writeVars, lockVars, HandleType,
              UrbType, WriteType, LockType
<1> QED  BY <1>1, <1>2, <1>3, <1>4, <1>5, <1>6, <1>7 DEF Outputs, Inputs

\* So do the ends of the threads, the device, the kernel and the clock.
LEMMA EndTypes ==
    ASSUME TypeOK, NEW h \in Handles, Living(h),
           Environment(h) \/ \E th \in Threads : Ending(h, th)
    PROVE  TypeOK'
<1> USE DEF TypeOK, Labels
<1>1. ASSUME NEW th \in Threads, KickTransport(h, th) PROVE TypeOK'
  <2>1. ThreadType'
    BY <1>1, ToKeeps, Zenon DEF KickTransport, ThreadType
  <2> QED  BY <1>1, <2>1, Zenon
              DEF KickTransport, handleVars, urbVars, writeVars, lockVars, HandleType,
              UrbType, WriteType, LockType
<1>2. ASSUME NEW th \in Threads, UsbKick(h, th) PROVE TypeOK'
  <2>1. UrbType' /\ dead' \in [Handles -> BOOLEAN]
        /\ wstatus' \in [Handles -> {"none", "done", "failed"}]
        /\ notified' \in [Handles -> BOOLEAN]
    <3>1. CASE dead[h]
      BY <1>2, <3>1 DEF UsbKick, NoKick, urbVars, HandleType, UrbType, WriteType
    <3>2. CASE ~dead[h]
      <4>1. Kick(h)
        BY <1>2, <3>2, Zenon DEF UsbKick
      <4>2. /\ dead' = [dead EXCEPT ![h] = TRUE] /\ UrbType'
            /\ wstatus' = [wstatus EXCEPT ![h] = "failed"]
            /\ notified' = [notified EXCEPT ![h] = TRUE]
        BY <4>1, KickKeeps
      <4> QED  BY <4>2 DEF HandleType, WriteType
    <3> QED  BY <3>1, <3>2
  <2>2. HandleType' /\ WriteType'
    BY <1>2, <2>1, Zenon DEF UsbKick, HandleType, WriteType
  <2>3. ThreadType'
    BY <1>2, ToKeeps, Zenon DEF UsbKick, refVars, ThreadType
  <2> QED  BY <1>2, <2>1, <2>2, <2>3 DEF UsbKick, lockVars, LockType
<1>3. ASSUME NEW th \in Threads, Unref(h, th) PROVE TypeOK'
  <2>1. pc[h][th] = "unref" /\ refs[h] - 1 \in 0 .. 2
    BY <1>3 DEF Unref, Living, Holds, Threads
  <2>2. ThreadType'
    BY <1>3, <2>1, ToKeeps, Zenon DEF Unref, ThreadType
  <2>3. LockType'
    BY <1>3 DEF Unref, LockType
  <2> QED  BY <1>3, <2>2, <2>3, Zenon
              DEF Unref, handleVars, urbVars, writeVars, HandleType, UrbType,
              WriteType
<1>4. ASSUME NEW th \in Threads, UsbClose(h, th) PROVE TypeOK'
  <2>1. HandleType' /\ LockType'
    BY <1>4, Zenon DEF UsbClose, Freed, HandleType, LockType
  <2>2. UrbType' /\ WriteType'
    BY <1>4 DEF UsbClose, Freed, UrbType, WriteType
  <2>3. ThreadType'
    BY <1>4 DEF UsbClose, Freed, refVars, ThreadType
  <2> QED  BY <2>1, <2>2, <2>3
<1>5. CASE Plug(h) \/ Unplug(h)
  <2>1. UrbType'
    <3>1. CASE Plug(h)
      BY <3>1 DEF Plug, urbVars, UrbType
    <3>2. CASE Unplug(h)
      BY <3>2, DiscardQueue, Zenon DEF Unplug, UrbType
    <3> QED  BY <1>5, <3>1, <3>2
  <2>2. HandleType' /\ WriteType'
    BY <1>5, Zenon DEF Plug, Unplug, handleVars, writeVars, HandleType, WriteType
  <2> QED  BY <1>5, <2>1, <2>2, Zenon DEF Plug, Unplug, refVars, lockVars, ThreadType, LockType
<1>6. CASE CompleteIn(h) \/ CompleteOut(h)
  <2>1. \A u \in Threads : Append(complete[h], u) \in Seq(Threads)
    BY AppendQueue DEF UrbType
  <2>2. UrbType'
    <3>1. CASE CompleteIn(h)
      BY <2>1, <3>1 DEF CompleteIn, UrbType, Threads
    <3>2. CASE CompleteOut(h)
      BY <2>1, <3>2 DEF CompleteOut, UrbType, Threads
    <3> QED  BY <1>6, <3>1, <3>2
  <2>3. WriteType'
    <3>1. \A s : (s = "done") \in BOOLEAN
      OBVIOUS
    <3> QED  BY <1>6, <3>1, Zenon DEF CompleteIn, CompleteOut, writeVars, WriteType
  <2> QED  BY <1>6, <2>2, <2>3, Zenon
              DEF CompleteIn, CompleteOut, handleVars, refVars, lockVars, HandleType,
              ThreadType, LockType
<1>7. CASE TimerRunsOut(h)
  <2>1. WriteType'
    BY <1>7 DEF TimerRunsOut, WriteType
  <2> QED  BY <1>7, <2>1, Zenon
              DEF TimerRunsOut, handleVars, urbVars, refVars, lockVars, HandleType,
              UrbType, ThreadType, LockType
<1> QED  BY <1>1, <1>2, <1>3, <1>4, <1>5, <1>6, <1>7, Zenon DEF Ending, Environment

-----------------------------------------------------------------------------
(* Handles, references and locks. *)

liveVars == <<mem, listed, pc, refs, poll, usbLock, lock>>

\* What no step touches stays as it was.
LEMMA AliveFrame == ASSUME Alive, UNCHANGED liveVars PROVE Alive'
BY DEF Alive, liveVars, Polling, Living, Holds

\* A thread that goes on without giving up its reference changes nothing of it.
LEMMA ThreadGoesOn ==
    ASSUME TypeOK, Alive, NEW h \in Handles, NEW th \in Threads,
           NEW l \in Labels \ {"none", "close", "done"},
           pc[h][th] \notin {"none", "close", "done"}, To(h, th, l),
           UNCHANGED <<mem, listed, refs, poll, usbLock, lock>>
    PROVE  Alive'
<1>1. /\ pc'[h][th] = l
      /\ \A g \in Handles, u \in Threads : g # h \/ u # th => pc'[g][u] = pc[g][u]
  BY ToKeeps DEF TypeOK
<1>2. ASSUME NEW g \in Handles PROVE Living(g)'
  <2>1. Living(g)
    BY DEF Alive
  <2>2. Holds(g, "out")' = Holds(g, "out") /\ Holds(g, "in")' = Holds(g, "in")
    BY <1>1 DEF Holds, Threads
  <2> QED  BY <1>1, <2>1, <2>2, Zenon DEF Living, Threads
<1> QED  BY <1>2 DEF Alive, Polling

\* The poll thread registers only what is not on the list, and has usb_lock
\* while it works on what is.
LEMMA PollAlive == ASSUME TypeOK, Alive, Poll PROVE Alive'
<1> USE DEF TypeOK
<1>1. ASSUME UNCHANGED <<mem, listed, pc, refs, lock>>,
             \A g \in Handles : lock[g] = "free" \/ (poll'.pc = "unregister" /\ g \in poll'.todo)
      PROVE  \A g \in Handles : Living(g)'
  BY <1>1 DEF Alive, Living, Holds, LockType
<1>2. poll.pc # "unregister" => \A g \in Handles : lock[g] = "free"
  BY DEF Alive, Living, LockType
<1>3. CASE PollScan
  <2>1. Polling'
    BY <1>3 DEF PollScan, lockVars, Alive, Polling
  <2> QED  BY <1>1, <1>2, <1>3, <2>1 DEF PollScan, handleVars, refVars, lockVars, Alive
<1>4. CASE PollKickStart
  <2>1. Polling'
    BY <1>4 DEF PollKickStart, handleVars, Alive, Polling
  <2> QED  BY <1>1, <1>2, <1>4, <2>1 DEF PollKickStart, handleVars, refVars, Alive
<1>5. CASE PollSleep
  <2>1. Polling'
    BY <1>5 DEF PollSleep, handleVars, Alive, Polling
  <2> QED  BY <1>1, <1>2, <1>5, <2>1 DEF PollSleep, handleVars, refVars, Alive
<1>6. ASSUME NEW h \in Handles,
             PollKnown(h) \/ PollSkip(h) \/ PollUnmark(h) \/ PollKick(h)
      PROVE  Alive'
  <2>1. /\ UNCHANGED <<mem, listed, pc, refs, usbLock, lock>> /\ poll.pc \in {"scan", "kick"}
        /\ poll' = [poll EXCEPT !.todo = @ \ {h}]
    BY <1>6, Zenon DEF PollKnown, PollSkip, PollUnmark, PollKick, handleVars, refVars, lockVars
  <2>2. poll'.pc = poll.pc /\ poll'.todo \subseteq poll.todo
    BY <2>1 DEF LockType
  <2>3. Polling'
    BY <2>1, <2>2 DEF Alive, Polling
  <2> QED  BY <1>1, <1>2, <2>1, <2>3 DEF Alive
<1>7. ASSUME NEW h \in Handles, PollRegister(h) PROVE Alive'
  <2>1. Polling'
    BY <1>7 DEF PollRegister, lockVars, Alive, Polling, LockType
  <2>2. ASSUME NEW g \in Handles PROVE Living(g)'
    BY <1>2, <1>7, Zenon DEF PollRegister, lockVars, Alive, Living, Holds, HandleType
  <2> QED  BY <2>1, <2>2 DEF Alive
<1>8. ASSUME NEW h \in Handles, PollKickReadOnly(h) PROVE Alive'
  <2>1. /\ poll'.pc = "unregister" /\ poll'.todo = poll.todo /\ h \in poll.todo
        /\ \A g \in Handles \ {h} : lock'[g] = "free"
    BY <1>2, <1>8 DEF PollKickReadOnly, LockType
  <2>2. Polling'
    BY <1>8, <2>1 DEF PollKickReadOnly, Alive, Polling
  <2>3. ASSUME NEW g \in Handles PROVE Living(g)'
    BY <1>8, <2>1, Zenon DEF PollKickReadOnly, refVars, Alive, Living, Holds
  <2> QED  BY <2>2, <2>3 DEF Alive
<1>9. ASSUME NEW h \in Handles, PollUnregister(h) PROVE Alive'
  <2>1. /\ poll'.pc = "kick" /\ poll'.todo \subseteq poll.todo
        /\ \A g \in Handles : lock'[g] = "free"
    BY <1>9 DEF PollUnregister, LockType, Alive, Polling
  <2>2. Polling'
    BY <1>9, <2>1 DEF PollUnregister, Alive, Polling
  <2>3. ASSUME NEW g \in Handles PROVE Living(g)'
    BY <1>9, <2>1, Zenon DEF PollUnregister, refVars, Alive, Living, Holds
  <2> QED  BY <2>2, <2>3 DEF Alive
<1> QED  BY <1>3, <1>4, <1>5, <1>6, <1>7, <1>8, <1>9 DEF Poll

\* The steps of a transport's threads up to their end.
LEMMA ThreadAlive ==
    ASSUME TypeOK, Alive, NEW h \in Handles,
           StartThreads(h) \/ Outputs(h) \/ Inputs(h) \/ WriterStops(h)
    PROVE  Alive'
<1> USE DEF Threads, Labels
<1>1. CASE StartThreads(h)
  <2>1. /\ pc[h]["out"] = "none" /\ h \in listed /\ refs' = [refs EXCEPT ![h] = 2]
        /\ UNCHANGED <<mem, listed, poll, usbLock, lock>>
    BY <1>1 DEF StartThreads, handleVars, lockVars
  <2>2. /\ pc'[h]["out"] = "read" /\ pc'[h]["in"] = "write"
        /\ \A g \in Handles \ {h} : pc'[g] = pc[g]
    BY <1>1 DEF StartThreads, TypeOK, ThreadType
  <2>3. ASSUME NEW g \in Handles PROVE Living(g)'
    BY <2>1, <2>2 DEF Alive, Living, Holds, TypeOK, ThreadType, HandleType
  <2> QED  BY <2>1, <2>3 DEF Alive, Polling
<1>2. CASE ReadSubmit(h)
  BY <1>2, ThreadGoesOn DEF ReadSubmit, handleVars, refVars, lockVars
<1>3. CASE Reap(h)
  BY <1>3, ThreadGoesOn, Zenon DEF Reap, handleVars, refVars, lockVars
<1>4. CASE AfterReap(h)
  BY <1>4, ThreadGoesOn, Zenon DEF AfterReap, NextRead, handleVars, refVars, lockVars
<1>5. CASE WriteSubmit(h)
  BY <1>5, ThreadGoesOn, AliveFrame, Zenon DEF WriteSubmit, handleVars, refVars, lockVars, liveVars
<1>6. CASE WriteWake(h)
  BY <1>6, ThreadGoesOn, AliveFrame, Zenon DEF WriteWake, WriteEnds, handleVars, refVars, lockVars,
     liveVars
<1>7. CASE WriterStops(h)
  BY <1>7, ThreadGoesOn, Zenon DEF WriterStops, handleVars, refVars, lockVars
<1> QED  BY <1>1, <1>2, <1>3, <1>4, <1>5, <1>6, <1>7 DEF Outputs, Inputs

\* The end of a thread: the reference it gives up is its own, the thread that
\* goes on to usb_close() is the last, and it frees with usb_lock held.
LEMMA EndAlive ==
    ASSUME TypeOK, Alive, NEW h \in Handles, NEW th \in Threads, Ending(h, th)
    PROVE  Alive'
<1>1. CASE KickTransport(h, th)
  BY <1>1, ThreadGoesOn DEF KickTransport, Labels, handleVars, lockVars
<1>2. CASE UsbKick(h, th)
  BY <1>2, ThreadGoesOn DEF UsbKick, Labels, refVars, lockVars
<1>3. CASE Unref(h, th)
  <2>1. PICK l \in {"close", "done"} :
          /\ To(h, th, l) /\ (l = "close" <=> refs[h] = 1) /\ pc[h][th] = "unref"
          /\ refs' = [refs EXCEPT ![h] = @ - 1] /\ UNCHANGED <<mem, listed, poll, usbLock, lock>>
    BY <1>3 DEF Unref, handleVars
  <2>2. /\ pc'[h][th] = l
        /\ \A g \in Handles, u \in Threads : g # h \/ u # th => pc'[g][u] = pc[g][u]
    BY <2>1, ToKeeps DEF Labels, TypeOK
  <2>3. PICK o \in Threads : o # th /\ Threads = {o, th}
    BY DEF Threads
  <2>4. /\ refs[h] = Holds(h, o) + 1 /\ refs'[h] = Holds(h, o) /\ pc[h][o] \notin {"none", "close"}
    BY <2>1, <2>3 DEF Alive, Living, Holds, Threads, TypeOK, ThreadType
  <2>5. Holds(h, o)' = Holds(h, o) /\ Holds(h, th)' = 0
    BY <2>2, <2>3 DEF Holds
  <2>6. l = "close" => pc[h][o] = "done"
    BY <2>1, <2>4 DEF Holds
  <2>7. Living(h)'
    BY <2>1, <2>2, <2>3, <2>4, <2>5, <2>6 DEF Alive, Living, Threads, Holds
  <2>8. ASSUME NEW g \in Handles \ {h} PROVE Living(g)'
    BY <2>1, <2>2 DEF Alive, Living, Threads, Holds, TypeOK, ThreadType
  <2> QED  BY <2>1, <2>7, <2>8 DEF Alive, Polling
<1>4. CASE UsbClose(h, th)
  <2>1. /\ usbLock = "free" /\ UNCHANGED <<refs, poll, usbLock, lock>>
        /\ mem' = [mem EXCEPT ![h] = "none"] /\ listed' = listed \ {h}
        /\ pc' = [pc EXCEPT ![h] = [u \in Threads |-> "none"]]
    BY <1>4 DEF UsbClose, Freed, refVars
  <2>2. lock[h] = "free" /\ refs[h] = 0
    BY <1>4, <2>1 DEF UsbClose, Alive, Polling, Living, Holds, Threads, TypeOK, LockType
  <2>3. ASSUME NEW g \in Handles PROVE Living(g)'
    BY <2>1, <2>2 DEF Alive, Living, Holds, Threads, TypeOK, ThreadType, HandleType
  <2> QED  BY <2>1, <2>3 DEF Alive, Polling
<1> QED  BY <1>1, <1>2, <1>3, <1>4 DEF Ending

\* The device, the kernel and the clock leave all of it alone.
LEMMA OutsideAlive == ASSUME Alive, NEW h \in Handles, Environment(h) PROVE Alive'
BY AliveFrame, Zenon
   DEF Environment, Plug, Unplug, CompleteIn, CompleteOut, TimerRunsOut, handleVars,
   refVars, lockVars, liveVars

-----------------------------------------------------------------------------
(* URBs and what is said of them. *)

Owned(h) == UrbOwned(h) /\ StatusTrue(h)

(* A step that is not about this handle. *)
Same(g) ==
  /\ mem'[g] = mem[g] /\ dead'[g] = dead[g]
  /\ pc'[g]["out"] = pc[g]["out"] /\ pc'[g]["in"] = pc[g]["in"]
  /\ urbIn'[g] = urbIn[g] /\ urbOut'[g] = urbOut[g] /\ busyOut'[g] = busyOut[g]
  /\ complete'[g] = complete[g] /\ reaped'[g] = reaped[g]
  /\ taken'[g] = taken[g] /\ wstatus'[g] = wstatus[g]
  /\ result'[g] = result[g] /\ kind'[g] = kind[g]

LEMMA SameOwned == ASSUME NEW g \in Handles, Owned(g), Same(g) PROVE Owned(g)'
BY Zenon DEF Owned, Same, UrbOwned, StatusTrue

\* usb_kick() leaves the URBs of other handles alone.  Of its own it completes
\* those in flight, and the status it leaves is a failure.
LEMMA KickOwned ==
    ASSUME TypeOK, NEW h \in Handles, Owned(h), Kick(h), mem'[h] = mem[h],
           UNCHANGED <<taken, result, kind>>,
           pc'[h]["out"] \in {pc[h]["out"], "unref"}
    PROVE  /\ Owned(h)'
           /\ \A g \in Handles \ {h} :
                /\ dead'[g] = dead[g] /\ urbIn'[g] = urbIn[g] /\ urbOut'[g] = urbOut[g]
                /\ busyOut'[g] = busyOut[g] /\ complete'[g] = complete[g]
                /\ reaped'[g] = reaped[g] /\ wstatus'[g] = wstatus[g]
<1>1. /\ dead'[h] = TRUE /\ wstatus'[h] = "failed" /\ reaped' = reaped
      /\ urbIn'[h] = (IF urbIn[h] = "flight" THEN "failed" ELSE urbIn[h])
      /\ urbOut'[h] = (IF urbOut[h] = "flight" THEN "failed" ELSE urbOut[h])
  BY DEF Kick, Discard, TypeOK, HandleType, UrbType, WriteType
<1>2. OnceOut(complete'[h]) /\ (HasOut(complete'[h]) => urbOut'[h] \in {"done", "failed"})
  BY <1>1, DiscardQueue, Zenon DEF Kick, Owned, UrbOwned, TypeOK, UrbType
<1>3. UrbOwned(h)'
  BY <1>1, <1>2, Zenon DEF Owned, UrbOwned
<1>4. StatusTrue(h)'
  BY <1>1 DEF Owned, StatusTrue
<1>5. ASSUME NEW g \in Handles \ {h}
      PROVE  /\ dead'[g] = dead[g] /\ urbIn'[g] = urbIn[g] /\ urbOut'[g] = urbOut[g]
             /\ busyOut'[g] = busyOut[g] /\ complete'[g] = complete[g]
             /\ reaped'[g] = reaped[g] /\ wstatus'[g] = wstatus[g]
  BY DEF Kick, Discard, TypeOK, HandleType, UrbType, WriteType
<1> QED  BY <1>3, <1>4, <1>5 DEF Owned

\* The poll thread.  A handle it registers has no URB out.
LEMMA PollOwned ==
    ASSUME TypeOK, Alive, \A h \in Handles : Owned(h), Poll, NEW g \in Handles
    PROVE  Owned(g)'
<1>1. CASE PollScan \/ PollKickStart \/ PollSleep
  <2>1. Same(g)
    BY <1>1, Zenon DEF PollScan, PollKickStart, PollSleep, handleVars, urbVars, writeVars, Same
  <2> QED  BY <2>1, SameOwned
<1>2. ASSUME NEW h \in Handles, PollKnown(h) \/ PollSkip(h) \/ PollUnmark(h) PROVE Owned(g)'
  <2>1. Same(g)
    BY <1>2 DEF PollKnown, PollSkip, PollUnmark, handleVars, urbVars, writeVars, Same
  <2> QED  BY <2>1, SameOwned
<1>3. ASSUME NEW h \in Handles, PollRegister(h) PROVE Owned(g)'
  <2>1. /\ UNCHANGED <<pc, urbIn, urbOut, busyOut, complete, reaped, taken, wstatus, result, kind>>
        /\ mem' = [mem EXCEPT ![h] = "live"] /\ dead' = [dead EXCEPT ![h] = FALSE]
        /\ h \notin listed
    BY <1>3 DEF PollRegister, urbVars, writeVars
  <2>2. CASE g # h
    <3>1. Same(g)
      BY <2>1, <2>2, Zenon DEF Same, TypeOK, HandleType
    <3> QED  BY <3>1, SameOwned
  <2>3. CASE g = h
    <3>1. mem[h] = "none" /\ pc[h]["out"] = "none" /\ urbOut[h] = "idle"
      BY <2>1 DEF Alive, Living, Owned, UrbOwned, TypeOK, HandleType
    <3> QED  BY <2>1, <2>3, <3>1, Zenon DEF Owned, UrbOwned, StatusTrue, TypeOK, HandleType
  <2> QED  BY <2>2, <2>3
<1>4. ASSUME NEW h \in Handles, PollKick(h) PROVE Owned(g)'
  <2>1. UNCHANGED <<mem, pc, taken, result, kind>>
    BY <1>4 DEF PollKick
  <2>2. CASE dead[h]
    <3>1. Same(g)
      BY <1>4, <2>1, <2>2 DEF PollKick, NoKick, urbVars, Same
    <3> QED  BY <3>1, SameOwned
  <2>3. CASE ~dead[h] /\ g = h
    BY <1>4, <2>1, <2>3, KickOwned DEF PollKick
  <2>4. CASE ~dead[h] /\ g # h
    <3>1. Kick(h)
      BY <1>4, <2>4 DEF PollKick
    <3>2. Same(g)
      BY <2>1, <2>4, <3>1, KickOwned DEF Same
    <3> QED  BY <3>2, SameOwned
  <2> QED  BY <2>2, <2>3, <2>4
<1>5. ASSUME NEW h \in Handles, PollKickReadOnly(h) PROVE Owned(g)'
  <2>1. /\ UNCHANGED <<mem, pc, urbIn, urbOut, busyOut, complete, reaped, taken, wstatus, result,
                       kind>>
        /\ dead' = [dead EXCEPT ![h] = TRUE]
    BY <1>5 DEF PollKickReadOnly, urbVars, writeVars
  <2>2. dead[g] => dead'[g]
    BY <2>1 DEF TypeOK, HandleType
  <2> QED  BY <2>1, <2>2, Zenon DEF Owned, UrbOwned, StatusTrue
<1>6. ASSUME NEW h \in Handles, PollUnregister(h) PROVE Owned(g)'
  <2>1. Same(g)
    BY <1>6, Zenon DEF PollUnregister, urbVars, writeVars, Same
  <2> QED  BY <2>1, SameOwned
<1> QED  BY <1>1, <1>2, <1>3, <1>4, <1>5, <1>6 DEF Poll

\* A step of one thread does not show in the program counters of others.
LEMMA ToElsewhere ==
    ASSUME TypeOK, NEW h \in Handles, NEW th \in Threads, NEW l \in Labels, To(h, th, l)
    PROVE  /\ pc'[h][th] = l
           /\ th = "out" => pc'[h]["in"] = pc[h]["in"]
           /\ th = "in" => pc'[h]["out"] = pc[h]["out"]
           /\ \A g \in Handles \ {h} :
                pc'[g]["out"] = pc[g]["out"] /\ pc'[g]["in"] = pc[g]["in"]
BY ToKeeps DEF TypeOK, Threads

\* The output thread submits urb_in only when it is idle; what it reaps is
\* idle; and it clears urb_out_busy only after it has reaped urb_out.
LEMMA OutputOwned ==
    ASSUME TypeOK, NEW h \in Handles, NEW g \in Handles, Owned(g), Outputs(h)
    PROVE  Owned(g)'
<1> USE DEF Threads, Labels
<1>1. CASE ReadSubmit(h)
  <2>1. PICK l \in {"end", "reap"} :
          /\ To(h, "out", l)
          /\ urbIn' = urbIn \/ urbIn' = [urbIn EXCEPT ![h] = "flight"]
    BY <1>1 DEF ReadSubmit, urbVars
  <2>2. UNCHANGED <<mem, dead, urbOut, busyOut, complete, reaped, taken, wstatus, result, kind>>
    BY <1>1 DEF ReadSubmit, handleVars, urbVars, writeVars
  <2>3. CASE g # h
    <3>1. pc'[g]["out"] = pc[g]["out"] /\ pc'[g]["in"] = pc[g]["in"]
      BY <2>1, <2>3, ToElsewhere, Zenon
    <3>2. urbIn'[g] = urbIn[g]
      BY <2>1, <2>3 DEF TypeOK, UrbType
    <3>3. Same(g)
      BY <2>2, <3>1, <3>2, Zenon DEF Same
    <3> QED  BY <3>3, SameOwned
  <2>4. CASE g = h
    <3>1. pc'[h]["out"] \in {"end", "reap"} /\ pc'[h]["in"] = pc[h]["in"]
      BY <2>1, ToElsewhere, Zenon
    <3> QED  BY <2>2, <2>4, <3>1, Zenon DEF Owned, UrbOwned, StatusTrue
  <2> QED  BY <2>3, <2>4
<1>2. CASE Reap(h)
  <2>1. UNCHANGED <<mem, dead, busyOut, taken, result, kind>> /\ To(h, "out", "reaped")
    BY <1>2, Zenon DEF Reap, handleVars
  <2>2. CASE g # h
    <3>1. /\ urbIn'[g] = urbIn[g] /\ urbOut'[g] = urbOut[g] /\ complete'[g] = complete[g]
          /\ reaped'[g] = reaped[g] /\ wstatus'[g] = wstatus[g]
      BY <1>2, <2>2 DEF Reap, TypeOK, UrbType, WriteType
    <3>2. Same(g)
      BY <2>1, <2>2, <3>1, ToElsewhere, Zenon DEF Same
    <3> QED  BY <3>2, SameOwned
  <2>3. CASE g = h
    <3>1. pc'[h]["out"] = "reaped" /\ pc'[h]["in"] = pc[h]["in"]
      BY <2>1, ToElsewhere, Zenon
    <3>2. complete[h] \in Seq(Threads) /\ OnceOut(complete[h])
      BY <2>3 DEF Owned, UrbOwned, TypeOK, UrbType
    <3>3. CASE /\ complete[h] # << >> /\ Head(complete[h]) = "in"
               /\ complete'[h] = Tail(complete[h]) /\ reaped'[h] \in {"in", "inFailed"}
               /\ urbIn'[h] = "idle" /\ UNCHANGED <<urbOut, wstatus>>
      BY <2>1, <2>3, <3>1, <3>2, <3>3, TailQueue, Zenon DEF Owned, UrbOwned, StatusTrue
    <3>4. CASE /\ complete[h] # << >> /\ Head(complete[h]) = "out"
               /\ complete'[h] = Tail(complete[h]) /\ reaped'[h] = "out"
               /\ wstatus'[h] = urbOut[h] /\ urbOut'[h] = "idle" /\ UNCHANGED urbIn
      <4>1. OnceOut(complete'[h]) /\ ~HasOut(complete'[h]) /\ urbOut[h] \in {"done", "failed"}
        BY <2>3, <3>2, <3>4, TailQueue, Zenon DEF Owned, UrbOwned
      <4>2. UrbOwned(h)'
        BY <2>1, <2>3, <3>1, <3>4, <4>1, Zenon DEF Owned, UrbOwned
      <4>3. StatusTrue(h)'
        BY <2>1, <2>3, <3>4, Zenon DEF Owned, StatusTrue
      <4> QED  BY <2>3, <4>2, <4>3 DEF Owned
    <3>5. CASE reaped'[h] \in {"intr", "error"} /\ UNCHANGED <<urbIn, urbOut, complete, wstatus>>
      BY <2>1, <2>3, <3>1, <3>5, Zenon DEF Owned, UrbOwned, StatusTrue
    <3>6. /\ complete \in [Handles -> Seq(Threads)] /\ DOMAIN reaped = Handles
          /\ DOMAIN urbIn = Handles /\ DOMAIN urbOut = Handles /\ DOMAIN wstatus = Handles
      BY DEF TypeOK, UrbType, WriteType
    <3> QED  BY <1>2, <3>3, <3>4, <3>5, <3>6, Zenon DEF Reap
  <2> QED  BY <2>2, <2>3
<1>3. CASE AfterReap(h)
  <2>1. PICK l \in {"reap", "read", "end"} :
          To(h, "out", l) /\ (l = "read" => reaped[h] = "in") /\ pc[h]["out"] = "reaped"
    BY <1>3 DEF AfterReap, NextRead
  <2>2. /\ UNCHANGED <<mem, dead, urbIn, urbOut, complete, taken, wstatus, result, kind>>
        /\ reaped' = [reaped EXCEPT ![h] = "none"]
        /\ busyOut' = [busyOut EXCEPT ![h] = @ /\ ~(~dead[h] /\ reaped[h] = "out")]
    BY <1>3, Zenon DEF AfterReap, handleVars
  <2>3. CASE g # h
    <3>1. pc'[g]["out"] = pc[g]["out"] /\ pc'[g]["in"] = pc[g]["in"]
      BY <2>1, <2>3, ToElsewhere, Zenon
    <3>2. reaped'[g] = reaped[g] /\ busyOut'[g] = busyOut[g]
      BY <2>2, <2>3 DEF TypeOK, UrbType
    <3>3. Same(g)
      BY <2>2, <3>1, <3>2, Zenon DEF Same
    <3> QED  BY <3>3, SameOwned
  <2>4. CASE g = h
    <3>1. pc'[h]["out"] = l /\ pc'[h]["in"] = pc[h]["in"]
      BY <2>1, ToElsewhere, Zenon
    <3>2. /\ reaped'[h] = "none"
          /\ busyOut[h] /\ (dead[h] \/ reaped[h] # "out") => busyOut'[h]
      BY <2>2 DEF TypeOK, UrbType
    <3> QED  BY <2>1, <2>2, <2>4, <3>1, <3>2, Zenon DEF Owned, UrbOwned, StatusTrue
  <2> QED  BY <2>3, <2>4
<1> QED  BY <1>1, <1>2, <1>3 DEF Outputs

\* The input thread submits urb_out only when it is idle, and reports success
\* for data only on a status of success.
LEMMA InputOwned ==
    ASSUME TypeOK, Alive, NEW h \in Handles, NEW g \in Handles, Owned(g),
           Inputs(h) \/ WriterStops(h)
    PROVE  Owned(g)'
<1> USE DEF Threads, Labels
<1>1. CASE WriteSubmit(h) /\ (dead[h] \/ dev[h] # "plugged")
  <2>1. /\ UNCHANGED <<mem, dead, pc, urbIn, urbOut, busyOut, complete, reaped, taken, wstatus, kind>>
        /\ result' = [result EXCEPT ![h] = "failed"]
    BY <1>1, Zenon DEF WriteSubmit, handleVars, urbVars
  <2>2. result'[g] = "ok" => result[g] = "ok"
    BY <2>1 DEF TypeOK, WriteType
  <2> QED  BY <2>1, <2>2, Zenon DEF Owned, UrbOwned, StatusTrue
<1>2. CASE WriteSubmit(h) /\ ~(dead[h] \/ dev[h] # "plugged")
  <2>1. /\ urbOut' = [urbOut EXCEPT ![h] = "flight"] /\ busyOut' = [busyOut EXCEPT ![h] = TRUE]
        /\ wstatus' = [wstatus EXCEPT ![h] = "none"] /\ taken' = [taken EXCEPT ![h] = FALSE]
        /\ result' = [result EXCEPT ![h] = "none"] /\ To(h, "in", "wait")
        /\ \E k : kind' = [kind EXCEPT ![h] = k]
        /\ UNCHANGED <<mem, dead, urbIn, complete, reaped>>
        /\ pc[h]["in"] = "write" /\ ~dead[h]
    BY <1>2, Zenon DEF WriteSubmit, handleVars
  <2>2. CASE g # h
    <3>1. /\ urbOut'[g] = urbOut[g] /\ busyOut'[g] = busyOut[g] /\ wstatus'[g] = wstatus[g]
          /\ taken'[g] = taken[g] /\ result'[g] = result[g] /\ kind'[g] = kind[g]
      <4>1. kind'[g] = kind[g]
        BY <2>1, <2>2 DEF TypeOK, WriteType
      <4> QED  BY <2>1, <2>2, <4>1 DEF TypeOK, UrbType, WriteType
    <3>2. pc'[g]["out"] = pc[g]["out"] /\ pc'[g]["in"] = pc[g]["in"]
      BY <2>1, <2>2, ToElsewhere, Zenon
    <3>3. UNCHANGED <<mem, dead, urbIn, complete, reaped>>
      BY <2>1
    <3>4. Same(g)
      BY <3>1, <3>2, <3>3 DEF Same
    <3> QED  BY <3>4, SameOwned
  <2>3. CASE g = h
    <3>1. pc'[h]["in"] = "wait" /\ pc'[h]["out"] = pc[h]["out"]
      BY <2>1, ToElsewhere, Zenon
    <3>2. urbOut[h] = "idle" /\ ~HasOut(complete[h]) /\ mem[h] # "none"
      BY <2>1, <2>3, Zenon DEF Owned, UrbOwned, Alive, Living
    <3>3. /\ urbOut'[h] = "flight" /\ busyOut'[h] /\ wstatus'[h] = "none" /\ result'[h] = "none"
      BY <2>1 DEF TypeOK, UrbType, WriteType
    <3> QED  BY <2>1, <2>3, <3>1, <3>2, <3>3, Zenon DEF Owned, UrbOwned, StatusTrue
  <2> QED  BY <2>2, <2>3
<1>3. CASE WriteWake(h)
  <2>1. /\ UNCHANGED <<mem, dead, urbIn, urbOut, busyOut, complete, reaped, taken, wstatus, kind>>
        /\ pc[h]["in"] = "wait"
    BY <1>3 DEF WriteWake, handleVars, urbVars
  <2>2. CASE UNCHANGED <<pc, result>>
    <3>1. Same(g)
      BY <2>1, <2>2 DEF Same
    <3> QED  BY <3>1, SameOwned
  <2>3. ASSUME NEW res \in {"ok", "failed"}, To(h, "in", "write"), dead[h] \/ ~busyOut[h],
               res = "ok" => (~dead[h] /\ wstatus[h] = "done") \/ kind[h] = "zero",
               result' = [result EXCEPT ![h] = res]
        PROVE  Owned(g)'
    <3>1. CASE g # h
      <4>1. Same(g)
        BY <2>1, <2>3, <3>1, ToElsewhere, Zenon DEF Same, TypeOK, WriteType
      <4> QED  BY <4>1, SameOwned
    <3>2. CASE g = h
      <4>1. pc'[h]["in"] = "write" /\ pc'[h]["out"] = pc[h]["out"] /\ result'[h] = res
        BY <2>3, ToElsewhere, Zenon DEF TypeOK, WriteType
      <4> QED  BY <2>1, <2>3, <3>2, <4>1, Zenon DEF Owned, UrbOwned, StatusTrue
    <3> QED  BY <3>1, <3>2
  <2> QED  BY <1>3, <2>2, <2>3 DEF WriteWake, WriteEnds
<1>4. CASE WriterStops(h)
  <2>1. /\ UNCHANGED <<mem, dead, urbIn, urbOut, busyOut, complete, reaped, taken, wstatus, result,
                       kind>>
        /\ pc[h]["in"] = "write" /\ To(h, "in", "end")
    BY <1>4, Zenon DEF WriterStops, handleVars, urbVars, writeVars
  <2>2. CASE g # h
    <3>1. Same(g)
      BY <2>1, <2>2, ToElsewhere, Zenon DEF Same
    <3> QED  BY <3>1, SameOwned
  <2>3. CASE g = h
    <3>1. pc'[h]["in"] = "end" /\ pc'[h]["out"] = pc[h]["out"]
      BY <2>1, ToElsewhere, Zenon
    <3> QED  BY <2>1, <2>3, <3>1, Zenon DEF Owned, UrbOwned, StatusTrue
  <2> QED  BY <2>2, <2>3
<1> QED  BY <1>1, <1>2, <1>3, <1>4 DEF Inputs

\* The start and the end of the threads: those that start find both URBs idle,
\* and closing the descriptor takes them back.
LEMMA EndOwned ==
    ASSUME TypeOK, Alive, NEW h \in Handles, NEW g \in Handles, Owned(h), Owned(g),
           StartThreads(h) \/ \E th \in Threads : Ending(h, th)
    PROVE  Owned(g)'
<1> USE DEF Labels
<1>1. CASE StartThreads(h)
  <2>1. /\ UNCHANGED <<mem, dead, urbIn, urbOut, busyOut, complete, reaped, taken, wstatus, result,
                       kind>>
        /\ pc[h]["out"] = "none" /\ pc[h]["in"] = "none"
    BY <1>1, Zenon DEF StartThreads, handleVars, urbVars, writeVars, Threads
  <2>2. /\ pc'[h]["out"] = "read" /\ pc'[h]["in"] = "write"
        /\ g # h => pc'[g] = pc[g]
    BY <1>1 DEF StartThreads, TypeOK, ThreadType, Threads
  <2>3. CASE g # h
    <3>1. Same(g)
      BY <2>1, <2>2, <2>3, Zenon DEF Same
    <3> QED  BY <3>1, SameOwned
  <2>4. CASE g = h
    BY <2>1, <2>2, <2>4, Zenon DEF Owned, UrbOwned, StatusTrue
  <2> QED  BY <2>3, <2>4
<1>2. ASSUME NEW th \in Threads, NEW l \in {"kick", "unref", "close", "done"}, To(h, th, l),
             pc[h][th] \in {"end", "kick", "unref"},
             UNCHANGED <<mem, dead, urbIn, urbOut, busyOut, complete, reaped, taken, wstatus,
                         result, kind>>
      PROVE  Owned(g)'
  <2>0. /\ pc'[h][th] = l /\ th \in {"out", "in"}
        /\ th = "out" => pc'[h]["in"] = pc[h]["in"]
        /\ th = "in" => pc'[h]["out"] = pc[h]["out"]
        /\ g # h => pc'[g]["out"] = pc[g]["out"] /\ pc'[g]["in"] = pc[g]["in"]
    <3>1. l \in Labels
      BY DEF Labels
    <3> QED  BY <1>2, <3>1, ToElsewhere, Zenon DEF Threads
  <2>1. CASE g # h
    <3>1. pc'[g]["out"] = pc[g]["out"] /\ pc'[g]["in"] = pc[g]["in"]
      BY <2>0, <2>1
    <3>2. Same(g)
      BY <1>2, <3>1, Zenon DEF Same
    <3> QED  BY <3>2, SameOwned
  <2>2. CASE g = h
    <3>1. \/ pc'[h]["out"] = l /\ pc'[h]["in"] = pc[h]["in"]
          \/ pc'[h]["in"] = l /\ pc'[h]["out"] = pc[h]["out"] /\ pc[h]["in"] # "wait"
      BY <1>2, <2>0, Zenon
    <3>2. UrbOwned(h)'
      BY <1>2, <2>2, <3>1, Zenon DEF Owned, UrbOwned
    <3>3. StatusTrue(h)'
      BY <1>2, <2>2, Zenon DEF Owned, StatusTrue
    <3> QED  BY <2>2, <3>2, <3>3 DEF Owned
  <2> QED  BY <2>1, <2>2
<1>3. ASSUME NEW th \in Threads, KickTransport(h, th) PROVE Owned(g)'
  BY <1>2, <1>3, Zenon DEF KickTransport, handleVars, urbVars, writeVars
<1>4. ASSUME NEW th \in Threads, UsbKick(h, th) PROVE Owned(g)'
  <2>1. /\ UNCHANGED <<mem, taken, result, kind>> /\ To(h, th, "unref") /\ pc[h][th] = "kick"
    BY <1>4, Zenon DEF UsbKick
  <2>2. CASE dead[h]
    BY <1>2, <1>4, <2>1, <2>2, Zenon DEF UsbKick, NoKick, urbVars
  <2>3. CASE ~dead[h]
    <3>1. Kick(h)
      BY <1>4, <2>3, Zenon DEF UsbKick
    <3>2. /\ pc'[h]["out"] \in {pc[h]["out"], "unref"}
          /\ \A o \in Handles \ {h} :
               pc'[o]["out"] = pc[o]["out"] /\ pc'[o]["in"] = pc[o]["in"]
      BY <2>1, ToElsewhere, Zenon DEF Threads
    <3>3. CASE g = h
      BY <2>1, <3>1, <3>2, <3>3, KickOwned, Zenon
    <3>4. CASE g # h
      <4>1. Same(g)
        BY <2>1, <3>1, <3>2, <3>4, KickOwned, Zenon DEF Same
      <4> QED  BY <4>1, SameOwned
    <3> QED  BY <3>3, <3>4
  <2> QED  BY <2>2, <2>3
<1>5. ASSUME NEW th \in Threads, Unref(h, th) PROVE Owned(g)'
  BY <1>2, <1>5, Zenon DEF Unref, handleVars, urbVars, writeVars
<1>6. ASSUME NEW th \in Threads, UsbClose(h, th) PROVE Owned(g)'
  <2>1. /\ mem' = [mem EXCEPT ![h] = "none"] /\ UNCHANGED <<dead, busyOut, reaped, wstatus, taken>>
        /\ urbIn' = [urbIn EXCEPT ![h] = "idle"] /\ urbOut' = [urbOut EXCEPT ![h] = "idle"]
        /\ complete' = [complete EXCEPT ![h] = << >>]
        /\ pc' = [pc EXCEPT ![h] = [o \in Threads |-> "none"]]
        /\ result' = [result EXCEPT ![h] = "none"] /\ kind' = [kind EXCEPT ![h] = "data"]
    BY <1>6 DEF UsbClose, Freed
  <2>2. CASE g # h
    <3>1. /\ mem'[g] = mem[g] /\ pc'[g] = pc[g] /\ urbIn'[g] = urbIn[g] /\ urbOut'[g] = urbOut[g]
          /\ complete'[g] = complete[g] /\ result'[g] = result[g] /\ kind'[g] = kind[g]
      BY <2>1, <2>2 DEF TypeOK, HandleType, UrbType, WriteType, ThreadType
    <3>2. Same(g)
      BY <2>1, <3>1, Zenon DEF Same
    <3> QED  BY <3>2, SameOwned
  <2>3. CASE g = h
    <3>1. /\ pc'[h]["out"] = "none" /\ urbIn'[h] = "idle" /\ urbOut'[h] = "idle"
          /\ complete'[h] = << >> /\ result'[h] = "none"
      BY <2>1, Zenon DEF TypeOK, UrbType, WriteType, ThreadType, Threads
    <3>2. OnceOut(<< >>) /\ ~HasOut(<< >>)
      BY DEF OnceOut, HasOut
    <3> QED  BY <2>1, <2>3, <3>1, <3>2, Zenon DEF Owned, UrbOwned, StatusTrue
  <2> QED  BY <2>2, <2>3
<1> QED  BY <1>1, <1>3, <1>4, <1>5, <1>6 DEF Ending

\* The device and the kernel complete only what is in flight, and say that a
\* write was done when the device took it.
LEMMA OutsideOwned ==
    ASSUME TypeOK, NEW h \in Handles, NEW g \in Handles, Owned(g), Environment(h)
    PROVE  Owned(g)'
<1>1. CASE Plug(h) \/ TimerRunsOut(h)
  <2>1. Same(g)
    BY <1>1, Zenon DEF Plug, TimerRunsOut, handleVars, urbVars, writeVars, Same
  <2> QED  BY <2>1, SameOwned
<1>2. CASE Unplug(h)
  <2>1. /\ UNCHANGED <<mem, dead, pc, busyOut, reaped, taken, wstatus, result, kind>> /\ Discard(h)
    BY <1>2 DEF Unplug, handleVars, writeVars
  <2>2. CASE g # h
    <3>1. Same(g)
      BY <2>1, <2>2 DEF Discard, Same, TypeOK, UrbType
    <3> QED  BY <3>1, SameOwned
  <2>3. CASE g = h
    <3>1. /\ urbIn'[h] = (IF urbIn[h] = "flight" THEN "failed" ELSE urbIn[h])
          /\ urbOut'[h] = (IF urbOut[h] = "flight" THEN "failed" ELSE urbOut[h])
      BY <2>1, Zenon DEF Discard, TypeOK, UrbType
    <3>2. OnceOut(complete'[h]) /\ (HasOut(complete'[h]) => urbOut'[h] \in {"done", "failed"})
      BY <2>1, <2>3, <3>1, DiscardQueue, Zenon DEF Owned, UrbOwned, TypeOK
    <3> QED  BY <2>1, <2>3, <3>1, <3>2, Zenon DEF Owned, UrbOwned, StatusTrue
  <2> QED  BY <2>2, <2>3
<1>3. CASE CompleteIn(h)
  <2>1. /\ UNCHANGED <<mem, dead, pc, busyOut, urbOut, reaped, taken, wstatus, result, kind>>
        /\ urbIn[h] = "flight" /\ complete' = [complete EXCEPT ![h] = Append(@, "in")]
        /\ \E s \in {"done", "failed"} : urbIn' = [urbIn EXCEPT ![h] = s]
    BY <1>3, Zenon DEF CompleteIn, handleVars, writeVars
  <2>2. CASE g # h
    <3>1. Same(g)
      BY <2>1, <2>2 DEF Same, TypeOK, UrbType
    <3> QED  BY <3>1, SameOwned
  <2>3. CASE g = h
    <3>1. complete[h] \in Seq(Threads) /\ complete'[h] = Append(complete[h], "in")
      BY <2>1 DEF TypeOK, UrbType
    <3>2. OnceOut(complete'[h]) /\ (HasOut(complete'[h]) => HasOut(complete[h]))
      BY <2>3, <3>1, AppendQueue DEF Owned, UrbOwned, Threads
    <3> QED  BY <2>1, <2>3, <3>2, Zenon DEF Owned, UrbOwned, StatusTrue
  <2> QED  BY <2>2, <2>3
<1>4. CASE CompleteOut(h)
  <2>1. PICK s \in {"done", "failed"} :
          /\ urbOut' = [urbOut EXCEPT ![h] = s]
          /\ taken' = [taken EXCEPT ![h] = s = "done"]
    BY <1>4, Zenon DEF CompleteOut
  <2>2. /\ UNCHANGED <<mem, dead, pc, busyOut, urbIn, reaped, wstatus, result, kind>>
        /\ urbOut[h] = "flight" /\ complete' = [complete EXCEPT ![h] = Append(@, "out")]
    BY <1>4 DEF CompleteOut, handleVars
  <2>3. CASE g # h
    <3>1. Same(g)
      BY <2>1, <2>2, <2>3, Zenon DEF Same, TypeOK, UrbType, WriteType
    <3> QED  BY <3>1, SameOwned
  <2>4. CASE g = h
    <3>1. complete[h] \in Seq(Threads) /\ complete'[h] = Append(complete[h], "out")
      BY <2>2 DEF TypeOK, UrbType
    <3>2. OnceOut(complete'[h])
      BY <2>2, <2>4, <3>1, AppendQueue DEF Owned, UrbOwned, Threads
    <3>3. urbOut'[h] = s /\ (s = "done" => taken'[h])
      BY <2>1, Zenon DEF TypeOK, UrbType, WriteType
    <3> QED  BY <2>2, <2>4, <3>2, <3>3, Zenon DEF Owned, UrbOwned, StatusTrue
  <2> QED  BY <2>3, <2>4
<1> QED  BY <1>1, <1>2, <1>3, <1>4 DEF Environment

-----------------------------------------------------------------------------
(* The theorems. *)

\* The invariant is inductive.
LEMMA UsbStart == Init => UsbInv
<1> SUFFICES ASSUME Init PROVE UsbInv
  OBVIOUS
<1>1. TypeOK
  <2>1. HandleType /\ LockType
    BY DEF Init, HandleType, LockType
  <2>2. UrbType /\ WriteType
    BY DEF Init, UrbType, WriteType
  <2>3. ThreadType
    BY DEF Init, ThreadType, Labels
  <2> QED  BY <2>1, <2>2, <2>3 DEF TypeOK
<1>2. ASSUME NEW h \in Handles PROVE Living(h)
  BY DEF Init, Living, Holds, Threads
<1>3. Polling
  BY DEF Init, Polling
<1>4. ASSUME NEW h \in Handles PROVE UrbOwned(h) /\ StatusTrue(h)
  <2>1. complete[h] = << >> /\ OnceOut(<< >>) /\ ~HasOut(<< >>)
    BY DEF Init, OnceOut, HasOut
  <2> QED  BY <2>1 DEF Init, UrbOwned, StatusTrue, Threads
<1> QED  BY <1>1, <1>2, <1>3, <1>4 DEF UsbInv, Alive

LEMMA UsbStep == UsbInv /\ [Next]_vars => UsbInv'
<1> SUFFICES ASSUME UsbInv, [Next]_vars PROVE TypeOK' /\ Alive' /\ \A g \in Handles : Owned(g)'
  BY DEF UsbInv, Owned
<1>1. TypeOK /\ Alive /\ \A h \in Handles : Owned(h) /\ UrbOwned(h) /\ Living(h)
  BY DEF UsbInv, Owned, Alive
<1>2. CASE UNCHANGED vars
  <2>1. UNCHANGED liveVars /\ \A g \in Handles : Same(g)
    BY <1>2 DEF vars, handleVars, urbVars, writeVars, refVars, lockVars, liveVars, Same
  <2>2. HandleType' /\ LockType'
    BY <1>1, <1>2 DEF vars, handleVars, lockVars, TypeOK, HandleType, LockType
  <2>3. UrbType' /\ WriteType' /\ ThreadType'
    BY <1>1, <1>2, Zenon
       DEF vars, urbVars, writeVars, refVars, TypeOK, UrbType, WriteType, ThreadType
  <2> QED  BY <1>1, <2>1, <2>2, <2>3, AliveFrame, SameOwned DEF TypeOK
<1>3. CASE Poll
  BY <1>1, <1>3, PollTypes, PollAlive, PollOwned
<1>4. ASSUME NEW h \in Handles, StartThreads(h) \/ Outputs(h) \/ Inputs(h) \/ WriterStops(h)
      PROVE  TypeOK' /\ Alive' /\ \A g \in Handles : Owned(g)'
  <2>1. TypeOK' /\ Alive'
    BY <1>1, <1>4, ThreadTypes, ThreadAlive
  <2>2. ASSUME NEW g \in Handles PROVE Owned(g)'
    BY <1>1, <1>4, EndOwned, OutputOwned, InputOwned
  <2> QED  BY <2>1, <2>2
<1>5. ASSUME NEW h \in Handles, NEW th \in Threads, Ending(h, th)
      PROVE  TypeOK' /\ Alive' /\ \A g \in Handles : Owned(g)'
  BY <1>1, <1>5, EndTypes, EndAlive, EndOwned
<1>6. ASSUME NEW h \in Handles, Environment(h)
      PROVE  TypeOK' /\ Alive' /\ \A g \in Handles : Owned(g)'
  BY <1>1, <1>6, EndTypes, OutsideAlive, OutsideOwned
<1> QED  BY <1>2, <1>3, <1>4, <1>5, <1>6 DEF Next

LEMMA UsbInvHolds == Spec => []UsbInv
<1> QED  BY UsbStart, UsbStep, PTL DEF Spec

(* Nobody uses a usb_handle that is not there, and the thread that frees   *)
(* one is the last of its transport's two: usb_close() and the reference   *)
(* count of transport.c, against the poll thread that walks handle_list.   *)
THEOREM HandlesAreLive == Spec => []UsedIsLive
<1>1. UsbInv => UsedIsLive
  BY DEF UsbInv, UsedIsLive, TypeOK, HandleType, LockType, Alive, Polling, Living, Done, Threads
<1> QED  BY <1>1, UsbInvHolds, PTL

(* A data write that usb_bulk_write() reports as complete was taken by the *)
(* device.                                                                 *)
THEOREM ReportedIsTaken == Spec => []WrittenIsTaken
<1>1. UsbInv => WrittenIsTaken
  BY DEF UsbInv, WrittenIsTaken, StatusTrue
<1> QED  BY <1>1, UsbInvHolds, PTL

\* An input thread starts to wait only for a URB it has submitted, on a handle
\* that is not dead.
LEMMA WaitsForSubmitted ==
    ASSUME TypeOK, Next, NEW g \in Handles, pc[g]["in"] # "wait", pc'[g]["in"] = "wait"
    PROVE  ~dead[g]
<1> USE DEF Labels, Threads
<1>1. ASSUME NEW h \in Handles, NEW th \in Threads, NEW l \in Labels \ {"wait"}, To(h, th, l)
      PROVE  FALSE
  BY <1>1, ToElsewhere
<1>2. CASE Poll
  BY <1>2, Zenon DEF Poll, PollScan, PollKnown, PollSkip, PollRegister, PollKickStart, PollUnmark,
     PollKick, PollKickReadOnly, PollUnregister, PollSleep
<1>3. ASSUME NEW h \in Handles, StartThreads(h) PROVE FALSE
  BY <1>3 DEF StartThreads, TypeOK, ThreadType
<1>4. ASSUME NEW h \in Handles, Outputs(h) PROVE FALSE
  BY <1>1, <1>4, Zenon DEF Outputs, ReadSubmit, Reap, AfterReap, NextRead
<1>5. ASSUME NEW h \in Handles, WriteWake(h) \/ WriterStops(h) PROVE FALSE
  BY <1>1, <1>5 DEF WriteWake, WriteEnds, WriterStops
<1>6. ASSUME NEW h \in Handles, WriteSubmit(h) PROVE ~dead[g]
  <2>1. CASE dead[h] \/ dev[h] # "plugged"
    BY <1>6, <2>1, Zenon DEF WriteSubmit
  <2>2. CASE ~(dead[h] \/ dev[h] # "plugged")
    <3>1. To(h, "in", "wait")
      BY <1>6, <2>2 DEF WriteSubmit
    <3> QED  BY <2>2, <3>1, ToElsewhere, Zenon
  <2> QED  BY <2>1, <2>2
<1>7. ASSUME NEW h \in Handles, Environment(h) PROVE FALSE
  BY <1>7, Zenon DEF Environment, Plug, Unplug, CompleteIn, CompleteOut, TimerRunsOut
<1>8. ASSUME NEW h \in Handles, NEW th \in Threads, Ending(h, th) PROVE FALSE
  <2>1. CASE UsbClose(h, th)
    BY <2>1, Zenon DEF UsbClose, Freed, TypeOK, ThreadType
  <2>2. CASE KickTransport(h, th) \/ UsbKick(h, th) \/ Unref(h, th)
    BY <1>1, <2>2, Zenon DEF KickTransport, UsbKick, Unref
  <2> QED  BY <1>8, <2>1, <2>2 DEF Ending
<1> QED  BY <1>2, <1>3, <1>4, <1>5, <1>6, <1>7, <1>8 DEF Next, Inputs

(* usb_bulk_read() and usb_bulk_write() submit a URB only when the kernel  *)
(* does not have it and it was reaped.                                     *)
THEOREM UrbsAreNotReused == Spec => UrbNotReused
<1> DEFINE Submits ==
      \A h \in Handles :
        /\ pc[h]["out"] = "read" /\ pc'[h]["out"] = "reap" => urbIn[h] = "idle"
        /\ pc[h]["in"] = "write" /\ pc'[h]["in"] = "wait" => urbOut[h] = "idle"
<1>1. UsbInv /\ [Next]_vars => [Submits]_vars
  <2> SUFFICES ASSUME UsbInv, Next, NEW h \in Handles
               PROVE  /\ pc[h]["out"] = "read" => urbIn[h] = "idle"
                      /\ pc[h]["in"] = "write" /\ pc'[h]["in"] = "wait" => urbOut[h] = "idle"
    OBVIOUS
  <2>1. TypeOK /\ UrbOwned(h)
    BY DEF UsbInv
  <2> QED  BY <2>1, WaitsForSubmitted DEF UrbOwned
<1> QED  BY <1>1, UsbInvHolds, PTL DEF Spec, UrbNotReused
=============================================================================
