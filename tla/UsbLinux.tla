------------------------------ MODULE UsbLinux ------------------------------
(***************************************************************************)
(* USB devices on Linux (usb_linux.c, transport_usb.c): the poll thread    *)
(* that finds and kicks devices, the output thread that reads and reaps    *)
(* the URBs of both directions, the input thread that writes and waits on  *)
(* a condition variable, and usb_kick() and usb_close() from any of them.  *)
(*                                                                         *)
(* A step that holds a lock from its first to its last line is one action, *)
(* guarded by the lock being free; a lock held across blocking calls is a  *)
(* variable.  A handle stands for one plugging in of a device.  usb_read() *)
(* and usb_write() are sequences of bulk transfers; sizes are left out,    *)
(* save that a transfer may be the empty marker at the end of a write.     *)
(***************************************************************************)
EXTENDS Naturals, Sequences, FiniteSets

CONSTANT Handles        \* usb_handle objects, one per device

Threads == {"out", "in"}
Done == {"none", "done"}

VARIABLES
  dev,        \* external: the device: "absent", "plugged" or "gone"
  mem,        \* usb_handle: "none" or "live"
  writeable,  \* opened for writing
  mark, dead, \* fields of usb_handle
  reaper,     \* reaper_thread is set
  busyOut,    \* urb_out_busy
  urbIn,      \* external: URBs as the kernel has them: "idle", "flight",
  urbOut,     \* "done" or "failed"; the last two wait to be reaped,
  complete,   \* in the order of their completion
  signal,     \* external: the output thread is to leave its ioctl
  reaped,     \* what REAPURB returned to the output thread
  pc,         \* the transport's threads
  notified,   \* the condition variable was signalled
  late,       \* the timer of the condition wait ran out
  kind,       \* what the input thread writes: "data" or the "zero" marker
  wstatus,    \* status of urb_out as it was reaped
  taken,      \* history: the device took the last write
  result,     \* history: what usb_bulk_write() came back with
  kicked, refs,   \* of the transport
  listed,     \* handle_list
  unlinked,   \* unregister_usb_transport() was called
  poll,       \* the poll thread: [pc, todo]
  usbLock, transportLock, lock   \* who holds usb_lock, transport_lock, h->lock

handleVars == <<mem, writeable, mark, dead, listed, unlinked>>
urbVars == <<reaper, busyOut, urbIn, urbOut, complete, signal, reaped>>
writeVars == <<notified, late, kind, wstatus, taken, result>>
refVars == <<kicked, refs>>
lockVars == <<usbLock, transportLock, lock>>
vars == <<dev, handleVars, urbVars, pc, writeVars, refVars, poll, lockVars>>

Init ==
  /\ dev = [h \in Handles |-> "absent"] /\ mem = [h \in Handles |-> "none"]
  /\ writeable = [h \in Handles |-> FALSE] /\ mark = [h \in Handles |-> FALSE]
  /\ dead = [h \in Handles |-> FALSE] /\ reaper = [h \in Handles |-> FALSE]
  /\ busyOut = [h \in Handles |-> FALSE]
  /\ urbIn = [h \in Handles |-> "idle"] /\ urbOut = [h \in Handles |-> "idle"]
  /\ complete = [h \in Handles |-> << >>]
  /\ signal = [h \in Handles |-> FALSE] /\ reaped = [h \in Handles |-> "none"]
  /\ pc = [h \in Handles |-> [th \in Threads |-> "none"]]
  /\ notified = [h \in Handles |-> FALSE] /\ late = [h \in Handles |-> FALSE]
  /\ kind = [h \in Handles |-> "data"] /\ wstatus = [h \in Handles |-> "none"]
  /\ taken = [h \in Handles |-> FALSE] /\ result = [h \in Handles |-> "none"]
  /\ kicked = [h \in Handles |-> FALSE] /\ refs = [h \in Handles |-> 0]
  /\ listed = {} /\ unlinked = {}
  /\ poll = [pc |-> "sleep", todo |-> {}]
  /\ usbLock = "free" /\ transportLock = "free"
  /\ lock = [h \in Handles |-> "free"]

-----------------------------------------------------------------------------
(* The poll thread: device_poll_thread(). *)

\* find_usb_device() reads the directories of /dev/bus/usb.
PollScan ==
  /\ poll.pc = "sleep"
  /\ poll' = [pc |-> "scan", todo |-> {h \in Handles : dev[h] = "plugged"}]
  /\ UNCHANGED <<dev, handleVars, urbVars, pc, writeVars, refVars, lockVars>>

\* known_device(): a device on the list is marked as still there.
PollKnown(h) ==
  /\ poll.pc = "scan" /\ h \in poll.todo /\ usbLock = "free"
  /\ h \in listed
  /\ mark' = [mark EXCEPT ![h] = TRUE]
  /\ poll' = [poll EXCEPT !.todo = @ \ {h}]
  /\ UNCHANGED <<dev, mem, writeable, dead, listed, unlinked, urbVars, pc, writeVars,
                 refVars, lockVars>>

\* A device that cannot be read, or whose descriptors do not name an adb
\* interface with two bulk endpoints, is passed over.
PollSkip(h) ==
  /\ poll.pc = "scan" /\ h \in poll.todo /\ usbLock = "free"
  /\ h \notin listed
  /\ poll' = [poll EXCEPT !.todo = @ \ {h}]
  /\ UNCHANGED <<dev, handleVars, urbVars, pc, writeVars, refVars, lockVars>>

\* register_device(): opened for writing, or else for reading only.  When
\* neither works nothing is left of it.
PollRegister(h) ==
  /\ poll.pc = "scan" /\ h \in poll.todo /\ usbLock = "free"
  /\ h \notin listed
  /\ dev[h] = "plugged"
  /\ mem' = [mem EXCEPT ![h] = "live"]
  /\ \E w \in BOOLEAN : writeable' = [writeable EXCEPT ![h] = w]
  /\ mark' = [mark EXCEPT ![h] = TRUE]
  /\ dead' = [dead EXCEPT ![h] = FALSE]
  /\ listed' = listed \cup {h}
  /\ kicked' = [kicked EXCEPT ![h] = FALSE]
  /\ poll' = [poll EXCEPT !.todo = @ \ {h}]
  /\ UNCHANGED <<dev, unlinked, urbVars, pc, writeVars, refs, lockVars>>

\* kick_disconnected_devices() takes usb_lock for the whole list.
PollKickStart ==
  /\ poll.pc = "scan" /\ poll.todo = {} /\ usbLock = "free"
  /\ usbLock' = "poll"
  /\ poll' = [pc |-> "kick", todo |-> listed]
  /\ UNCHANGED <<dev, handleVars, urbVars, pc, writeVars, refVars, transportLock, lock>>

PollUnmark(h) ==
  /\ poll.pc = "kick" /\ h \in poll.todo /\ mark[h]
  /\ mark' = [mark EXCEPT ![h] = FALSE]
  /\ poll' = [poll EXCEPT !.todo = @ \ {h}]
  /\ UNCHANGED <<dev, mem, writeable, dead, listed, unlinked, urbVars, pc, writeVars,
                 refVars, lockVars>>

-----------------------------------------------------------------------------
(* usb_kick *)

\* External: the kernel gives up the URBs it has.
Discard(h) ==
  /\ urbIn' = [urbIn EXCEPT ![h] = IF @ = "flight" THEN "failed" ELSE @]
  /\ urbOut' = [urbOut EXCEPT ![h] = IF @ = "flight" THEN "failed" ELSE @]
  /\ complete' = [complete EXCEPT ![h] = @ \o (IF urbIn[h] = "flight" THEN <<"in">> ELSE << >>)
                                          \o (IF urbOut[h] = "flight" THEN <<"out">> ELSE << >>)]

(* Mutant of Kick: the writer that waits is not woken up. *)
KickSilent(h) ==
  /\ dead' = [dead EXCEPT ![h] = TRUE]
  /\ \E hit \in BOOLEAN : signal' = [signal EXCEPT ![h] = @ \/ (reaper[h] /\ hit)]
  /\ Discard(h)
  /\ wstatus' = [wstatus EXCEPT ![h] = "failed"]
  /\ busyOut' = [busyOut EXCEPT ![h] = FALSE]
  /\ UNCHANGED <<notified, reaper, reaped>>

\* On a handle opened for writing.  The signal is lost when the output
\* thread is between its unlock and its ioctl; the discarded URBs are
\* there to be reaped.
Kick(h) ==
  /\ dead' = [dead EXCEPT ![h] = TRUE]
  /\ \E hit \in BOOLEAN : signal' = [signal EXCEPT ![h] = @ \/ (reaper[h] /\ hit)]
  /\ Discard(h)
  /\ wstatus' = [wstatus EXCEPT ![h] = "failed"]
  /\ busyOut' = [busyOut EXCEPT ![h] = FALSE]
  /\ notified' = [notified EXCEPT ![h] = TRUE]
  /\ UNCHANGED <<reaper, reaped>>

NoKick(h) == UNCHANGED <<dead, urbVars, wstatus, notified>>

\* The poll thread kicks a device that its scan did not find.
PollKick(h) ==
  /\ poll.pc = "kick" /\ h \in poll.todo /\ ~mark[h] /\ lock[h] = "free"
  /\ writeable[h] \/ dead[h]
  /\ IF dead[h] THEN NoKick(h) ELSE Kick(h)
  /\ poll' = [poll EXCEPT !.todo = @ \ {h}]
  /\ UNCHANGED <<dev, mem, writeable, mark, listed, unlinked, pc, late, kind, taken,
                 result, refVars, lockVars>>

\* A handle opened for reading only has no threads: its transport is
\* unlinked under transport_lock, with usb_lock and h->lock held.
PollKickReadOnly(h) ==
  /\ poll.pc = "kick" /\ h \in poll.todo /\ ~mark[h] /\ lock[h] = "free"
  /\ ~writeable[h] /\ ~dead[h]
  /\ dead' = [dead EXCEPT ![h] = TRUE]
  /\ lock' = [lock EXCEPT ![h] = "poll"]
  /\ poll' = [poll EXCEPT !.pc = "unregister"]
  /\ UNCHANGED <<dev, mem, writeable, mark, listed, unlinked, urbVars, pc, writeVars,
                 refVars, usbLock, transportLock>>

PollUnregister(h) ==
  /\ poll.pc = "unregister" /\ lock[h] = "poll" /\ transportLock = "free"
  /\ unlinked' = unlinked \cup {h}
  /\ lock' = [lock EXCEPT ![h] = "free"]
  /\ poll' = [pc |-> "kick", todo |-> poll.todo \ {h}]
  /\ UNCHANGED <<dev, mem, writeable, mark, dead, listed, urbVars, pc, writeVars, refVars,
                 usbLock, transportLock>>

PollSleep ==
  /\ poll.pc = "kick" /\ poll.todo = {}
  /\ usbLock' = "free"
  /\ poll' = [pc |-> "sleep", todo |-> {}]
  /\ UNCHANGED <<dev, handleVars, urbVars, pc, writeVars, refVars, transportLock, lock>>

Poll ==
  \/ PollScan \/ PollKickStart \/ PollSleep
  \/ \E h \in Handles : \/ PollKnown(h) \/ PollSkip(h) \/ PollRegister(h) \/ PollUnmark(h)
                        \/ PollKick(h) \/ PollKickReadOnly(h) \/ PollUnregister(h)

-----------------------------------------------------------------------------
(* The transport: main starts its threads when it is registered. *)
StartThreads(h) ==
  /\ h \in listed /\ writeable[h] /\ refs[h] = 0
  /\ pc[h] = [th \in Threads |-> "none"]
  /\ pc' = [pc EXCEPT ![h] = [th \in Threads |-> IF th = "out" THEN "read" ELSE "write"]]
  /\ refs' = [refs EXCEPT ![h] = 2]
  /\ UNCHANGED <<dev, handleVars, urbVars, writeVars, kicked, poll, lockVars>>

To(h, th, l) == pc' = [pc EXCEPT ![h][th] = l]

(* usb_bulk_read in the output thread. *)
ReadSubmit(h) ==
  /\ pc[h]["out"] = "read" /\ lock[h] = "free"
  /\ IF dead[h] \/ dev[h] # "plugged"
     THEN To(h, "out", "end") /\ UNCHANGED urbVars
     ELSE /\ urbIn' = [urbIn EXCEPT ![h] = "flight"]
          /\ reaper' = [reaper EXCEPT ![h] = TRUE]
          /\ To(h, "out", "reap")
          /\ UNCHANGED <<busyOut, urbOut, complete, signal, reaped>>
  /\ UNCHANGED <<dev, handleVars, writeVars, refVars, poll, lockVars>>

\* ioctl(REAPURB), without the lock: the first URB that is complete, EINTR,
\* or an error once the device is gone.
Reap(h) ==
  /\ pc[h]["out"] = "reap"
  /\ \/ /\ complete[h] # << >> /\ Head(complete[h]) = "in"
        /\ complete' = [complete EXCEPT ![h] = Tail(@)]
        /\ reaped' = [reaped EXCEPT ![h] = IF urbIn[h] = "done" THEN "in" ELSE "inFailed"]
        /\ urbIn' = [urbIn EXCEPT ![h] = "idle"]
        /\ UNCHANGED <<signal, urbOut, wstatus>>
     \/ /\ complete[h] # << >> /\ Head(complete[h]) = "out"
        /\ complete' = [complete EXCEPT ![h] = Tail(@)]
        /\ reaped' = [reaped EXCEPT ![h] = "out"]
        /\ wstatus' = [wstatus EXCEPT ![h] = urbOut[h]]
        /\ urbOut' = [urbOut EXCEPT ![h] = "idle"]
        /\ UNCHANGED <<signal, urbIn>>
     \/ /\ signal[h]
        /\ signal' = [signal EXCEPT ![h] = FALSE]
        /\ reaped' = [reaped EXCEPT ![h] = "intr"]
        /\ UNCHANGED <<urbIn, urbOut, complete, wstatus>>
     \/ /\ dev[h] = "gone"
        /\ reaped' = [reaped EXCEPT ![h] = "error"]
        /\ UNCHANGED <<signal, urbIn, urbOut, complete, wstatus>>
  /\ To(h, "out", "reaped")
  /\ UNCHANGED <<dev, handleVars, reaper, busyOut, notified, late, kind, taken, result,
                 refVars, poll, lockVars>>

\* usb_read(): the next transfer after a whole one, the end after any other.
NextRead(h) == IF ~dead[h] /\ reaped[h] = "in" THEN "read" ELSE "end"

\* Back under the lock.
AfterReap(h) ==
  /\ pc[h]["out"] = "reaped" /\ lock[h] = "free"
  /\ LET again == ~dead[h] /\ reaped[h] \in {"intr", "out"}
         sent == ~dead[h] /\ reaped[h] = "out"
     IN /\ reaper' = [reaper EXCEPT ![h] = again]
        /\ busyOut' = [busyOut EXCEPT ![h] = @ /\ ~sent]
        /\ notified' = [notified EXCEPT ![h] = @ \/ sent]
        /\ To(h, "out", IF again THEN "reap" ELSE NextRead(h))
  /\ reaped' = [reaped EXCEPT ![h] = "none"]
  /\ UNCHANGED <<dev, handleVars, urbIn, urbOut, complete, signal, late, kind, wstatus, taken, result,
                 refVars, poll, lockVars>>

-----------------------------------------------------------------------------
(* usb_bulk_write in the input thread, for data or for the marker. *)
WriteSubmit(h) ==
  /\ pc[h]["in"] = "write" /\ lock[h] = "free"
  /\ IF dead[h] \/ dev[h] # "plugged"
     THEN /\ result' = [result EXCEPT ![h] = "failed"]
          /\ UNCHANGED <<pc, urbVars, notified, late, kind, wstatus, taken>>
     ELSE /\ urbOut' = [urbOut EXCEPT ![h] = "flight"]
          /\ busyOut' = [busyOut EXCEPT ![h] = TRUE]
          /\ wstatus' = [wstatus EXCEPT ![h] = "none"]
          /\ notified' = [notified EXCEPT ![h] = FALSE]
          /\ late' = [late EXCEPT ![h] = FALSE]
          /\ taken' = [taken EXCEPT ![h] = FALSE]
          /\ result' = [result EXCEPT ![h] = "none"]
          /\ \E k \in {"data", "zero"} :
               /\ k = "zero" => kind[h] = "data" /\ result[h] = "ok"
               /\ kind' = [kind EXCEPT ![h] = k]
          /\ To(h, "in", "wait")
          /\ UNCHANGED <<reaper, urbIn, complete, signal, reaped>>
  /\ UNCHANGED <<dev, handleVars, refVars, poll, lockVars>>

\* The marker asks for no bytes, so only a number other than 0 is a failure:
\* ETIMEDOUT left by the timer.
WriteEnds(h, ok) ==
  /\ \E res \in {"ok", "failed"} :
       /\ res = "ok" => ok \/ kind[h] = "zero"
       /\ res = "failed" => ~ok /\ (kind[h] = "data" \/ late[h])
       /\ result' = [result EXCEPT ![h] = res]
  /\ late' = [late EXCEPT ![h] = FALSE]
  /\ To(h, "in", "write")

(* Mutants of WriteWake: the timer ends the wait; a URB that is no longer    *)
(* busy counts as written.                                                   *)
WriteWakeTimesOut(h) ==
  /\ pc[h]["in"] = "wait" /\ lock[h] = "free"
  /\ notified[h] \/ late[h]
  /\ notified' = [notified EXCEPT ![h] = FALSE]
  /\ IF dead[h] \/ ~busyOut[h] \/ late[h]
     THEN WriteEnds(h, ~dead[h] /\ wstatus[h] = "done")
     ELSE UNCHANGED <<pc, late, result>>
  /\ UNCHANGED <<dev, handleVars, urbVars, kind, wstatus, taken, refVars, poll, lockVars>>

WriteWakeNoStatus(h) ==
  /\ pc[h]["in"] = "wait" /\ lock[h] = "free"
  /\ notified[h] \/ late[h]
  /\ notified' = [notified EXCEPT ![h] = FALSE]
  /\ IF dead[h] \/ ~busyOut[h]
     THEN WriteEnds(h, ~dead[h])
     ELSE UNCHANGED <<pc, late, result>>
  /\ UNCHANGED <<dev, handleVars, urbVars, kind, wstatus, taken, refVars, poll, lockVars>>

\* pthread_cond_timedwait() returns 0 or, at the timer, ETIMEDOUT, which is
\* positive: either way only dead and urb_out_busy end the loop.
WriteWake(h) ==
  /\ pc[h]["in"] = "wait" /\ lock[h] = "free"
  /\ notified[h] \/ late[h]
  /\ notified' = [notified EXCEPT ![h] = FALSE]
  /\ IF dead[h] \/ ~busyOut[h]
     THEN WriteEnds(h, ~dead[h] /\ wstatus[h] = "done")
     ELSE UNCHANGED <<pc, late, result>>
  /\ UNCHANGED <<dev, handleVars, urbVars, kind, wstatus, taken, refVars, poll, lockVars>>

\* The input thread ignores the result, and ends when the output thread's
\* SYNC came round.
WriterStops(h) ==
  /\ pc[h]["in"] = "write" /\ pc[h]["out"] \in {"end", "kick", "unref", "close", "done"}
  /\ To(h, "in", "end")
  /\ UNCHANGED <<dev, handleVars, urbVars, writeVars, refVars, poll, lockVars>>

-----------------------------------------------------------------------------
(* The end of a thread: kick_transport() and transport_unref(). *)

\* Only the first to set kicked, under transport_lock, goes on to usb_kick().
KickTransport(h, th) ==
  /\ pc[h][th] = "end" /\ transportLock = "free"
  /\ kicked' = [kicked EXCEPT ![h] = TRUE]
  /\ To(h, th, IF kicked[h] THEN "unref" ELSE "kick")
  /\ UNCHANGED <<dev, handleVars, urbVars, writeVars, refs, poll, lockVars>>

UsbKick(h, th) ==
  /\ pc[h][th] = "kick" /\ lock[h] = "free"
  /\ IF dead[h] THEN NoKick(h) ELSE Kick(h)
  /\ To(h, th, "unref")
  /\ UNCHANGED <<dev, mem, writeable, mark, listed, unlinked, late, kind, taken, result,
                 refVars, poll, lockVars>>

\* The last reference closes, with transport_lock held.
Unref(h, th) ==
  /\ pc[h][th] = "unref" /\ transportLock = "free"
  /\ refs' = [refs EXCEPT ![h] = @ - 1]
  /\ To(h, th, IF refs[h] = 1 THEN "close" ELSE "done")
  /\ transportLock' = IF refs[h] = 1 THEN th ELSE "free"
  /\ UNCHANGED <<dev, handleVars, urbVars, writeVars, kicked, poll, usbLock, lock>>

Freed(h) ==
  /\ mem' = [mem EXCEPT ![h] = "none"]
  /\ dev' = [dev EXCEPT ![h] = IF @ = "gone" THEN "absent" ELSE @]
  /\ urbIn' = [urbIn EXCEPT ![h] = "idle"] /\ urbOut' = [urbOut EXCEPT ![h] = "idle"]
  /\ complete' = [complete EXCEPT ![h] = << >>]
  /\ signal' = [signal EXCEPT ![h] = FALSE]
  /\ pc' = [pc EXCEPT ![h] = [th \in Threads |-> "none"]]
  /\ result' = [result EXCEPT ![h] = "none"] /\ kind' = [kind EXCEPT ![h] = "data"]
  /\ transportLock' = "free"
  /\ UNCHANGED <<writeable, mark, dead, unlinked, reaper, busyOut, reaped, notified, late,
                 wstatus, taken, refVars, poll, usbLock, lock>>

(* Mutant of UsbClose: does not wait for usb_lock. *)
UsbCloseUnlocked(h, th) ==
  /\ pc[h][th] = "close"
  /\ listed' = listed \ {h}
  /\ Freed(h)

\* usb_close(): off the list under usb_lock, closed, freed.  The kernel
\* drops the URBs with the descriptor.
UsbClose(h, th) ==
  /\ pc[h][th] = "close" /\ usbLock = "free"
  /\ listed' = listed \ {h}
  /\ Freed(h)

-----------------------------------------------------------------------------
(* External: the device, the kernel and the clock. *)
Plug(h) ==
  /\ dev[h] = "absent"
  /\ dev' = [dev EXCEPT ![h] = "plugged"]
  /\ UNCHANGED <<handleVars, urbVars, pc, writeVars, refVars, poll, lockVars>>

Unplug(h) ==
  /\ dev[h] = "plugged"
  /\ dev' = [dev EXCEPT ![h] = IF mem[h] = "none" THEN "absent" ELSE "gone"]
  /\ Discard(h)
  /\ UNCHANGED <<handleVars, reaper, busyOut, signal, reaped, pc, writeVars, refVars, poll,
                 lockVars>>

CompleteIn(h) ==
  /\ urbIn[h] = "flight"
  /\ \E s \in {"done", "failed"} : urbIn' = [urbIn EXCEPT ![h] = s]
  /\ complete' = [complete EXCEPT ![h] = Append(@, "in")]
  /\ UNCHANGED <<dev, handleVars, reaper, busyOut, urbOut, signal, reaped, pc, writeVars,
                 refVars, poll, lockVars>>

CompleteOut(h) ==
  /\ urbOut[h] = "flight"
  /\ \E s \in {"done", "failed"} :
       /\ urbOut' = [urbOut EXCEPT ![h] = s]
       /\ taken' = [taken EXCEPT ![h] = s = "done"]
  /\ complete' = [complete EXCEPT ![h] = Append(@, "out")]
  /\ UNCHANGED <<dev, handleVars, reaper, busyOut, urbIn, signal, reaped, pc, notified, late,
                 kind, wstatus, result, refVars, poll, lockVars>>

TimerRunsOut(h) ==
  /\ pc[h]["in"] = "wait" /\ ~late[h]
  /\ late' = [late EXCEPT ![h] = TRUE]
  /\ UNCHANGED <<dev, handleVars, urbVars, pc, notified, kind, wstatus, taken, result,
                 refVars, poll, lockVars>>

Outputs(h) == ReadSubmit(h) \/ Reap(h) \/ AfterReap(h)
Inputs(h) == WriteSubmit(h) \/ WriteWake(h)
Ending(h, th) ==
  KickTransport(h, th) \/ UsbKick(h, th) \/ Unref(h, th) \/ UsbClose(h, th)
Environment(h) ==
  Plug(h) \/ Unplug(h) \/ CompleteIn(h) \/ CompleteOut(h) \/ TimerRunsOut(h)

Next ==
  \/ Poll
  \/ \E h \in Handles :
       \/ StartThreads(h) \/ Outputs(h) \/ Inputs(h) \/ WriterStops(h) \/ Environment(h)
       \/ \E th \in Threads : Ending(h, th)

Spec == Init /\ [][Next]_vars

\* Threads run; nothing is assumed of the device or the clock.  The input
\* thread is told to stop once the output thread has ended.  The poll thread
\* sleeps for a second without usb_lock, so a thread that waits for the lock
\* gets it.
FairSpec ==
  /\ Spec /\ WF_vars(Poll)
  /\ \A h \in Handles :
       /\ WF_vars(StartThreads(h)) /\ WF_vars(Outputs(h))
       /\ WF_vars(WriteWake(h)) /\ WF_vars(WriterStops(h))
       /\ \A th \in Threads : WF_vars(Ending(h, th)) /\ SF_vars(UsbClose(h, th))

-----------------------------------------------------------------------------
(* Properties. *)

(* The types of the state. *)
HandleType ==
  /\ dev \in [Handles -> {"absent", "plugged", "gone"}]
  /\ mem \in [Handles -> {"none", "live"}]
  /\ writeable \in [Handles -> BOOLEAN] /\ mark \in [Handles -> BOOLEAN]
  /\ dead \in [Handles -> BOOLEAN]
  /\ listed \subseteq Handles /\ unlinked \subseteq Handles

UrbType ==
  /\ reaper \in [Handles -> BOOLEAN] /\ busyOut \in [Handles -> BOOLEAN]
  /\ urbIn \in [Handles -> {"idle", "flight", "done", "failed"}]
  /\ urbOut \in [Handles -> {"idle", "flight", "done", "failed"}]
  /\ complete \in [Handles -> Seq(Threads)]
  /\ signal \in [Handles -> BOOLEAN]
  /\ reaped \in [Handles -> {"none", "in", "inFailed", "out", "intr", "error"}]

WriteType ==
  /\ notified \in [Handles -> BOOLEAN] /\ late \in [Handles -> BOOLEAN]
  /\ kind \in [Handles -> {"data", "zero"}]
  /\ wstatus \in [Handles -> {"none", "done", "failed"}]
  /\ taken \in [Handles -> BOOLEAN]
  /\ result \in [Handles -> {"none", "ok", "failed"}]

Labels == {"none", "read", "reap", "reaped", "write", "wait", "end", "kick", "unref", "close",
           "done"}

ThreadType ==
  /\ pc \in [Handles -> [Threads -> Labels]]
  /\ kicked \in [Handles -> BOOLEAN] /\ refs \in [Handles -> 0 .. 2]

LockType ==
  /\ poll \in [pc : {"sleep", "scan", "kick", "unregister"}, todo : SUBSET Handles]
  /\ usbLock \in {"free", "poll"} /\ transportLock \in {"free"} \cup Threads
  /\ lock \in [Handles -> {"free", "poll"}]

TypeOK == HandleType /\ UrbType /\ WriteType /\ ThreadType /\ LockType

(* A URB is filled in and submitted again only when the kernel is done with  *)
(* it and it has been reaped: urb_in and urb_out are single buffers in the   *)
(* handle, and usb_bulk_write() clears its one before it takes the lock.     *)
UrbNotReused ==
  [][\A h \in Handles :
       /\ pc[h]["out"] = "read" /\ pc'[h]["out"] = "reap" => urbIn[h] = "idle"
       /\ pc[h]["in"] = "write" /\ pc'[h]["in"] = "wait" => urbOut[h] = "idle"]_vars

(* A data write that usb_bulk_write() reports as complete was taken by the   *)
(* device, whatever kicks, timeouts and reaps happened meanwhile.            *)
WrittenIsTaken ==
  \A h \in Handles : result[h] = "ok" /\ kind[h] = "data" => taken[h]

(* Nobody uses a handle that is not there: the poll thread works only on     *)
(* handles of the list, and a thread that goes to free one in usb_close()    *)
(* is the last of its transport's two.                                       *)
UsedIsLive ==
  \A h \in Handles :
    /\ mem[h] = "none" =>
         /\ h \notin listed /\ lock[h] = "free"
         /\ ~(poll.pc \in {"kick", "unregister"} /\ h \in poll.todo)
         /\ \A th \in Threads : pc[h][th] \in Done
    /\ \A th, o \in Threads : pc[h][th] = "close" /\ o # th => pc[h][o] = "done"

(* A handle opened for writing whose device is gone, or that was kicked, is  *)
(* closed and freed, although its threads may be blocked in REAPURB and on   *)
(* the condition variable and the signal of usb_kick() may be lost.          *)
LostHandleIsFreed ==
  \A h \in Handles :
    mem[h] = "live" /\ writeable[h] /\ (dev[h] = "gone" \/ dead[h]) ~> mem[h] = "none"

(* "time out after five seconds" (usb_bulk_write): a write whose timer ran   *)
(* out returns.                                                              *)
WriteTimesOut ==
  \A h \in Handles : late[h] ~> pc[h]["in"] # "wait"
=============================================================================
