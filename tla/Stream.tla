------------------------------- MODULE Stream -------------------------------
(***************************************************************************)
(* What adb promises of a connection between a client on the host and a    *)
(* service on the device: two byte streams, one per direction.  Each       *)
(* reader gets what the other end wrote, in order, nothing twice and        *)
(* nothing skipped.  A connection that ends while the device is attached    *)
(* and the client is there has been delivered to the client in full; only   *)
(* the loss of the device or the client's own departure (Break) may cut it. *)
(***************************************************************************)
EXTENDS Naturals, Sequences

CONSTANT Sockets

VARIABLES written,   \* per socket and direction, what the writer has written
          read,      \* per socket and direction, what the reader was given
          ended,     \* the host has closed the client's socket
          broken     \* the client has left, or the device is gone

vars == <<written, read, ended, broken>>

Directions == {"toClient", "toDevice"}

Init ==
  /\ written = [s \in Sockets |-> [d \in Directions |-> << >>]]
  /\ read = [s \in Sockets |-> [d \in Directions |-> << >>]]
  /\ ended = [s \in Sockets |-> FALSE]
  /\ broken = [s \in Sockets |-> FALSE]

(* A writer adds to the end of its stream, while there is one. *)
Write(s, d) ==
  /\ ended[s] /\ d = "toClient" => broken[s]
  /\ Len(written[s][d]) < Len(written'[s][d])
  /\ SubSeq(written'[s][d], 1, Len(written[s][d])) = written[s][d]
  /\ written' = [written EXCEPT ![s][d] = written'[s][d]]
  /\ UNCHANGED <<read, ended, broken>>

(* A reader is given the next part of the stream. *)
Deliver(s, d) ==
  /\ ~(ended[s] /\ d = "toClient")
  /\ \E n \in Len(read[s][d]) + 1 .. Len(written[s][d]) :
       read' = [read EXCEPT ![s][d] = SubSeq(written[s][d], 1, n)]
  /\ UNCHANGED <<written, ended, broken>>

(* The connection ends with the last part of the stream. *)
End(s) ==
  /\ ~ended[s]
  /\ read' = [read EXCEPT ![s]["toClient"] = written[s]["toClient"]]
  /\ ended' = [ended EXCEPT ![s] = TRUE]
  /\ UNCHANGED <<written, broken>>

(* Connections that were broken end where they are. *)
Cut ==
  /\ \A s \in Sockets : ended'[s] # ended[s] => ended'[s] /\ broken[s]
  /\ ended' = [s \in Sockets |-> ended'[s]]
  /\ UNCHANGED <<written, read, broken>>

(* The device goes, which breaks every connection, or one client leaves. *)
Break ==
  /\ \A s \in Sockets : broken[s] => broken'[s]
  /\ broken' = [s \in Sockets |-> broken'[s]]
  /\ UNCHANGED <<written, read, ended>>

Next ==
  \/ \E s \in Sockets, d \in Directions : Write(s, d) \/ Deliver(s, d)
  \/ \E s \in Sockets : End(s)
  \/ Cut
  \/ Break

Spec == Init /\ [][Next]_vars
=============================================================================
