----------------------------- MODULE MCSockets ------------------------------
(***************************************************************************)
(* Sockets for TLC, and the mapping of its state to the promise of Stream.  *)
(***************************************************************************)
EXTENDS Sockets

(* What has been written is known by its length; what a client was given is  *)
(* what adb_write took for it.                                               *)
Promise == INSTANCE Stream WITH
  written <- [s \in Sockets |-> [toClient |-> Chunk(0, devSent[s]),
                                 toDevice |-> Chunk(0, sent[s])]],
  read <- [s \in Sockets |-> [toClient |-> given[s], toDevice |-> devGiven[s]]],
  ended <- [s \in Sockets |-> sock[s] = "gone"],
  broken <- [s \in Sockets |-> ~client[s] \/ link # "up"]

(* Every connection the server carries behaves as the two ordered streams    *)
(* that Stream promises: nothing lost, reordered or repeated while the       *)
(* device is attached and the client is there, and what the device sent      *)
(* before its CLSE reaches the client (local_socket_enqueue,                 *)
(* local_socket_event_func, local_socket_close_locked).                      *)
StreamPromise == Promise!Spec
=============================================================================
