---------------------------- MODULE MCHostServer ----------------------------
(* An emulator, a host and a USB device.                                   *)
EXTENDS HostServer

Emu == [kind |-> "emu", serial |-> "emulator-5554", port |-> 5555]
Host == [kind |-> "host", serial |-> "host", port |-> 0]
Usb == [kind |-> "usb", serial |-> "terminal", port |-> 0]

MCTargets == {Emu, Host, Usb}
MCScanned == <<Emu>>
Symmetry == Permutations(Transports) \cup Permutations(Conns)
=============================================================================
