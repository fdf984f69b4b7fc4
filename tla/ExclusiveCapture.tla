--------------------------- MODULE ExclusiveCapture ---------------------------
(***************************************************************************)
(* What capture streaming promises about the radios: a capture reads a set *)
(* of interfaces from the moment its dumpcap starts until it has exited,   *)
(* and no interface is ever read by two captures.  Who asks, who stops a   *)
(* capture and why it ends are left to the implementation (Capture).       *)
(***************************************************************************)

CONSTANTS
  Capture,     \* capture sessions, one per dumpcap process
  Interface    \* capture interfaces (wlanpi0, wlanpi1, ...)

VARIABLE reading   \* reading[c]: the interfaces capture c reads; {} when not running

Init == reading = [c \in Capture |-> {}]

(* A capture begins only on interfaces that no other capture reads. *)
Begin(c, ifaces) ==
  /\ reading[c] = {}
  /\ \A d \in Capture : reading[d] \cap ifaces = {}
  /\ reading' = [reading EXCEPT ![c] = ifaces]

(* A capture ends on all its interfaces at once. *)
End(c) == reading' = [reading EXCEPT ![c] = {}]

Next == \E c \in Capture :
          \/ End(c)
          \/ \E ifaces \in SUBSET Interface : Begin(c, ifaces)

Spec == Init /\ [][Next]_reading
===============================================================================
