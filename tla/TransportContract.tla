------------------------ MODULE TransportContract ------------------------
(***************************************************************************)
(* What ICommunication promises about the life of a transport, whatever    *)
(* the medium: open() acquires the resources, close() releases them, a     *)
(* receive thread lives strictly inside that interval, and a link (a       *)
(* descriptor that carries data) exists only inside it too.                *)
(***************************************************************************)
VARIABLES
    open,       \* the transport holds its resources
    reader,     \* a receive thread exists
    link        \* there is a descriptor that carries data

vars == <<open, reader, link>>

Init == ~open /\ ~reader /\ ~link

\* open(): connectionless and client transports have a link at once.
Open == ~open /\ open' /\ link' \in BOOLEAN /\ ~reader /\ UNCHANGED reader

StartReader == open /\ ~reader /\ reader' /\ UNCHANGED <<open, link>>
StopReader == reader /\ ~reader' /\ UNCHANGED <<open, link>>

LinkUp == open /\ ~link /\ link' /\ UNCHANGED <<open, reader>>
LinkDown == link /\ ~link' /\ UNCHANGED <<open, reader>>

\* close() releases the resources only when no receive thread is left.
Close == open /\ ~reader /\ ~open' /\ ~link' /\ UNCHANGED reader

Next == Open \/ StartReader \/ StopReader \/ LinkUp \/ LinkDown \/ Close
Spec == Init /\ [][Next]_vars
=============================================================================
