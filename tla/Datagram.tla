------------------------------ MODULE Datagram ------------------------------
(***************************************************************************)
(* One direction of a UDP path between a TFTP child process and its        *)
(* client.  Nothing under src/ implements it: Assignment_3/lib.c only      *)
(* calls sendto and recvfrom on datagram sockets.  A channel is the        *)
(* sequence of packets in flight, oldest first.  The constants say what    *)
(* the network may do to them, so that each result names what it needs.    *)
(***************************************************************************)
EXTENDS Integers, Sequences, SequencesExt

CONSTANTS
    Cap,          \* packets one direction holds; a packet sent beyond is dropped
    Lossy,        \* packets in flight may be lost
    Duplicating,  \* a packet may be delivered and stay in flight
    Reordering,   \* any packet in flight may be delivered, not only the oldest
    Prompt        \* no 1-second timer fires while a packet is in flight

ASSUME DatagramAssumption ==
    /\ Cap \in Nat \ {0}
    /\ Lossy \in BOOLEAN
    /\ Duplicating \in BOOLEAN
    /\ Reordering \in BOOLEAN
    /\ Prompt \in BOOLEAN

\* The channel after sendto of packet m.
SendTo(ch, m) == IF Len(ch) < Cap THEN Append(ch, m) ELSE ch

\* Positions of the packets recvfrom may return next.
Arrivals(ch) == {i \in DOMAIN ch : Reordering \/ i = 1}

\* The channels that may be left once the packet at position i was delivered.
AfterArrival(ch, i) ==
    {RemoveAt(ch, i)} \cup {c \in {ch} : Duplicating}

\* The channels that may be left once the network has lost a packet.
AfterLoss(ch) == {RemoveAt(ch, i) : i \in {j \in DOMAIN ch : Lossy}}
=============================================================================
