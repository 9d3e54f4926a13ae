---------------------------- MODULE LossyChannel ----------------------------
(***************************************************************************)
(* Channels that neither reorder nor repeat packets, but may lose them and *)
(* deliver noise.  Packets are numbered in the order they are handed over; *)
(* a delivery is a packet or noise, and more noise may follow it.          *)
(***************************************************************************)
EXTENDS Naturals, Sequences

CONSTANT Channels

VARIABLES sent, received     \* packets handed over; deliveries

Noise == 0

(* The packets that arrived.                                               *)
Arrived(c) == {Noise} \cup {received[c][i].packet : i \in 1..Len(received[c])}

Init ==
  /\ sent = [c \in Channels |-> 0]
  /\ received = [c \in Channels |-> <<>>]

Hand(c) ==
  /\ sent' = [sent EXCEPT ![c] = @ + 1]
  /\ UNCHANGED received

Arrive(c) ==
  /\ \E d \in [packet : 0..sent[c], stale : BOOLEAN] :
       /\ d.packet # Noise => \A p \in Arrived(c) : p < d.packet
       /\ received' = [received EXCEPT ![c] = Append(@, d)]
  /\ UNCHANGED sent

Next == \E c \in Channels : Hand(c) \/ Arrive(c)

Spec == Init /\ [][Next]_<<sent, received>>

=============================================================================
