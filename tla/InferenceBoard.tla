-------------------------- MODULE InferenceBoard --------------------------
(***************************************************************************)
(* What the board promises its hosts, and all that HostEngine relies on: a  *)
(* packet is taken once, in any order, and either ignored or served at one  *)
(* instant.  A model packet becomes the network, a feature packet is        *)
(* answered by the inference of its own features on the network of that     *)
(* instant, all three scores and the cycle count being of that inference.   *)
(***************************************************************************)
EXTENDS Integers

CONSTANTS
  PacketIds   \* identities of the packets

VARIABLES
  inbox,      \* packets that arrived and were not served
  outbox,     \* replies sent
  network     \* the model packet the network comes from; 0 before the first

bvars == <<inbox, outbox, network>>

Layers == 1..4
Scores == 1..3

\* A packet: its command byte, whether it has the length that command asks
\* for, and its identity.
Packet == [cmd : {"M", "D", "other"}, long : BOOLEAN, id : PacketIds]

\* The three scores of an inference: each depends on the features and on the
\* weights of all the layers.
Inference(id, net) ==
  [k \in Scores |-> [input |-> id, weights |-> [l \in Layers |-> net]]]

NoScores == << >>

Ack(p) == [kind |-> "ack", id |-> p.id, scores |-> NoScores, cycles |-> 0]
Decision(p, net) ==
  [kind |-> "decision", id |-> p.id, scores |-> Inference(p.id, net),
   cycles |-> p.id]

BoardInit == inbox = {} /\ outbox = {} /\ network = 0

Arrive ==
  /\ \E p \in Packet : inbox' = inbox \cup {p}
  /\ UNCHANGED <<outbox, network>>

\* A packet with another command or too short, or one lost on its way, or a
\* reply for which the board had no buffer.
Ignore ==
  /\ \E p \in inbox : inbox' = inbox \ {p}
  /\ UNCHANGED <<outbox, network>>

Load ==
  \E p \in inbox :
    /\ p.cmd = "M" /\ p.long
    /\ inbox' = inbox \ {p}
    /\ network' = p.id
    /\ outbox' \in {outbox, outbox \cup {Ack(p)}}

Answer ==
  \E p \in inbox :
    /\ p.cmd = "D" /\ p.long
    /\ inbox' = inbox \ {p}
    /\ outbox' = outbox \cup {Decision(p, network)}
    /\ UNCHANGED network

BoardNext == Arrive \/ Ignore \/ Load \/ Answer

BoardSpec == BoardInit /\ [][BoardNext]_bvars
=============================================================================
