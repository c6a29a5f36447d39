------------------------------ MODULE Delivery ------------------------------
(***************************************************************************)
(* What the node promises for the records it samples, without tasks,       *)
(* queues, counters or boots: at-least-once delivery, and which losses are *)
(* declared (README.md:11, docs/architecture.md).                          *)
(*                                                                         *)
(* A record in the node's custody is in RAM, on the card, or on both.  It  *)
(* leaves custody only if it has been delivered or dropped, and does not   *)
(* come back.  Only what is in RAM can be delivered or dropped.  Two steps *)
(* lose records that nobody declares: a restart takes what is in RAM       *)
(* alone, and nothing from the card; a cut of the card takes what is on    *)
(* the card alone, unless a reset caused it.                               *)
(*                                                                         *)
(* Node implements this specification (DeliveryProofs).                    *)
(***************************************************************************)
CONSTANTS
  Record,                       \* the telemetry records
  CardCuts                      \* may the card lose what it stores?

VARIABLES
  sampled,                      \* the records telemetry has built
  inRam,                        \* those held by a task or the MQTT client
  stored,                       \* those in the queue file, served or not
  delivered,                    \* those the broker has
  dropped,                      \* those given up, with an error, at least once
  lost                          \* those that went without one

deliveryVars == <<sampled, inRam, stored, delivered, dropped, lost>>

Custody == inRam \cup stored

DeliveryInit ==
  /\ sampled = {} /\ inRam = {} /\ stored = {}
  /\ delivered = {} /\ dropped = {} /\ lost = {}

\* No record comes into custody, and none leaves it unaccounted for.
Keep ==
  /\ Custody' \subseteq Custody
  /\ Custody \ Custody' \subseteq delivered' \cup dropped'

Sample(r) ==
  /\ r \notin sampled
  /\ sampled' = sampled \cup {r}
  /\ inRam' = inRam \cup {r}
  /\ UNCHANGED <<stored, delivered, dropped, lost>>

\* A record is handed on, stored, served or discarded.
Move == Keep /\ UNCHANGED <<sampled, delivered, dropped, lost>>

Deliver(r) ==
  /\ r \in inRam
  /\ delivered' = delivered \cup {r}
  /\ Keep
  /\ UNCHANGED <<sampled, dropped, lost>>

Drop(r) ==
  /\ r \in inRam
  /\ dropped' = dropped \cup {r}
  /\ Keep
  /\ UNCHANGED <<sampled, delivered, lost>>

\* What is nowhere any more, and was not delivered, is lost.
Lose ==
  /\ lost' = lost \cup (Custody \ (Custody' \cup delivered))
  /\ UNCHANGED <<sampled, delivered, dropped>>

Restart == inRam' = {} /\ stored' = stored /\ Lose

\* The card loses what it stores, in a running node or with a reset.
Cut ==
  /\ CardCuts
  /\ stored' \subseteq stored /\ inRam' \in {inRam, {}}
  /\ Lose

DeliveryNext ==
  \/ Move \/ Restart \/ Cut
  \/ \E r \in Record : Sample(r) \/ Deliver(r) \/ Drop(r)

DeliverySpec == DeliveryInit /\ [][DeliveryNext]_deliveryVars
=============================================================================
