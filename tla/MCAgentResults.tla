--------------------------- MODULE MCAgentResults ---------------------------
(***************************************************************************)
(* The part of MCComponents that Agents write to: the knowledge files of   *)
(* their workspaces and the deliveries of their results.  They share no    *)
(* state.                                                                  *)
(***************************************************************************)
EXTENDS AgentWorkspace

CONSTANTS
  Tasks, Deliverers, DeliveryMode, QueueLimit, DeliveryFaults, MaxVersion, MaxDeliveryEvents

VARIABLES
  status, version, current, acting, row, relabelled, sent, marks, job, script, call, service,
  deliveryEvents

Delivery == INSTANCE ResultDelivery WITH
  Workers <- Deliverers, Mode <- DeliveryMode, Environment <- DeliveryFaults, MaxEvents <- MaxDeliveryEvents,
  events <- deliveryEvents

ASSUME AgentResultsAssumption == Delivery!ResultDeliveryAssumption
=============================================================================
