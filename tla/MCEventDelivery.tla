-------------------------- MODULE MCEventDelivery ---------------------------
(***************************************************************************)
(* Two agents, the second depending on the first; both run once per        *)
(* ticket unless the configuration says otherwise.                         *)
(***************************************************************************)
EXTENDS EventDelivery, TLC

CONSTANTS upstream, dependent

\* depends_on_agent_ids.
Chain == (upstream :> {}) @@ (dependent :> {upstream})
=============================================================================
