----------------------------- MODULE MCPAXRuntime -----------------------------
(***************************************************************************)
(* Model-checking instance of PAXRuntime.  Three agents (orchestrator,     *)
(* data_ingestion, value_analysis) and five calls, so that every agent is  *)
(* busy at once and a call is rejected; "analyze" has a matching agent,    *)
(* "extract" has none and falls back to any idle one.  The requests reach  *)
(* confidences on both sides of the 0.85 vault threshold, and two calls   *)
(* reject after their await, one on null data and one on data that        *)
(* JSON.stringify refuses, in quantum mode as the default config has it.  *)
(***************************************************************************)
EXTENDS PAXRuntime

MCRequests ==
    {r \in [op : {"extract", "analyze", "other"}, keys : {0, 4}, valueKeys : {0, 2},
           data : {"plain"}] : r.valueKeys <= r.keys}
    \cup [op : {"extract"}, keys : {0}, valueKeys : {0},
          data : {"null", "unserializable"}]

=============================================================================
