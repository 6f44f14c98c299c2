----------------------------- MODULE MCChainEditor -----------------------------
(* A session of the chain builder with a template and a JSON text whose numbers are not     *)
(* positions, chains of up to three steps. *)
EXTENDS ChainEditor

Template == <<[number |-> 1, deps |-> {}, frozen |-> FALSE],
              [number |-> 2, deps |-> {1}, frozen |-> TRUE]>>
Json == <<[number |-> 3, deps |-> {1}, frozen |-> TRUE],
          [number |-> 1, deps |-> {}, frozen |-> FALSE]>>
MCLoads == {Template, Json}
================================================================================
