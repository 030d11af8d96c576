--------------------------- MODULE MCSessionContext ---------------------------
(* Sessions of up to four events on two entities, and one never heard of. *)
EXTENDS SessionContext
CONSTANTS a, b, absent
Questions == {{a}, {a, b}, {a, absent}}
=============================================================================
