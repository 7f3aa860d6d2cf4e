-------------------------- MODULE MCGraphCollection --------------------------
(***************************************************************************)
(* GraphCollection with a unit of 30 seconds: the two timeouts are one     *)
(* unit, the refresh skew and the cap on Retry-After two.                  *)
(***************************************************************************)
EXTENDS GraphCollection

MCRetryAfters ==
    {NoHeader, [form |-> "date", value |-> 0],
     [form |-> "integer", value |-> -1], [form |-> "integer", value |-> 9]}

=============================================================================
