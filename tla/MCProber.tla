------------------------------ MODULE MCProber ------------------------------
(***************************************************************************)
(* A small instance of Prober: a pool of two accounts and one of a single  *)
(* account.                                                                *)
(***************************************************************************)
EXTENDS Prober

CONSTANTS main, side, x, y, z

MCPools  == <<main, side>>
MCListed == (main :> <<x, y>>) @@ (side :> <<z>>)
MCStarts ==
    LET everyone == (main :> {x, y}) @@ (side :> {z})
    IN  {[secs |-> (main :> 0) @@ (side :> 1), accts |-> (main :> {x}) @@ (side :> {z})],
         [secs |-> (main :> 3) @@ (side :> 1), accts |-> everyone]}
=============================================================================
