--------------------------- MODULE MCPageContents ---------------------------
(* An instance of PageContents for TLC: one block, which a provider        *)
(* recognizes in two ways, without its text, or not at all.                *)
EXTENDS PageContents, TLC

CONSTANTS b1, v1, v2, u1, u2, l1

Content(text, latex, table) ==
  [text |-> text, latex |-> latex, table |-> table, description |-> v1]

MCRecognitions ==
  {b1 :> Content(v1, v1, None), b1 :> Content(v2, v1, v1),
   b1 :> Content(None, v1, None), <<>>}
=============================================================================
