--------------------------- MODULE MCReadTraining ---------------------------
(* Model-checking instance of ReadTraining: two modules, two DQ delay     *)
(* taps, three read cycles.  Preamble answers: none, in cycle 0, in cycle *)
(* 1, in cycle 2.  Data answers: an eye crossing a cycle boundary early,  *)
(* one later, one still open at the last cycle, none.                     *)
EXTENDS ReadTraining

MCPreambleResponses ==
  { {}, {<<0, 1>>}, {<<1, 0>>, <<1, 1>>}, {<<2, 0>>} }

MCDataResponses ==
  { {<<0, 1>>, <<1, 0>>},
    {<<1, 1>>, <<2, 0>>, <<2, 1>>},
    {<<2, 1>>, <<3, 0>>},
    {<<0, 1>>},
    {} }
=============================================================================
