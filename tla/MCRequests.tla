----------------------------- MODULE MCRequests -----------------------------
(***************************************************************************)
(* Requests with ints of two bits: each sort of value with the least and   *)
(* the greatest it can have and those beside the limits of the code.       *)
(***************************************************************************)
EXTENDS Requests, TLC

SmallSample ==
  [OBJECT_ID |-> {<<1, IntMax, 0>>, <<1, IntMax + 1>>, <<1, Half - 1>>},
   OCTET_STR |-> {<<>>, <<"bin">>, <<"plain">>, <<"hex", "bin">>,
                  <<"hex", "plain">>, <<"hex", "hex", "bin">>},
   INTEGER |-> IntMin .. IntMax,
   IPADDRESS |-> {"10.0.0.1", "255.255.255.255"},
   COUNTER |-> 0 .. (Half - 1),
   GAUGE |-> 0 .. (Half - 1),
   TIMETICKS |-> {0, 99, 5999, 359900, 8640000},
   OPAQUE |-> {<<>>, <<"bin">>, <<"plain">>},
   COUNTER64 |-> [high : {0, 1, Half - 1}, low : {0, 1, Half - 1}]]

Symmetry == Permutations(Block)
=============================================================================
