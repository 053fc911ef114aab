-------------------------- MODULE MCFrame60Pacing --------------------------
(* A logic slot of 30 ticks, retraces 16 apart (a little over half a slot,   *)
(* as in the code, where they are 0.1 % over), and four workloads: 60 Hz     *)
(* with iterations that fit a field, overrun it or overrun a slot; uncapped; *)
(* 120 Hz; and 60 Hz with the governor on.                                   *)
EXTENDS Frame60Pacing

MCConfigs ==
  {[hz |-> 60,  auto |-> FALSE, works |-> {4, 18, 38}, grids |-> {TRUE}],
   [hz |-> 60,  auto |-> FALSE, works |-> {4, 18},     grids |-> {FALSE}],
   [hz |-> 60,  auto |-> FALSE, works |-> {4},         grids |-> BOOLEAN],
   [hz |-> 60,  auto |-> TRUE,  works |-> {4},         grids |-> {TRUE}],
   [hz |-> 120, auto |-> FALSE, works |-> {2, 11},      grids |-> {TRUE}],
   [hz |-> 0,   auto |-> FALSE, works |-> {1, 64},     grids |-> {TRUE}]}
=============================================================================
