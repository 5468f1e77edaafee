----------------------------- MODULE MCStartup ------------------------------
(***************************************************************************)
(* Startup for TLC: three services, and the configurations.                *)
(***************************************************************************)
EXTENDS Startup

CONSTANTS sa, sb, sc, sx

MCService == {sa, sb, sc}

Services(fa, fb, fc) == [s \in MCService |-> CASE s = sa -> fa [] s = sb -> fb [] s = sc -> fc]

\* A chain, a fork, a join, every one across the slices too, a cycle beside a
\* sound service, an unknown name, and an order of weights against that of after.
Afters ==
  {Services(<<>>, <<sa>>, <<sb>>),
   Services(<<"init">>, <<sa>>, <<sa>>),
   Services(<<"net">>, <<"net">>, <<sa, sb>>),
   Services(<<"init">>, <<sa, "net">>, <<sb, sa>>),
   Services(<<"boot">>, <<sa, "init">>, <<sb, "init">>),
   Services(<<sb>>, <<sa>>, <<"init">>),
   Services(<<"init">>, <<sx, sa>>, <<sa, "init">>)}

HookSets ==
  {Services("delay", "exit", "delay"), Services("delay", "delay", "match"),
   Services("match", "delay", "exit")}

Everything(after, hooks, conditions, restarts) ==
  [after : after, hook : hooks, condition : conditions, restarts : restarts]

MCConfs ==
  Everything(Afters, HookSets,
             {Services(TRUE, TRUE, TRUE), Services(FALSE, TRUE, TRUE),
              Services(TRUE, FALSE, TRUE)},
             {Services(FALSE, FALSE, FALSE), Services(TRUE, TRUE, FALSE)})
=============================================================================
