------------------------------ MODULE MCKernel ------------------------------
(* Finite instances of Kernel: an up-like verb with two phases, the second   *)
(* one a read-back hook that dry runs skip, and every plugin bus of at most  *)
(* MaxPlugins hooks, before a builtin or tied with it.                       *)
EXTENDS Kernel

CONSTANT MaxPlugins   (* BOUND: hooks on the default bus *)

H(p, prio, skip) ==
  [phase |-> p, priority |-> prio, isolated |-> FALSE, skip_in_dry_run |-> skip]

MCBuiltins == <<H(1, 100, FALSE), H(2, 100, TRUE)>>

\* @on takes no skip_in_dry_run flag, so plugin hooks never carry it.
PluginHook == {H(p, prio, FALSE) : p \in 1..2, prio \in {50, 100}}

MCPluginBuses == UNION {[1..n -> PluginHook] : n \in 0..MaxPlugins}
=============================================================================
