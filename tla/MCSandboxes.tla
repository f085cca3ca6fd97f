----------------------------- MODULE MCSandboxes -----------------------------
(* Two projects, two tags, and the command lines that meet each other in the *)
(* ways the hazards need.                                                    *)
EXTENDS Sandboxes, TLC

UpOf(p, t) == [verb |-> "up", project |-> p, tag |-> t, dry |-> FALSE,
               recreate |-> FALSE, limits |-> NoLimits, port |-> DefaultPort,
               spelled |-> "absent", force |-> FALSE]
Do(v, p) == [UpOf(p, "t1") EXCEPT !.verb = v]

\* Docker may choose any of the free ports.
FreePortsAlike == Permutations(FreePorts)

MCProjects == {"sanity-gravity", "dev"}

MCCommands ==
  { [UpOf("sanity-gravity", "t1") EXCEPT !.recreate = TRUE],
    UpOf("sanity-gravity", "t2"),
    [UpOf("dev", "t1") EXCEPT !.limits = "4G"],
    [UpOf("dev", "t1") EXCEPT !.dry = TRUE, !.limits = "8G"],
    Do("down", "dev"), Do("clean", "dev"),
    Do("stop", "dev"), Do("start", "sanity-gravity"), Do("restart", "dev") }
=============================================================================
