----------------------------- MODULE MCBuildPlan -----------------------------
(* Two images that share base, desktop and agent, and one on another desktop *)
(* whose Dockerfile may be missing.                                          *)
EXTENDS BuildPlan

MCTags == {<<1, 1, 1, 1>>, <<1, 1, 1, 2>>, <<1, 2, 1, 1>>}
MCNoDockerfile == {<<1, 2>>}
=============================================================================
