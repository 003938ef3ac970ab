----------------------------- MODULE MCWorkspace -----------------------------
(* The instance of Workspace that TLC checks.                              *)
EXTENDS Workspace, TLC

CONSTANTS p1, p2, a, b

(* Two contents for one version, a second version, both at once.           *)
TwoDigests == {{<<"k", 1, "d1">>}, {<<"k", 1, "d2">>}, {<<"k", 1, "d1">>, <<"k", 2, "d2">>}, {}}

(* One process runs every command, the other one writes whole profiles,    *)
(* applies and logs out.                                                   *)
Menus == (p1 :> {"login", "browser", "logout", "org", "space", "init", "whoami", "organizations", "spaces", "apply", "preview",
                 "prune", "publish", "unpublish", "install", "fork"})
         @@ (p2 :> {"telemetry", "apply", "logout"})

Symmetry == Permutations({a, b})
=============================================================================
