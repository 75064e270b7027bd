-------------------------------- MODULE MCStream --------------------------------
(* Two runs over the same seeded pool, with one saga each.                     *)
EXTENDS Stream, TLC

CONSTANTS boss, clerk, robot, new1, f1, f2

Person(human, grade, entitlements) ==
  [human |-> human, grade |-> grade, status |-> "active", held |-> entitlements]
MCStaff == (boss :> Person(TRUE, "VP", {f1})) @@ (clerk :> Person(TRUE, "Associate", {f2}))
             @@ (robot :> Person(FALSE, "Associate", {}))
=============================================================================
