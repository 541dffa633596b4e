---------------------------- MODULE MCWorkbench ----------------------------
EXTENDS Workbench, TLC
CONSTANTS p, q, t, u

MCRoot == {p, q}
MCTests == {t, u}
MCTools == {"sanitizers", "coverage"}
Use(gives, most) == [gives |-> gives, most |-> most]
MCUses == {
  Use({"build", "run", "rebuild", "cancel build"}, 4),
  Use({"run", "open", "clean", "stop run"}, 3),
  Use({"debug", "configure", "cancel build", "close"}, 4),
  Use({"debug", "run", "stop debug", "restart debug"}, 3),
  Use({"attach", "core", "debug", "open"}, 3),
  Use({"discover", "run tests", "stop tests"}, 3),
  Use({"discover", "run test", "run"}, 3),
  Use({"discover", "rerun tests"}, 3),
  Use({"discover", "test preset", "close"}, 3),
  Use({"analyze", "stop analysis", "build", "close"}, 3),
  Use({"analyze", "discover", "run"}, 2),
  Use({"stage", "status", "open", "build"}, 4),
  Use({"stage", "diff", "history", "close"}, 4)}
Fresh(cache) == [src |-> 1, bin |-> IF cache THEN 1 ELSE 0, cache |-> cache, failedLog |-> cache, index |-> 0]
MCFirstDisk == {p :> Fresh(cache) @@ q :> Fresh(TRUE) : cache \in BOOLEAN}
MCVerdictsOf == t :> {"passed", "failed"} @@ u :> {"passed", "disabled"}
=============================================================================
