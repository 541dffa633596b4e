---------------------------- MODULE MCGdbClient ----------------------------
(* Small instances of GdbClient. *)
EXTENDS GdbClient

NoKeys == {}
OneKey == {"a:1"}
Launch == {"launch"}
AllModes == {"launch", "attach", "core"}
NoFrames == {}
OneFrame == {1}
=============================================================================
