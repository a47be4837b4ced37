---------------------------- MODULE MCDesktopRun ----------------------------
(* Instances of DesktopRun for TLC.                                        *)
EXTENDS DesktopRun

AllForms == SUBSET Sources \ {{}}
MixedOrFree == {Sources, {"free"}}

NoFaults == {}
AllFaults == {"create", "execute", "close"}
=============================================================================
