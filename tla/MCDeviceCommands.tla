-------------------------- MODULE MCDeviceCommands --------------------------
(* DeviceCommands on a few commands of different types; a configuration says  *)
(* which type each has, the environment events and the bounds.                *)
EXTENDS DeviceCommands

CONSTANTS a, b, script, waited, backup, probe, pam

One == {a}
OtherOne == {b}
Two == {a, b}
None == {}

\* One command of every type the table treats differently.
Kinds == {script, waited, backup, probe, pam}
WaitedKinds == {waited, backup}
BackupKinds == {backup}
ProbeKinds == {probe}
PamKinds == {pam}
ScriptKinds == {script, waited}

=============================================================================
