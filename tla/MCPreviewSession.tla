-------------------------- MODULE MCPreviewSession --------------------------
(* PreviewSession for TLC: the constants of the runs.                      *)
EXTENDS PreviewSession

SessionFaults == {"sessionRead"}
AllFaults     == FaultKinds
None          == {}

\* Other extensions append entries and replace or cancel compactions.
Others == {"custom", "foreign"}

\* Everything but faults of the file system.
AllEnv == EnvKinds
=============================================================================
