--------------------------- MODULE MCJsonlStorage ---------------------------
(* One latest-only document, one rewindable document, one task; a batch    *)
(* writes the document alone, or the task with either document.             *)
EXTENDS JsonlStorage
LatestDoc == {"latest"}
RewindableDoc == {"rewindable"}
OneTask == {"task"}
Together == {{"latest"}, {"latest", "task"}, {"rewindable", "task"}}
=============================================================================
