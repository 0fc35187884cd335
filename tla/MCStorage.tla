----------------------------- MODULE MCStorage -----------------------------
(* Two tasks on each device; a chip of two sectors, one of them written    *)
(* behind a blank page; more runs of littlefs-test than file handles.      *)
EXTENDS Storage
=============================================================================
