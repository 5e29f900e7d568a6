--------------------------- MODULE MCFileWatcher ---------------------------
(* Three modifications of up to two events each: a coroutine can start     *)
(* while another one waits and a third is queued.                          *)
EXTENDS FileWatcher
=============================================================================
