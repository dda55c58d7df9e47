-------------------------- MODULE MCEntryLifecycle --------------------------
(* One entry with one or two ports and a few calls of each kind in flight. *)
EXTENDS EntryLifecycle
=============================================================================
