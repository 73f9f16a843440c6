----------------------- MODULE MCApplicationMessenger -----------------------
(* A thread and a job that send to the application; see the configuration. *)
EXTENDS ApplicationMessenger
CONSTANTS s1, w1
=============================================================================
