--------------------------- MODULE MCRegistration ---------------------------
(* Model-checking module of Registration; its constants are in the .cfg file. *)
EXTENDS Registration
============================================================================
