---------------------------- MODULE MCDelivery ----------------------------
(* Model-checking module of Delivery; its constants are in the .cfg files. *)
EXTENDS Delivery
============================================================================
