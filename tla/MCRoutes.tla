------------------------------- MODULE MCRoutes -------------------------------
(* The route computation alone, in every network of the routers. *)
EXTENDS Routes

Spec == RoutesSpec
=============================================================================
