---------------------------- MODULE PortableCases ---------------------------
(* The tests the core test generator writes: the lifecycle of a parent and *)
(* a child, and a single submission that no form is filled in for.         *)
CONSTANTS parent, child, updated

navigate(route) == [type |-> "navigate", route |-> route]
fill(value)     == [type |-> "fill", value |-> value]
submit          == [type |-> "submit"]
waitFor(entity) == [type |-> "wait_for", entity |-> entity]

Lifecycle ==
  [steps |-> <<navigate({}), fill(parent), submit, waitFor(parent),
               navigate({parent}), fill(child), submit, waitFor(child),
               navigate({child}), fill(updated), submit, [type |-> "observe"]>>,
   asserted |-> {parent, child, updated}, cleanup |-> <<child, parent>>]

Submission ==
  [steps |-> <<submit, [type |-> "observe"]>>, asserted |-> {}, cleanup |-> <<parent>>]

MCTests == {Lifecycle, Submission}
=============================================================================
