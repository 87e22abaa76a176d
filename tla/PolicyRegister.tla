--------------------------- MODULE PolicyRegister ---------------------------
(***************************************************************************)
(* What SetKernelPolicy promises to the exec program: the policy that the  *)
(* kernel maps hold is always one that a caller asked for, in full, and it *)
(* changes from one to another in a single step under a larger generation. *)
(***************************************************************************)
EXTENDS Naturals

CONSTANTS Policies, Default

VARIABLES current,      \* the policy in force
          version       \* its generation

RegisterInit == current = Default /\ version = 0

Install(p) == current' = p /\ version' > version

RegisterNext == \E p \in Policies : Install(p)

RegisterSpec == RegisterInit /\ [][RegisterNext]_<<current, version>>
=============================================================================
