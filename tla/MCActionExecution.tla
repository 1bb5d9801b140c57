------------------------- MODULE MCActionExecution -------------------------
(***************************************************************************)
(* Instances of ActionExecution for TLC: actions on two origins, with and  *)
(* without confirmation and credentials, and callers with and without the  *)
(* handlers for them.                                                      *)
(***************************************************************************)
EXTENDS ActionExecution, TLC

ActionOn(origin, confirm, auth) == [origin |-> origin, confirm |-> confirm, auth |-> auth]

SomeActions == {ActionOn("shop", TRUE, "optional"), ActionOn("bank", FALSE, "required")}

\* Handlers for both; or neither, but a disclosure context.
TwoSetups == {[confirm |-> TRUE, auth |-> TRUE, disclosure |-> FALSE],
              [confirm |-> FALSE, auth |-> FALSE, disclosure |-> TRUE]}
DisclosureSetup == {[confirm |-> TRUE, auth |-> TRUE, disclosure |-> TRUE]}

TaskSymmetry == Permutations(Tasks)
=============================================================================
