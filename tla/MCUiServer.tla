----------------------------- MODULE MCUiServer -----------------------------
(***************************************************************************)
(* UiServer for TLC, with the values of the .cfg: a body that does not     *)
(* parse, the body h3 gives a swallowed error, and two that fail its test  *)
(* in one respect.  Liveness is checked, so the requests are not declared  *)
(* symmetric.                                                              *)
(***************************************************************************)
EXTENDS UiServer

SomeBodies == {{}, SwallowedBody} \cup
              {SwallowedBody \cup {fact} : fact \in {"other_status", "other_keys"}}
=============================================================================
