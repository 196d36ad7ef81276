------------------------ MODULE MC_ToolCallGuard ------------------------
(* One approved and one refused argument value, two other hooks that may    *)
(* stand before and after the adapter's, and two calls, so that hooks are   *)
(* registered or removed between them and within them.                      *)
EXTENDS ToolCallGuard

CONSTANTS approved, refused, h1, h2
MCArgs == {approved, refused}
MCApproved == {approved}
MCHook == {h1, h2}
=============================================================================
