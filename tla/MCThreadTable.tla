--------------------------- MODULE MCThreadTable ---------------------------
(* Model-checking instance of ThreadTable: a few coroutine objects.        *)
EXTENDS ThreadTable
=============================================================================
