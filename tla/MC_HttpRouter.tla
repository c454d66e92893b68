---------------------------- MODULE MC_HttpRouter ----------------------------
(* Instantiates HttpRouter for TLC: two path segments besides the empty    *)
(* one and a segment containing "..", two handler pointers.                *)
EXTENDS HttpRouter, TLC

CONSTANTS dd, h1, h2, null

MC_Segments == {"a", "b", "", dd}
MC_Handlers == {h1, h2}
HandlerSymmetry == Permutations(MC_Handlers)
=============================================================================
