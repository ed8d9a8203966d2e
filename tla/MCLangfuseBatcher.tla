------------------------- MODULE MCLangfuseBatcher -------------------------
(* Small instances of LangfuseBatcher for TLC.  Calls are numbered in the  *)
(* order they start, which stands for symmetry among them.                 *)
EXTENDS LangfuseBatcher
=============================================================================
