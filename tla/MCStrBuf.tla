------------------------------ MODULE MCStrBuf ------------------------------
(* A small size_t, so that all the lengths around its limits are reached.  *)
EXTENDS StrBuf

============================================================================
