--------------------------- MODULE MCHttpSession ---------------------------
(* One host allowed and one not, chunk sizes of the digits 0 and 2.         *)
EXTENDS HttpSession
=============================================================================
