---------------------------- MODULE MCAdminTool ----------------------------
(* Model-checking instance of AdminTool: two ports, two installations' keys. *)
EXTENDS AdminTool
=============================================================================
