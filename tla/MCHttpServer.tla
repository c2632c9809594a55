---------------------------- MODULE MCHttpServer ----------------------------
(* The webserver's table on a small instance: more pcb addresses than      *)
(* slots, so the table fills up while addresses are reused.                *)
EXTENDS HttpServer
=============================================================================
