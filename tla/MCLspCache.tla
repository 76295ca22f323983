------------------------------ MODULE MCLspCache ------------------------------
(* Sessions on two workspaces compete for a cache of one server; two threads, *)
(* three servers, a document with an error and one without.                   *)
EXTENDS LspCache, TLC
=============================================================================
