------------------------------- MODULE MCServer -------------------------------
(* A small instance of Server: three hooks on up to three paths, two calls.  *)
EXTENDS Server
MCFlags == [testHooks : BOOLEAN, useTLS : BOOLEAN]
=============================================================================
