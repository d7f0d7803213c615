---- MODULE MCConnectionPool ----
(* ConnectionPool for TLC. *)
EXTENDS ConnectionPool
====
