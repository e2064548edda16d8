---------------------------- MODULE MC_PIVApplet ----------------------------
(* A small instance of the PIV applet for TLC. *)
EXTENDS PIVApplet

\* Of the last answer only the result of a key is told apart: no guard and,
\* types apart, no property reads the rest.
View == <<data, session, pinHistory, dataHistory, created, resp.slot, resp.kid>>
=============================================================================
