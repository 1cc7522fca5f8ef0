---------------------------- MODULE MCCommandPath ----------------------------
(***************************************************************************)
(* Small values for CommandPath: two settings, one of them the listener's    *)
(* URL, and a command channel of one.  Every kind of command occurs.         *)
(***************************************************************************)
EXTENDS CommandPath

MCField == {"spread", "url"}
MCUser == {"ann"}
MCKinds == <<{"set", "log"}, {"replace", "unknown"}, {"set", "register"}>>
=============================================================================
