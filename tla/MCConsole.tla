------------------------------- MODULE MCConsole -------------------------------
(* Instances of Console for TLC.                                             *)
EXTENDS Console

\* Everything but chats, and chats, which do not look at sessions, windows or the clock.
TwoMixes == {{"login", "current", "logout", "read", "rerun", "alert"}, {"chat"}}
AllTokens == {"console", "webhook"}
===============================================================================
