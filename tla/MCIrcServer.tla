---------------------------- MODULE MCIrcServer ----------------------------
(* Constants for the model checker's runs of IrcServer. *)
EXTENDS IrcServer

CONSTANTS alice, bob

AllHandlers == {"on_ping", "on_connect", "on_numeric", "on_privmsg", "on_raw"}
AllOrNone == {AllHandlers, {}}
OnlyPing == {{"on_ping"}}
=============================================================================
