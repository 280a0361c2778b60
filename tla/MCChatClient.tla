---------------------------- MODULE MCChatClient ----------------------------
(***************************************************************************)
(* ChatClient for TLC, and what the repository says of leaving the chat.   *)
(***************************************************************************)
EXTENDS ChatClient

(***************************************************************************)
(* Leaving the chat gives the terminal back (UX-39), and of the menu's     *)
(* commands /exit alone leaves it: /route is "routing transparency (same   *)
(* as `obligato route explain`)".                                          *)
(***************************************************************************)
EndRestoresTerminal == ~ Running => restored

(***************************************************************************)
(* A switch never finds the session's head moved: "should be impossible    *)
(* given the reducer's busy-rejection" (app.ts, switch_model).             *)
(***************************************************************************)
SwitchNeverRaces == Running /\ ~ model.busy => ~ behind
=============================================================================
