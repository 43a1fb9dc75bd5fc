---------------------------- MODULE MCWebClient ----------------------------
(***************************************************************************)
(* The session and the conversation view of the web client.  They share no *)
(* state: each behaviour is of the one that focus names.                   *)
(***************************************************************************)
EXTENDS WebSession, ChatView

VARIABLE focus

vars == <<focus, webVars, chatVars>>

Init ==
    /\ focus \in {"session", "chat"}
    /\ WebInit
    /\ ChatInit

Next ==
    /\ UNCHANGED focus
    /\ \/ focus = "session" /\ WebNext /\ UNCHANGED chatVars
       \/ focus = "chat" /\ ChatNext /\ UNCHANGED webVars

Spec == Init /\ [][Next]_vars
============================================================================
