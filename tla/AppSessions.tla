------------------------------ MODULE AppSessions ------------------------------
(***************************************************************************)
(* What the engine promises to the application that registers its          *)
(* callbacks (SServerInitDesc, Connect): one callback at a time; on every  *)
(* connection index, sessions that open with an accept and end with        *)
(* exactly one disconnect before the next one opens; data and results only *)
(* where the session says so.                                              *)
(***************************************************************************)
CONSTANTS
    Slot,                   \* the pairs <<kind, connection index>>
    NoSlot                  \* the index 0 of a Connect that found no index

VARIABLES
    session,                \* for each slot, what the application was told
    callback                \* the callback that is running

appVars == <<session, callback>>

NoCallback == [what |-> "none", slot |-> NoSlot]
Calls(w, s) == [what |-> w, slot |-> s]

IsUser(s) == s[1] = "user"

AppInit == /\ session = [s \in Slot |-> "closed"]
           /\ callback = NoCallback

\* pFuncOnAcceptUser or pFuncOnAcceptServer: a session opens.
Accept(s) ==
    /\ callback = NoCallback
    /\ session[s] = "closed"
    /\ session' = [session EXCEPT ![s] = "open"]
    /\ callback' = Calls("OnAccept", s)

\* The success callback of Connect follows its accept at once.
ConnectSuccess(s) ==
    /\ callback = Calls("OnAccept", s) /\ ~IsUser(s)
    /\ callback' = Calls("OnConnectSuccess", s)
    /\ UNCHANGED session

\* The failure callback of Connect: never for an index that is in session.
ConnectFailed(s) ==
    /\ callback = NoCallback
    /\ s # NoSlot => session[s] = "closed"
    /\ callback' = Calls("OnConnectFailed", s)
    /\ UNCHANGED session

\* A packet: from a user only in session; a server may be heard before the
\* engine has announced it.
Recv(s) ==
    /\ callback = NoCallback
    /\ IsUser(s) => session[s] = "open"
    /\ callback' = Calls("OnRecv", s)
    /\ UNCHANGED session

\* pFuncOnDisconnctedUser or pFuncOnDisconnctedServer: the session is over.
Disconnect(s) ==
    /\ callback = NoCallback
    /\ session[s] = "open"
    /\ session' = [session EXCEPT ![s] = "closed"]
    /\ callback' = Calls("OnDisconnected", s)

\* The application returns; the success callback is still owed after the
\* accept of a server.
Return ==
    /\ callback # NoCallback
    /\ callback.what = "OnAccept" => IsUser(callback.slot)
    /\ callback' = NoCallback
    /\ UNCHANGED session

AppNext ==
    \/ \E s \in Slot : \/ Accept(s)
                       \/ ConnectSuccess(s)
                       \/ Recv(s)
                       \/ Disconnect(s)
    \/ \E s \in Slot \cup {NoSlot} : ConnectFailed(s)
    \/ Return

AppSpec == AppInit /\ [][AppNext]_appVars
=============================================================================
