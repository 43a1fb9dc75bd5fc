----------------------------- MODULE ChatView -----------------------------
(***************************************************************************)
(* The conversation view of the web client (web/src/hooks/useChat.ts)      *)
(* against the chat server: the history of a conversation is loaded by a   *)
(* REST call, and only its answer shows the conversation and opens the     *)
(* socket that brings what follows.  A text is sent over the socket and    *)
(* shown at once as an optimistic entry, which its echo replaces; without  *)
(* an open socket it is sent by REST.  All texts of the user are the same  *)
(* here, the worst case for an echo that looks for its entry by content.   *)
(***************************************************************************)
EXTENDS Integers, Sequences, FiniteSets, SequencesExt

CONSTANTS Conversations,
          MaxMessages,   \* bound on the messages of a behaviour
          NoConversation

ASSUME ChatAssumption ==
    /\ MaxMessages \in Nat
    /\ NoConversation \notin Conversations
    /\ NoConversation \notin Int

VARIABLES log,       \* the server's messages, in the order of their ids
          unsent,    \* those stored, but not yet sent to their group
          stray,     \* per conversation: texts of earlier sockets, not yet handled
          active,    \* activeIdRef
          shown,     \* the conversation displayed
          messages,  \* the entries displayed: message ids, 0 for an optimistic one
          loading,
          selects,   \* per conversation: the one getConversation under way (a bound),
                     \* NoConversation without one
          socket,    \* wsRef: its conversation, and how far it has got
          up,        \* what was sent over it and its consumer has not handled
          handling,  \* the text its consumer has stored and not yet echoed, 0 for none
          refused,   \* the texts it has refused for want of authentication (history)
          down,      \* the events on their way to it: ids, 0 for AUTH_REQUIRED
          posts,     \* per conversation: REST messages not yet handled
          answers    \* the REST messages whose answer is under way

serverVars == <<log, unsent, stray>>
viewVars   == <<active, shown, messages, loading, selects>>
socketVars == <<socket, up, handling, refused, down>>
restVars   == <<posts, answers>>
chatVars   == <<log, unsent, stray, active, shown, messages, loading, selects,
                socket, up, handling, refused, down, posts, answers>>

Asked == -1   \* the server has not handled the call yet
AuthRequired == 0
NoSocket == [conv |-> NoConversation, state |-> "none"]

\* own: a text of this view over its socket; rest: one of its texts by REST;
\* alike: the same words from another participant, or from another tab.
Message == [conv : Conversations, kind : {"own", "rest", "alike", "other"}]

\* An accepted socket is open for the client, whatever its consumer does:
\* joining while connect() checks the token of the URL, anonymous without a
\* valid one.
OpenStates == {"joining", "anonymous", "joined"}
Socket == [conv : Conversations \union {NoConversation},
           state : {"none", "connecting", "closed"} \union OpenStates]

ChatTypeOK ==
    /\ log \in Seq(Message)
    /\ unsent \subseteq Nat \ {0}
    /\ stray \in [Conversations -> Nat]
    /\ active \in Conversations \union {NoConversation}
    /\ shown \in Conversations \union {NoConversation}
    /\ messages \in Seq(Nat)
    /\ loading \in BOOLEAN
    /\ selects \in [Conversations -> Nat \union {Asked, NoConversation}]
    /\ socket \in Socket
    /\ up \in Seq({"text", "auth"})
    /\ handling \in Nat
    /\ refused \in Nat
    /\ down \in Seq(Nat)
    /\ posts \in [Conversations -> Nat]
    /\ answers \subseteq Nat \ {0}

ChatInit ==
    /\ log = <<>> /\ unsent = {}
    /\ stray = [c \in Conversations |-> 0]
    /\ active = NoConversation /\ shown = NoConversation
    /\ messages = <<>>
    /\ loading = FALSE
    /\ selects = [c \in Conversations |-> NoConversation]
    /\ socket = NoSocket
    /\ up = <<>> /\ handling = 0 /\ refused = 0 /\ down = <<>>
    /\ posts = [c \in Conversations |-> 0]
    /\ answers = {}

\* The numbers in S in their order: there is one such sequence.
Listed(S) ==
    {h \in [1..Cardinality(S) -> S] : \A k, l \in DOMAIN h : k < l => h[k] < h[l]}

\* The messages of c among the first n of the log.
Histories(c, n) == Listed({i \in 1..n : log[i].conv = c})

\* The texts among what was sent over the socket.
Texts == {k \in DOMAIN up : up[k] = "text"}

\* What has been sent so far, handled or not; bounds the senders.
Sent == Len(log) + Cardinality(Texts) + refused
        + FoldSet(LAMBDA c, n : stray[c] + posts[c] + n, 0, Conversations)

\* The optimistic entries of the view.
Optimistic == {k \in DOMAIN messages : messages[k] = 0}

\* Those its consumer would store: an anonymous one refuses what comes before
\* the token.
Storable == {k \in Texts : socket.state = "anonymous" => \E l \in 1..(k - 1) : up[l] = "auth"}

\* The socket is gone, and its consumer ends: it may still store some of the
\* texts that have reached it and echo the one it is at, to the others.
Abandon ==
    /\ \E n \in 0..Cardinality(Storable) :
          stray' = [c \in Conversations |-> stray[c] + IF c = socket.conv THEN n ELSE 0]
    /\ unsent' \in {unsent, unsent \union ({handling} \ {0})}
    /\ up' = <<>> /\ handling' = 0 /\ refused' = 0 /\ down' = <<>>
    /\ UNCHANGED log

Connect(c) ==
    /\ Abandon
    /\ socket' = [conv |-> c, state |-> "connecting"]

---------------------------------------------------------------------------
(* The conversation list                                                   *)

\* Mutant: the socket is opened with the click.
SelectAndConnect(c) ==
    /\ selects[c] = NoConversation
    /\ active' = c
    /\ loading' = TRUE
    /\ selects' = [selects EXCEPT ![c] = Asked]
    /\ Connect(c)
    /\ UNCHANGED <<shown, messages, restVars>>

\* selectConversation(c): the view does not change before the answer.
Select(c) ==
    /\ selects[c] = NoConversation
    /\ active' = c
    /\ loading' = TRUE
    /\ selects' = [selects EXCEPT ![c] = Asked]
    /\ UNCHANGED <<serverVars, shown, messages, socketVars, restVars>>

\* ConversationDetailView reads the history.
SelectHandled(c) ==
    /\ selects[c] = Asked
    /\ selects' = [selects EXCEPT ![c] = Len(log)]
    /\ UNCHANGED <<serverVars, active, shown, messages, loading, socketVars, restVars>>

\* Mutant: the socket of the conversation shown before is kept.
SelectAnsweredOldSocket(c) ==
    /\ selects[c] \in Nat
    /\ shown' = c
    /\ messages' \in Histories(c, selects[c])
    /\ loading' = FALSE
    /\ selects' = [selects EXCEPT ![c] = NoConversation]
    /\ IF socket = NoSocket THEN Connect(c) ELSE UNCHANGED <<serverVars, socketVars>>
    /\ UNCHANGED <<active, restVars>>

\* Its answer, however late: the view and the socket become those of c.
SelectAnswered(c) ==
    /\ selects[c] \in Nat
    /\ shown' = c
    /\ messages' \in Histories(c, selects[c])
    /\ loading' = FALSE
    /\ selects' = [selects EXCEPT ![c] = NoConversation]
    /\ Connect(c)
    /\ UNCHANGED <<active, restVars>>

SelectFailed(c) ==
    /\ selects[c] # NoConversation
    /\ loading' = FALSE
    /\ selects' = [selects EXCEPT ![c] = NoConversation]
    /\ UNCHANGED <<serverVars, active, shown, messages, socketVars, restVars>>

\* Mutant: the list of messages is null.
DeselectNull ==
    /\ shown # NoConversation
    /\ active' = NoConversation /\ shown' = NoConversation
    /\ messages' = NoConversation
    /\ loading' = FALSE
    /\ Abandon
    /\ socket' = NoSocket
    /\ UNCHANGED <<selects, restVars>>

Deselect ==
    /\ shown # NoConversation
    /\ active' = NoConversation /\ shown' = NoConversation
    /\ messages' = <<>>
    /\ loading' = FALSE
    /\ Abandon
    /\ socket' = NoSocket
    /\ UNCHANGED <<selects, restVars>>

---------------------------------------------------------------------------
(* The socket                                                              *)

\* ChatConsumer.connect accepts before it authenticates.  With a valid token
\* in the URL it goes on to join the group; without one texts are refused,
\* unless onopen finds a token by now and sends it ahead of them.
SocketOpens ==
    /\ socket.state = "connecting"
    /\ \/ socket' = [socket EXCEPT !.state = "joining"] /\ UNCHANGED up
       \/ socket' = [socket EXCEPT !.state = "anonymous"] /\ up' \in {<<>>, <<"auth">>}
    /\ UNCHANGED <<serverVars, viewVars, handling, refused, down, restVars>>

SocketJoins ==
    /\ socket.state = "joining"
    /\ socket' = [socket EXCEPT !.state = "joined"]
    /\ UNCHANGED <<serverVars, viewVars, up, handling, refused, down, restVars>>

\* It breaks, or the server closes it: also for a user who does not take part,
\* or because a handler has raised.
SocketLost ==
    /\ socket.state \in OpenStates \union {"connecting"}
    /\ Abandon
    /\ socket' = [socket EXCEPT !.state = "closed"]
    /\ UNCHANGED <<viewVars, restVars>>

\* sendMessage: over the open socket, by REST to activeIdRef otherwise.
SendText ==
    /\ Sent < MaxMessages
    /\ \/ /\ socket.state \in OpenStates
          /\ up' = Append(up, "text")
          /\ messages' = Append(messages, 0)
          /\ UNCHANGED posts
       \/ /\ socket.state \notin OpenStates
          /\ active # NoConversation
          /\ posts' = [posts EXCEPT ![active] = @ + 1]
          /\ UNCHANGED <<up, messages>>
    /\ UNCHANGED <<serverVars, active, shown, loading, selects, socket, handling, refused,
                   down, answers>>

---------------------------------------------------------------------------
(* The server.  A message is stored in one await and sent to its group in  *)
(* another; a consumer takes one thing at a time, but those of other       *)
(* sockets and the REST views run beside it.                               *)

\* The consumer of the socket takes what comes next, when connect() is over
\* and the echo of the text before is out.
Takes(what) ==
    /\ socket.state \in {"anonymous", "joined"} /\ handling = 0
    /\ up # <<>> /\ Head(up) = what
    /\ up' = Tail(up)

\* handle_auth_message: a valid token joins the group, another changes nothing.
AuthHandled ==
    /\ Takes("auth")
    /\ \/ socket' = [socket EXCEPT !.state = "joined"]
       \/ UNCHANGED socket
    /\ UNCHANGED <<serverVars, viewVars, handling, refused, down, restVars>>

TextRefused ==
    /\ Takes("text")
    /\ socket.state = "anonymous"
    /\ refused' = refused + 1
    /\ down' = Append(down, AuthRequired)
    /\ UNCHANGED <<serverVars, viewVars, socket, handling, restVars>>

\* _save_message.
TextStored ==
    /\ Takes("text")
    /\ socket.state = "joined"
    /\ log' = Append(log, [conv |-> socket.conv, kind |-> "own"])
    /\ handling' = Len(log) + 1
    /\ UNCHANGED <<unsent, stray, viewVars, socket, refused, down, restVars>>

\* group_send of message i: it reaches the socket if that has joined its group.
Publish(i) ==
    down' = IF socket = [conv |-> log[i].conv, state |-> "joined"] THEN Append(down, i)
                                                                  ELSE down

TextEchoed ==
    /\ handling # 0
    /\ Publish(handling)
    /\ handling' = 0
    /\ UNCHANGED <<serverVars, viewVars, socket, up, refused, restVars>>

\* Another consumer or view stores message m.
StoreMessage(m) ==
    /\ log' = Append(log, m)
    /\ unsent' = unsent \union {Len(log) + 1}

StrayStored(c) ==
    /\ stray[c] > 0
    /\ stray' = [stray EXCEPT ![c] = @ - 1]
    /\ StoreMessage([conv |-> c, kind |-> "own"])
    /\ UNCHANGED <<viewVars, socketVars, restVars>>

OtherStores(c, kind) ==
    /\ Sent < MaxMessages
    /\ StoreMessage([conv |-> c, kind |-> kind])
    /\ UNCHANGED <<stray, viewVars, socketVars, restVars>>

\* MessageCreateView.
PostStored(c) ==
    /\ posts[c] > 0
    /\ posts' = [posts EXCEPT ![c] = @ - 1]
    /\ StoreMessage([conv |-> c, kind |-> "rest"])
    /\ answers' = answers \union {Len(log) + 1}
    /\ UNCHANGED <<stray, viewVars, socketVars>>

\* group_send by one of these; it may raise instead, and ends their handler.
Echo(i) ==
    /\ i \in unsent
    /\ unsent' = unsent \ {i}
    /\ Publish(i)
    /\ UNCHANGED <<log, stray, viewVars, socket, up, handling, refused, restVars>>

EchoFails(i) ==
    /\ i \in unsent
    /\ unsent' = unsent \ {i}
    /\ answers' = answers \ {i}
    /\ UNCHANGED <<log, stray, viewVars, socketVars, posts>>

---------------------------------------------------------------------------
(* What comes back                                                         *)

\* The answer to a post follows its group_send, and is appended to whatever
\* is shown.
PostAnswered(i) ==
    /\ i \in answers /\ i \notin unsent
    /\ answers' = answers \ {i}
    /\ messages' = Append(messages, i)
    /\ UNCHANGED <<serverVars, active, shown, loading, selects, socketVars, posts>>

\* The post is refused, or its answer does not come.
PostFailed(c) ==
    /\ posts[c] > 0
    /\ posts' = [posts EXCEPT ![c] = @ - 1]
    /\ UNCHANGED <<serverVars, viewVars, socketVars, answers>>

AnswerLost(i) ==
    /\ i \in answers
    /\ answers' = answers \ {i}
    /\ UNCHANGED <<serverVars, viewVars, socketVars, posts>>

\* Mutant: without the look for the id among the entries.
ReceiveUnchecked ==
    LET i == Head(down)
    IN  /\ down # <<>> /\ i # AuthRequired
        /\ \/ /\ log[i].kind # "other"
              /\ \E k \in Optimistic : /\ \A l \in Optimistic : k <= l
                                       /\ messages' = [messages EXCEPT ![k] = i]
           \/ /\ Optimistic = {} \/ log[i].kind = "other"
              /\ messages' = Append(messages, i)
        /\ down' = Tail(down)
        /\ UNCHANGED <<serverVars, active, shown, loading, selects, socket, up, handling,
                       refused, restVars>>

\* onmessage: known ids are skipped, a message with its text takes the place
\* of the first optimistic entry, whoever sent it; another is appended.
Receive ==
    LET i == Head(down)
    IN  /\ down # <<>> /\ i # AuthRequired
        /\ \/ i \in ToSet(messages) /\ UNCHANGED messages
           \/ /\ i \notin ToSet(messages) /\ log[i].kind # "other"
              /\ \E k \in Optimistic : /\ \A l \in Optimistic : k <= l
                                       /\ messages' = [messages EXCEPT ![k] = i]
           \/ /\ i \notin ToSet(messages) /\ (Optimistic = {} \/ log[i].kind = "other")
              /\ messages' = Append(messages, i)
        /\ down' = Tail(down)
        /\ UNCHANGED <<serverVars, active, shown, loading, selects, socket, up, handling,
                       refused, restVars>>

\* AUTH_REQUIRED: the token goes up, if there is one; the text does not again.
ReceiveRefusal ==
    /\ down # <<>> /\ Head(down) = AuthRequired
    /\ down' = Tail(down)
    /\ up' \in {up, Append(up, "auth")}
    /\ UNCHANGED <<serverVars, viewVars, socket, handling, refused, restVars>>

ChatNext ==
    \/ \E c \in Conversations :
        \/ Select(c) \/ SelectHandled(c) \/ SelectAnswered(c) \/ SelectFailed(c)
        \/ StrayStored(c) \/ PostStored(c) \/ PostFailed(c)
        \/ \E kind \in {"alike", "other"} : OtherStores(c, kind)
    \/ Deselect
    \/ SocketOpens \/ SocketJoins \/ SocketLost
    \/ SendText
    \/ AuthHandled \/ TextRefused \/ TextStored \/ TextEchoed
    \/ \E i \in unsent : Echo(i) \/ EchoFails(i)
    \/ \E i \in answers : PostAnswered(i) \/ AnswerLost(i)
    \/ Receive \/ ReceiveRefusal

ChatSpec == ChatInit /\ [][ChatNext]_chatVars

---------------------------------------------------------------------------
(* Properties                                                              *)

\* Message i came over a socket, not as the answer of a post.
BySocket(i) == i > 0 /\ log[i].kind # "rest"

\* The user's own texts on their way back, but for those a history has shown.
Echoes == {i \in ToSet(down) \ ToSet(messages) : i > 0 /\ log[i].kind = "own"}

\* In whatever order the histories of hastily selected conversations arrive,
\* the socket is of the conversation shown, and there is none when nothing is
\* shown.
SocketIsOfTheShown == socket.conv = shown

\* The view never mixes conversations: what came with the history or over the
\* socket belongs to the conversation shown.
NoForeignMessage ==
    \A k \in DOMAIN messages : BySocket(messages[k]) => log[messages[k]].conv = shown

\* A text sent over the socket is shown once, as its optimistic entry or as
\* the message itself: no id appears twice, although a history may be read
\* between the storing of a text and its echo; and while the socket is open
\* there are no more optimistic entries than texts that are not stored yet,
\* that are stored but not echoed, whose echo is on its way, or that were
\* refused, although the same words of others take the entries' places.
TextShownOnce ==
    /\ \A k, l \in DOMAIN messages :
          BySocket(messages[k]) /\ messages[k] = messages[l] => k = l
    /\ socket.state \in OpenStates =>
          Cardinality(Optimistic) <= Cardinality(Texts) + (IF handling = 0 THEN 0 ELSE 1)
                                     + Cardinality(Echoes) + refused
============================================================================
