--------------------------- MODULE ChatViewProofs ---------------------------
(***************************************************************************)
(* Theorems about ChatView, for any set of conversations and any number of *)
(* messages.                                                               *)
(***************************************************************************)
EXTENDS ChatView, FiniteSetTheorems, TLAPS

\* The socket that is there belongs to a conversation.
SocketHasConversation == socket.state # "none" => socket.conv \in Conversations

TypeInv == ChatTypeOK /\ SocketHasConversation

\* No text of its own is shown before the socket is open, and only its joined
\* consumer stores one.
SocketInOrder ==
    /\ socket.state = "connecting" => Optimistic = {}
    /\ handling # 0 => socket.state = "joined"
    /\ down # <<>> => socket.state \in OpenStates

\* Every id held, or under way, is that of a stored message.
Stored ==
    /\ \A i \in ToSet(messages) : i <= Len(log)
    /\ \A i \in ToSet(down) : i <= Len(log) /\ (i > 0 => log[i].conv = socket.conv)
    /\ \A i \in unsent : i <= Len(log)
    /\ \A i \in answers : i <= Len(log) /\ log[i].kind = "rest"
    /\ \A c \in Conversations : selects[c] \in Nat => selects[c] <= Len(log)

\* The text that the consumer is at has not been seen by anybody.
HandlingIsNew ==
    handling # 0 =>
        /\ handling <= Len(log) /\ log[handling].conv = socket.conv
        /\ log[handling].kind = "own"
        /\ handling \notin ToSet(messages) \union ToSet(down) \union unsent

ChatInv ==
    /\ TypeInv /\ SocketIsOfTheShown /\ NoForeignMessage /\ TextShownOnce
    /\ SocketInOrder /\ Stored /\ HandlingIsNew

ZerosOf(q) == {k \in DOMAIN q : q[k] = 0}
TextsOf(q) == {k \in DOMAIN q : q[k] = "text"}
AtHand == IF handling = 0 THEN 0 ELSE 1

\* What an optimistic entry may be waiting for, or stand for.
Due == Cardinality(Texts) + AtHand + Cardinality(Echoes) + refused

---------------------------------------------------------------------------
(* Sequences: the optimistic entries, the texts, the values                *)

LEMMA ZerosFinite ==
    ASSUME NEW q \in Seq(Nat)
    PROVE  IsFiniteSet(ZerosOf(q)) /\ Cardinality(ZerosOf(q)) \in Nat
  <1>1. IsFiniteSet(1..Len(q))
    BY FS_Interval
  <1>2. ZerosOf(q) \in SUBSET (1..Len(q))
    BY DEF ZerosOf
  <1>3. IsFiniteSet(ZerosOf(q))
    BY <1>1, <1>2, FS_Subset
  <1> QED
    BY <1>3, FS_CardinalityType

LEMMA ZerosOfAppend ==
    ASSUME NEW q \in Seq(Nat), NEW e \in Nat
    PROVE  /\ e # 0 => ZerosOf(Append(q, e)) = ZerosOf(q)
           /\ e = 0 => Cardinality(ZerosOf(Append(q, e))) = Cardinality(ZerosOf(q)) + 1
  <1> DEFINE s == Append(q, e)
  <1>1. s[Len(q) + 1] = e /\ \A i \in 1..Len(q) : s[i] = q[i]
    OBVIOUS
  <1>2. DOMAIN s = 1..(Len(q) + 1) /\ DOMAIN q = 1..Len(q) /\ Len(q) \in Nat
    OBVIOUS
  <1> HIDE DEF s
  <1>3. e # 0 => ZerosOf(s) = ZerosOf(q)
    BY <1>1, <1>2 DEF ZerosOf
  <1>4. ASSUME e = 0
        PROVE  Cardinality(ZerosOf(s)) = Cardinality(ZerosOf(q)) + 1
    <2>1. ZerosOf(s) = ZerosOf(q) \union {Len(q) + 1}
      BY <1>1, <1>2, <1>4 DEF ZerosOf
    <2>2. Len(q) + 1 \notin ZerosOf(q)
      BY <1>2 DEF ZerosOf
    <2> QED
      BY <2>1, <2>2, ZerosFinite, FS_AddElement
  <1> QED
    BY <1>3, <1>4 DEF s

LEMMA ZerosOfReplaced ==
    ASSUME NEW q \in Seq(Nat), NEW k \in ZerosOf(q), NEW e \in Nat \ {0}
    PROVE  Cardinality(ZerosOf([q EXCEPT ![k] = e])) = Cardinality(ZerosOf(q)) - 1
  <1>1. ZerosOf([q EXCEPT ![k] = e]) = ZerosOf(q) \ {k}
    BY DEF ZerosOf
  <1> QED
    BY <1>1, ZerosFinite, FS_RemoveElement

LEMMA TextsFinite ==
    ASSUME NEW q \in Seq({"text", "auth"})
    PROVE  IsFiniteSet(TextsOf(q)) /\ Cardinality(TextsOf(q)) \in Nat
  <1>1. IsFiniteSet(1..Len(q))
    BY FS_Interval
  <1>2. TextsOf(q) \in SUBSET (1..Len(q))
    BY DEF TextsOf
  <1>3. IsFiniteSet(TextsOf(q))
    BY <1>1, <1>2, FS_Subset
  <1> QED
    BY <1>3, FS_CardinalityType

LEMMA TextsOfAppend ==
    ASSUME NEW q \in Seq({"text", "auth"}), NEW e \in {"text", "auth"}
    PROVE  /\ e = "auth" => TextsOf(Append(q, e)) = TextsOf(q)
           /\ e = "text" => Cardinality(TextsOf(Append(q, e))) = Cardinality(TextsOf(q)) + 1
  <1> DEFINE s == Append(q, e)
  <1>1. s[Len(q) + 1] = e /\ \A i \in 1..Len(q) : s[i] = q[i]
    OBVIOUS
  <1>2. DOMAIN s = 1..(Len(q) + 1) /\ DOMAIN q = 1..Len(q) /\ Len(q) \in Nat
    OBVIOUS
  <1> HIDE DEF s
  <1>3. e = "auth" => TextsOf(s) = TextsOf(q)
    BY <1>1, <1>2 DEF TextsOf
  <1>4. ASSUME e = "text"
        PROVE  Cardinality(TextsOf(s)) = Cardinality(TextsOf(q)) + 1
    <2>1. TextsOf(s) = TextsOf(q) \union {Len(q) + 1}
      BY <1>1, <1>2, <1>4 DEF TextsOf
    <2>2. Len(q) + 1 \notin TextsOf(q)
      BY <1>2 DEF TextsOf
    <2> QED
      BY <2>1, <2>2, TextsFinite, FS_AddElement
  <1> QED
    BY <1>3, <1>4 DEF s

\* What the consumer takes is one text less, or none.
LEMMA TextsOfTail ==
    ASSUME NEW q \in Seq({"text", "auth"}), q # <<>>
    PROVE  /\ Tail(q) \in Seq({"text", "auth"})
           /\ Head(q) = "auth" => Cardinality(TextsOf(q)) <= Cardinality(TextsOf(Tail(q)))
           /\ Cardinality(TextsOf(q)) <= Cardinality(TextsOf(Tail(q))) + 1
  <1> DEFINE t == Tail(q)
             S == TextsOf(q) \ {1}
             f == [k \in S |-> k - 1]
  <1>1. Len(q) \in Nat \ {0} /\ DOMAIN q = 1..Len(q) /\ q[1] = Head(q)
    OBVIOUS
  <1>2. t \in Seq({"text", "auth"}) /\ DOMAIN t = 1..(Len(q) - 1)
    BY <1>1
  <1>3. \A k \in 1..(Len(q) - 1) : t[k] = q[k + 1]
    BY <1>1
  <1> HIDE DEF t
  <1>4. \A k \in S : k - 1 \in TextsOf(t)
    <2> SUFFICES ASSUME NEW k \in S PROVE k - 1 \in TextsOf(t)
      OBVIOUS
    <2>1. k \in 2..Len(q) /\ q[k] = "text"
      BY <1>1 DEF TextsOf
    <2>2. k - 1 \in 1..(Len(q) - 1) /\ (k - 1) + 1 = k
      BY <1>1, <2>1
    <2> QED
      BY <1>2, <1>3, <2>1, <2>2 DEF TextsOf
  <1>5. f \in Injection(S, TextsOf(t))
    <2>1. f \in [S -> TextsOf(t)]
      BY <1>4
    <2>2. \A k, l \in S : f[k] = f[l] => k = l
      BY <1>1 DEF TextsOf
    <2> QED
      BY <2>1, <2>2 DEF Injection, IsInjective
  <1>6. IsFiniteSet(TextsOf(t)) /\ Cardinality(TextsOf(t)) \in Nat
    BY <1>2, TextsFinite
  <1>7. Cardinality(S) <= Cardinality(TextsOf(t)) /\ IsFiniteSet(S)
    BY <1>5, <1>6, FS_Injection
  <1>8. IsFiniteSet(TextsOf(q)) /\ Cardinality(TextsOf(q)) \in Nat
    BY TextsFinite
  <1>9. Cardinality(S) = IF 1 \in TextsOf(q) THEN Cardinality(TextsOf(q)) - 1
                                             ELSE Cardinality(TextsOf(q))
    BY <1>8, FS_RemoveElement
  <1>10. Cardinality(S) \in Nat
    BY <1>7, FS_CardinalityType
  <1>11. Head(q) = "auth" => 1 \notin TextsOf(q)
    BY <1>1 DEF TextsOf
  <1> HIDE DEF S, f
  <1> QED
    BY <1>2, <1>6, <1>7, <1>8, <1>9, <1>10, <1>11 DEF t

LEMMA AppendedEntry ==
    ASSUME NEW q \in Seq(Nat), NEW e \in Nat
    PROVE  /\ DOMAIN Append(q, e) = 1..(Len(q) + 1) /\ DOMAIN q = 1..Len(q) /\ Len(q) \in Nat
           /\ Append(q, e)[Len(q) + 1] = e
           /\ \A k \in DOMAIN q : Append(q, e)[k] = q[k]
           /\ \A k \in DOMAIN Append(q, e) : k \in DOMAIN q \/ k = Len(q) + 1
  OBVIOUS

LEMMA ValuesOfAppend ==
    ASSUME NEW q \in Seq(Nat), NEW e \in Nat
    PROVE  ToSet(Append(q, e)) = ToSet(q) \union {e}
  <1>1. \A x \in ToSet(Append(q, e)) : x \in ToSet(q) \union {e}
    BY AppendedEntry DEF ToSet
  <1>2. \A x \in ToSet(q) \union {e} : x \in ToSet(Append(q, e))
    <2>1. Len(q) + 1 \in DOMAIN Append(q, e)
      BY AppendedEntry
    <2>2. \A k \in DOMAIN q : k \in DOMAIN Append(q, e)
      BY AppendedEntry
    <2> QED
      BY <2>1, <2>2, AppendedEntry DEF ToSet
  <1> QED
    BY <1>1, <1>2

LEMMA ValuesOfTail ==
    ASSUME NEW q \in Seq(Nat), q # <<>>
    PROVE  /\ Head(q) \in Nat /\ Tail(q) \in Seq(Nat)
           /\ ToSet(q) = ToSet(Tail(q)) \union {Head(q)}
  <1>1. /\ Len(q) \in Nat \ {0} /\ DOMAIN q = 1..Len(q) /\ q[1] = Head(q) /\ Head(q) \in Nat
        /\ Tail(q) \in Seq(Nat)
    OBVIOUS
  <1>2. /\ DOMAIN Tail(q) = 1..(Len(q) - 1)
        /\ \A k \in 1..(Len(q) - 1) : Tail(q)[k] = q[k + 1] /\ k + 1 \in DOMAIN q
    BY <1>1
  <1>3. \A k \in DOMAIN q : k = 1 \/ (k - 1 \in DOMAIN Tail(q) /\ Tail(q)[k - 1] = q[k])
    <2> SUFFICES ASSUME NEW k \in DOMAIN q, k # 1
                 PROVE  k - 1 \in DOMAIN Tail(q) /\ Tail(q)[k - 1] = q[k]
      OBVIOUS
    <2>1. k - 1 \in 1..(Len(q) - 1) /\ (k - 1) + 1 = k
      BY <1>1
    <2> QED
      BY <1>2, <2>1
  <1>4. ASSUME NEW k \in DOMAIN q PROVE q[k] \in ToSet(Tail(q)) \union {Head(q)}
    <2>1. CASE k = 1
      BY <1>1, <2>1
    <2>2. CASE k - 1 \in DOMAIN Tail(q) /\ Tail(q)[k - 1] = q[k]
      <3>1. \A l \in DOMAIN Tail(q) : Tail(q)[l] \in ToSet(Tail(q))
        BY DEF ToSet
      <3> QED
        BY <2>2, <3>1
    <2> QED
      BY <1>3, <2>1, <2>2
  <1>5. \A x \in ToSet(Tail(q)) \union {Head(q)} : x \in ToSet(q)
    BY <1>1, <1>2 DEF ToSet
  <1>6. ToSet(q) \subseteq ToSet(Tail(q)) \union {Head(q)}
    BY <1>4 DEF ToSet
  <1> QED
    BY <1>1, <1>5, <1>6

LEMMA ValuesOfReplaced ==
    ASSUME NEW q \in Seq(Nat), NEW k \in ZerosOf(q), NEW e \in Nat
    PROVE  /\ [q EXCEPT ![k] = e] \in Seq(Nat)
           /\ \A x \in Nat \ {0, e} : x \in ToSet([q EXCEPT ![k] = e]) <=> x \in ToSet(q)
           /\ e \in ToSet([q EXCEPT ![k] = e])
  <1> DEFINE r == [q EXCEPT ![k] = e]
  <1>1. k \in DOMAIN q /\ q[k] = 0 /\ r \in Seq(Nat)
    BY DEF ZerosOf
  <1>2. DOMAIN r = DOMAIN q /\ r[k] = e /\ \A l \in DOMAIN q : l # k => r[l] = q[l]
    BY <1>1
  <1> HIDE DEF r
  <1>3. ASSUME NEW x \in Nat \ {0, e}
        PROVE  x \in ToSet(r) <=> x \in ToSet(q)
    <2>1. \A l \in DOMAIN q : r[l] = x <=> q[l] = x
      BY <1>1, <1>2
    <2> QED
      BY <1>2, <2>1 DEF ToSet
  <1>4. e \in ToSet(r)
    BY <1>1, <1>2 DEF ToSet
  <1> QED
    BY <1>1, <1>3, <1>4 DEF r

LEMMA ValuesTyped ==
    ASSUME NEW q \in Seq(Nat)
    PROVE  ToSet(q) \subseteq Nat /\ \A k \in DOMAIN q : q[k] \in ToSet(q)
  BY DEF ToSet

LEMMA EchoesFinite ==
    ASSUME ChatTypeOK, Stored
    PROVE  /\ Echoes \subseteq Nat \ {0} /\ \A i \in Echoes : i <= Len(log)
           /\ IsFiniteSet(Echoes) /\ Cardinality(Echoes) \in Nat
  <1>1. Echoes \in SUBSET Nat /\ Echoes \subseteq Nat \ {0}
    BY ValuesTyped DEF ChatTypeOK, Echoes
  <1>2. \A i \in Echoes : i <= Len(log)
    BY DEF Echoes, Stored
  <1>3. Len(log) \in Nat
    BY DEF ChatTypeOK
  <1>4. IsFiniteSet(Echoes)
    BY <1>1, <1>2, <1>3, FS_BoundedSetOfNaturals
  <1> QED
    BY <1>1, <1>2, <1>4, FS_CardinalityType

\* The terms of the count in TextShownOnce.
LEMMA Counted ==
    ASSUME ChatTypeOK
    PROVE  /\ Optimistic = ZerosOf(messages) /\ Cardinality(Optimistic) \in Nat
           /\ Texts = TextsOf(up) /\ Cardinality(Texts) \in Nat
           /\ AtHand \in Nat /\ refused \in Nat
  <1>1. messages \in Seq(Nat) /\ up \in Seq({"text", "auth"}) /\ refused \in Nat
    BY DEF ChatTypeOK
  <1>2. Optimistic = ZerosOf(messages) /\ Texts = TextsOf(up)
    BY DEF Optimistic, ZerosOf, Texts, TextsOf
  <1>3. AtHand \in Nat
    BY DEF AtHand
  <1> QED
    BY <1>1, <1>2, <1>3, ZerosFinite, TextsFinite

LEMMA HistoryFacts ==
    ASSUME NEW c, NEW n \in Nat, NEW h \in Histories(c, n)
    PROVE  /\ h \in Seq(Nat \ {0})
           /\ \A k \in DOMAIN h : h[k] \in 1..n /\ log[h[k]].conv = c
           /\ \A k, l \in DOMAIN h : k < l => h[k] < h[l]
  <1> DEFINE S == {i \in 1..n : log[i].conv = c}
  <1>1. IsFiniteSet(S)
    BY FS_Interval, FS_Subset
  <1>2. Cardinality(S) \in Nat
    BY <1>1, FS_CardinalityType
  <1>3. h \in [1..Cardinality(S) -> S] /\ \A k, l \in DOMAIN h : k < l => h[k] < h[l]
    BY DEF Histories, Listed
  <1>4. h \in Seq(S) /\ DOMAIN h = 1..Cardinality(S)
    BY <1>2, <1>3
  <1>5. S \subseteq 1..n /\ \A i \in S : log[i].conv = c
    OBVIOUS
  <1> HIDE DEF S
  <1>6. h \in Seq(Nat \ {0})
    <2>1. S \subseteq Nat \ {0}
      BY <1>5
    <2>2. h \in [1..Cardinality(S) -> Nat \ {0}]
      BY <1>3, <2>1
    <2> QED
      BY <1>2, <2>2
  <1>7. \A k \in DOMAIN h : h[k] \in S
    BY <1>3
  <1> QED
    BY <1>3, <1>5, <1>6, <1>7

---------------------------------------------------------------------------
(* Types                                                                   *)

LEMMA AbandonTypes ==
    ASSUME ChatTypeOK, Abandon
    PROVE  /\ log' = log /\ log' \in Seq(Message)
           /\ stray' \in [Conversations -> Nat]
           /\ unsent' \subseteq Nat \ {0} /\ unsent' \subseteq unsent \union {handling}
           /\ up' = <<>> /\ handling' = 0 /\ refused' = 0 /\ down' = <<>>
           /\ up' \in Seq({"text", "auth"}) /\ down' \in Seq(Nat)
  <1>1. stray' \in [Conversations -> Nat]
    <2>1. PICK n \in 0..Cardinality(Storable) :
             stray' = [c \in Conversations |-> stray[c] + IF c = socket.conv THEN n ELSE 0]
      BY DEF Abandon
    <2>2. n \in Nat /\ \A c \in Conversations : stray[c] \in Nat
      BY DEF ChatTypeOK
    <2> QED
      BY <2>1, <2>2
  <1>2. unsent' \subseteq Nat \ {0} /\ unsent' \subseteq unsent \union {handling}
    BY DEF Abandon, ChatTypeOK
  <1>3. <<>> \in Seq({"text", "auth"}) /\ <<>> \in Seq(Nat)
    OBVIOUS
  <1> QED
    BY <1>1, <1>2, <1>3 DEF Abandon, ChatTypeOK

LEMMA PublishTypes ==
    ASSUME ChatTypeOK, NEW i \in Nat, Publish(i)
    PROVE  down' \in Seq(Nat)
  <1>1. down \in Seq(Nat) /\ Append(down, i) \in Seq(Nat)
    BY DEF ChatTypeOK
  <1> QED
    BY <1>1 DEF Publish

LEMMA StoreTypes ==
    ASSUME ChatTypeOK, NEW m \in Message, StoreMessage(m)
    PROVE  /\ log' \in Seq(Message) /\ unsent' \subseteq Nat \ {0}
           /\ Len(log) + 1 \in Nat \ {0}
  <1>1. log \in Seq(Message) /\ unsent \subseteq Nat \ {0}
    BY DEF ChatTypeOK
  <1>2. Len(log) + 1 \in Nat \ {0} /\ Append(log, m) \in Seq(Message)
    BY <1>1
  <1> QED
    BY <1>1, <1>2 DEF StoreMessage

LEMMA TakesTypes ==
    ASSUME ChatTypeOK, NEW what, Takes(what)
    PROVE  up # <<>> /\ Head(up) = what /\ up' = Tail(up) /\ up' \in Seq({"text", "auth"})
  BY TextsOfTail DEF ChatTypeOK, Takes

LEMMA ReceiveIsOneOf ==
    ASSUME ChatTypeOK, Receive
    PROVE  /\ down # <<>> /\ Head(down) \in Nat \ {0} /\ Tail(down) \in Seq(Nat)
           /\ down' = Tail(down)
           /\ UNCHANGED <<serverVars, active, shown, loading, selects, socket, up, handling,
                          refused, posts, answers>>
           /\ \/ Head(down) \in ToSet(messages) /\ messages' = messages
              \/ /\ Head(down) \notin ToSet(messages)
                 /\ \E k \in Optimistic : messages' = [messages EXCEPT ![k] = Head(down)]
              \/ /\ Head(down) \notin ToSet(messages)
                 /\ Optimistic = {} \/ log[Head(down)].kind = "other"
                 /\ messages' = Append(messages, Head(down))
  <1>1. down \in Seq(Nat) /\ down # <<>>
    BY DEF ChatTypeOK, Receive
  <1>2. Head(down) \in Nat \ {0} /\ Tail(down) \in Seq(Nat)
    BY <1>1, ValuesOfTail DEF Receive, AuthRequired
  <1> QED
    BY <1>1, <1>2 DEF Receive, restVars

LEMMA Incremented ==
    ASSUME NEW f \in [Conversations -> Nat], NEW x
    PROVE  [f EXCEPT ![x] = @ + 1] \in [Conversations -> Nat]
  <1>1. CASE x \in Conversations
    BY <1>1
  <1>2. CASE x \notin Conversations
    <2>1. \A c \in Conversations : [f EXCEPT ![x] = @ + 1][c] = f[c]
      BY <1>2
    <2>2. [f EXCEPT ![x] = @ + 1] = [c \in Conversations |-> f[c]]
      BY <2>1
    <2> QED
      BY <2>2
  <1> QED
    BY <1>1, <1>2

LEMMA Decremented ==
    ASSUME NEW f \in [Conversations -> Nat], NEW c \in Conversations, f[c] > 0
    PROVE  [f EXCEPT ![c] = @ - 1] \in [Conversations -> Nat]
  OBVIOUS

\* The variables that no action of the server touches.
LEMMA ViewTypes ==
    ASSUME ChatTypeOK, UNCHANGED viewVars
    PROVE  /\ active' \in Conversations \union {NoConversation}
           /\ shown' \in Conversations \union {NoConversation}
           /\ messages' \in Seq(Nat) /\ loading' \in BOOLEAN
           /\ selects' \in [Conversations -> Nat \union {Asked, NoConversation}]
  BY DEF ChatTypeOK, viewVars

LEMMA TypeStep == TypeInv /\ [ChatNext]_chatVars => ChatTypeOK'
  <1> SUFFICES ASSUME ChatTypeOK, SocketHasConversation, [ChatNext]_chatVars PROVE ChatTypeOK'
    BY DEF TypeInv
  <1> USE ChatAssumption DEF ChatAssumption, serverVars, socketVars, restVars
  <1>1. ASSUME NEW c \in Conversations, Select(c) PROVE ChatTypeOK'
    BY <1>1 DEF ChatTypeOK, Select, Asked
  <1>2. ASSUME NEW c \in Conversations, SelectHandled(c) PROVE ChatTypeOK'
    BY <1>2 DEF ChatTypeOK, SelectHandled
  <1>3. ASSUME NEW c \in Conversations, SelectAnswered(c) PROVE ChatTypeOK'
    <2>1. messages' \in Seq(Nat)
      BY <1>3, HistoryFacts DEF SelectAnswered
    <2>2. Abandon /\ socket' \in Socket
      BY <1>3 DEF SelectAnswered, Connect, Socket
    <2>3. selects' \in [Conversations -> Nat \union {Asked, NoConversation}]
      BY <1>3 DEF ChatTypeOK, SelectAnswered
    <2>4. /\ log' \in Seq(Message) /\ stray' \in [Conversations -> Nat]
          /\ unsent' \subseteq Nat \ {0} /\ up' \in Seq({"text", "auth"})
          /\ handling' \in Nat /\ refused' \in Nat /\ down' \in Seq(Nat)
      BY <2>2, AbandonTypes
    <2> QED
      BY <1>3, <2>1, <2>2, <2>3, <2>4 DEF ChatTypeOK, SelectAnswered
  <1>4. ASSUME NEW c \in Conversations, SelectFailed(c) PROVE ChatTypeOK'
    BY <1>4 DEF ChatTypeOK, SelectFailed
  <1>5. ASSUME NEW c \in Conversations, StrayStored(c) PROVE ChatTypeOK'
    <2> DEFINE m == [conv |-> c, kind |-> "own"]
    <2>1. m \in Message /\ StoreMessage(m)
      BY <1>5 DEF StrayStored, Message
    <2>2. stray' \in [Conversations -> Nat]
      BY <1>5, Decremented DEF ChatTypeOK, StrayStored
    <2> HIDE DEF m
    <2>3. log' \in Seq(Message) /\ unsent' \subseteq Nat \ {0}
      BY <2>1, StoreTypes
    <2> QED
      BY <1>5, <2>2, <2>3, ViewTypes DEF ChatTypeOK, StrayStored
  <1>6. ASSUME NEW c \in Conversations, NEW kind \in {"alike", "other"}, OtherStores(c, kind)
        PROVE  ChatTypeOK'
    <2> DEFINE m == [conv |-> c, kind |-> kind]
    <2>1. m \in Message /\ StoreMessage(m)
      BY <1>6 DEF OtherStores, Message
    <2> HIDE DEF m
    <2>2. log' \in Seq(Message) /\ unsent' \subseteq Nat \ {0}
      BY <2>1, StoreTypes
    <2> QED
      BY <1>6, <2>2, ViewTypes DEF ChatTypeOK, OtherStores
  <1>7. ASSUME NEW c \in Conversations, PostStored(c) PROVE ChatTypeOK'
    <2> DEFINE m == [conv |-> c, kind |-> "rest"]
    <2>1. m \in Message /\ StoreMessage(m)
      BY <1>7 DEF PostStored, Message
    <2>2. posts' \in [Conversations -> Nat]
      BY <1>7, Decremented DEF ChatTypeOK, PostStored
    <2> HIDE DEF m
    <2>3. /\ log' \in Seq(Message) /\ unsent' \subseteq Nat \ {0}
          /\ Len(log) + 1 \in Nat \ {0}
      BY <2>1, StoreTypes
    <2>4. answers' \subseteq Nat \ {0}
      BY <1>7, <2>3 DEF ChatTypeOK, PostStored
    <2> QED
      BY <1>7, <2>2, <2>3, <2>4, ViewTypes DEF ChatTypeOK, PostStored
  <1>8. ASSUME NEW c \in Conversations, PostFailed(c) PROVE ChatTypeOK'
    <2>1. posts' \in [Conversations -> Nat]
      BY <1>8, Decremented DEF ChatTypeOK, PostFailed
    <2> QED
      BY <1>8, <2>1, ViewTypes DEF ChatTypeOK, PostFailed
  <1>9. CASE Deselect
    <2>1. messages' \in Seq(Nat) /\ Abandon /\ socket' \in Socket
      BY <1>9 DEF Deselect, NoSocket, Socket
    <2>2. /\ log' \in Seq(Message) /\ stray' \in [Conversations -> Nat]
          /\ unsent' \subseteq Nat \ {0} /\ up' \in Seq({"text", "auth"})
          /\ handling' \in Nat /\ refused' \in Nat /\ down' \in Seq(Nat)
      BY <2>1, AbandonTypes
    <2> QED
      BY <1>9, <2>1, <2>2 DEF ChatTypeOK, Deselect
  <1>10. CASE SocketOpens
    <2>1. up' \in Seq({"text", "auth"})
      <3>1. up' \in {up, <<>>, <<"auth">>}
        BY <1>10 DEF SocketOpens
      <3>2. <<>> \in Seq({"text", "auth"}) /\ <<"auth">> \in Seq({"text", "auth"})
        OBVIOUS
      <3> QED
        BY <3>1, <3>2 DEF ChatTypeOK
    <2>2. socket' \in Socket
      BY <1>10 DEF SocketOpens, ChatTypeOK, Socket, OpenStates
    <2> QED
      BY <1>10, <2>1, <2>2, ViewTypes DEF ChatTypeOK, SocketOpens
  <1>11. CASE SocketJoins
    <2>1. socket' \in Socket
      BY <1>11 DEF SocketJoins, ChatTypeOK, Socket, OpenStates
    <2> QED
      BY <1>11, <2>1, ViewTypes DEF ChatTypeOK, SocketJoins
  <1>12. CASE SocketLost
    <2>1. Abandon /\ socket' \in Socket
      BY <1>12 DEF SocketLost, ChatTypeOK, Socket
    <2>2. /\ log' \in Seq(Message) /\ stray' \in [Conversations -> Nat]
          /\ unsent' \subseteq Nat \ {0} /\ up' \in Seq({"text", "auth"})
          /\ handling' \in Nat /\ refused' \in Nat /\ down' \in Seq(Nat)
      BY <2>1, AbandonTypes
    <2> QED
      BY <1>12, <2>1, <2>2, ViewTypes DEF ChatTypeOK, SocketLost
  <1>13. CASE SendText
    <2>1. up' \in Seq({"text", "auth"})
      <3>1. up' = up \/ up' = Append(up, "text")
        BY <1>13 DEF SendText
      <3>2. up \in Seq({"text", "auth"}) /\ Append(up, "text") \in Seq({"text", "auth"})
        BY DEF ChatTypeOK
      <3> QED
        BY <3>1, <3>2
    <2>2. posts' \in [Conversations -> Nat]
      <3>1. posts' = posts \/ posts' = [posts EXCEPT ![active] = @ + 1]
        BY <1>13 DEF SendText
      <3>2. posts \in [Conversations -> Nat]
        BY DEF ChatTypeOK
      <3>3. ASSUME NEW x PROVE [posts EXCEPT ![x] = @ + 1] \in [Conversations -> Nat]
        BY <3>2, Incremented
      <3> QED
        BY <3>1, <3>2, <3>3
    <2>3. messages' \in Seq(Nat)
      <3>1. messages' = messages \/ messages' = Append(messages, 0)
        BY <1>13 DEF SendText
      <3>2. messages \in Seq(Nat) /\ Append(messages, 0) \in Seq(Nat)
        BY DEF ChatTypeOK
      <3> QED
        BY <3>1, <3>2
    <2> QED
      BY <1>13, <2>1, <2>2, <2>3 DEF ChatTypeOK, SendText
  <1>14. CASE AuthHandled
    <2>1. up' \in Seq({"text", "auth"})
      BY <1>14, TakesTypes DEF AuthHandled
    <2>2. socket' \in Socket
      BY <1>14 DEF AuthHandled, ChatTypeOK, Socket, OpenStates
    <2> QED
      BY <1>14, <2>1, <2>2, ViewTypes DEF ChatTypeOK, AuthHandled
  <1>15. CASE TextRefused
    <2>1. up' \in Seq({"text", "auth"})
      BY <1>15, TakesTypes DEF TextRefused
    <2>2. down' \in Seq(Nat) /\ refused' \in Nat
      <3>1. down \in Seq(Nat) /\ Append(down, 0) \in Seq(Nat) /\ refused \in Nat
        BY DEF ChatTypeOK
      <3> QED
        BY <1>15, <3>1 DEF TextRefused, AuthRequired
    <2> QED
      BY <1>15, <2>1, <2>2, ViewTypes DEF ChatTypeOK, TextRefused
  <1>16. CASE TextStored
    <2>1. up' \in Seq({"text", "auth"})
      BY <1>16, TakesTypes DEF TextStored
    <2>2. log' \in Seq(Message) /\ handling' \in Nat
      <3>1. socket.conv \in Conversations
        BY <1>16 DEF TextStored, ChatTypeOK, Socket, SocketHasConversation
      <3> QED
        BY <1>16, <3>1 DEF TextStored, ChatTypeOK, Message
    <2> QED
      BY <1>16, <2>1, <2>2, ViewTypes DEF ChatTypeOK, TextStored
  <1>17. CASE TextEchoed
    <2>1. down' \in Seq(Nat)
      BY <1>17, PublishTypes DEF ChatTypeOK, TextEchoed
    <2> QED
      BY <1>17, <2>1, ViewTypes DEF ChatTypeOK, TextEchoed
  <1>18. ASSUME NEW i \in unsent, Echo(i) PROVE ChatTypeOK'
    <2>1. down' \in Seq(Nat)
      BY <1>18, PublishTypes DEF ChatTypeOK, Echo
    <2> QED
      BY <1>18, <2>1, ViewTypes DEF ChatTypeOK, Echo
  <1>19. ASSUME NEW i \in unsent, EchoFails(i) PROVE ChatTypeOK'
    BY <1>19, ViewTypes DEF ChatTypeOK, EchoFails
  <1>20. ASSUME NEW i \in answers, PostAnswered(i) PROVE ChatTypeOK'
    <2>1. messages' \in Seq(Nat)
      <3>1. messages \in Seq(Nat) /\ i \in Nat
        BY DEF ChatTypeOK
      <3> QED
        BY <1>20, <3>1 DEF PostAnswered
    <2> QED
      BY <1>20, <2>1 DEF ChatTypeOK, PostAnswered
  <1>21. ASSUME NEW i \in answers, AnswerLost(i) PROVE ChatTypeOK'
    BY <1>21, ViewTypes DEF ChatTypeOK, AnswerLost
  <1>22. CASE Receive
    <2>1. messages' \in Seq(Nat)
      <3>1. messages \in Seq(Nat) /\ Head(down) \in Nat
        BY <1>22, ReceiveIsOneOf DEF ChatTypeOK
      <3>2. Append(messages, Head(down)) \in Seq(Nat)
        BY <3>1
      <3>3. \A k \in Optimistic : [messages EXCEPT ![k] = Head(down)] \in Seq(Nat)
        BY <3>1 DEF Optimistic
      <3> QED
        BY <1>22, <3>1, <3>2, <3>3, ReceiveIsOneOf
    <2> QED
      BY <1>22, <2>1, ReceiveIsOneOf DEF ChatTypeOK
  <1>23. CASE ReceiveRefusal
    <2>1. down' \in Seq(Nat)
      BY <1>23, ValuesOfTail DEF ReceiveRefusal, ChatTypeOK
    <2>2. up' \in Seq({"text", "auth"})
      <3>1. up \in Seq({"text", "auth"}) /\ Append(up, "auth") \in Seq({"text", "auth"})
        BY DEF ChatTypeOK
      <3> QED
        BY <1>23, <3>1 DEF ReceiveRefusal
    <2> QED
      BY <1>23, <2>1, <2>2, ViewTypes DEF ChatTypeOK, ReceiveRefusal
  <1>24. CASE UNCHANGED chatVars
    BY <1>24 DEF ChatTypeOK, chatVars
  <1> QED
    BY <1>1, <1>2, <1>3, <1>4, <1>5, <1>6, <1>7, <1>8, <1>9, <1>10, <1>11, <1>12, <1>13,
       <1>14, <1>15, <1>16, <1>17, <1>18, <1>19, <1>20, <1>21, <1>22, <1>23, <1>24
    DEF ChatNext

LEMMA SocketConversationStep ==
    TypeInv /\ [ChatNext]_chatVars => SocketHasConversation'
  <1> SUFFICES ASSUME ChatTypeOK, SocketHasConversation, [ChatNext]_chatVars
               PROVE  SocketHasConversation'
    BY DEF TypeInv
  <1>1. \/ socket' = NoSocket
        \/ \E c \in Conversations : socket' = [conv |-> c, state |-> "connecting"]
        \/ socket' = socket
        \/ \E s \in {"closed"} \union OpenStates :
              socket.state # "none" /\ socket' = [socket EXCEPT !.state = s]
    <2>1. ASSUME NEW c \in Conversations, SelectAnswered(c)
          PROVE  socket' = [conv |-> c, state |-> "connecting"]
      BY <2>1 DEF SelectAnswered, Connect
    <2>2. CASE Deselect
      BY <2>2 DEF Deselect
    <2>3. CASE SocketOpens \/ SocketJoins \/ SocketLost \/ AuthHandled
      BY <2>3 DEF SocketOpens, SocketJoins, SocketLost, AuthHandled, Takes, OpenStates
    <2>4. ASSUME NEW c \in Conversations,
                 Select(c) \/ SelectHandled(c) \/ SelectFailed(c) \/ StrayStored(c)
                 \/ PostStored(c) \/ PostFailed(c)
                 \/ \E kind \in {"alike", "other"} : OtherStores(c, kind)
          PROVE  socket' = socket
      BY <2>4 DEF Select, SelectHandled, SelectFailed, StrayStored, PostStored, PostFailed,
                  OtherStores, socketVars
    <2>5. CASE SendText \/ TextRefused \/ TextStored \/ TextEchoed
      BY <2>5 DEF SendText, TextRefused, TextStored, TextEchoed
    <2>6. ASSUME NEW i, Echo(i) \/ EchoFails(i) \/ PostAnswered(i) \/ AnswerLost(i)
          PROVE  socket' = socket
      BY <2>6 DEF Echo, EchoFails, PostAnswered, AnswerLost, socketVars
    <2>7. CASE Receive \/ ReceiveRefusal
      BY <2>7 DEF Receive, ReceiveRefusal
    <2>8. CASE UNCHANGED chatVars
      BY <2>8 DEF chatVars
    <2> QED
      BY <2>1, <2>2, <2>3, <2>4, <2>5, <2>6, <2>7, <2>8 DEF ChatNext
  <1>2. ASSUME NEW s, socket.state # "none", socket' = [socket EXCEPT !.state = s]
        PROVE  socket'.conv = socket.conv
    BY <1>2 DEF ChatTypeOK, Socket
  <1> QED
    BY <1>1, <1>2 DEF SocketHasConversation, NoSocket

LEMMA InitTypes == ChatInit => TypeInv
  <1>1. <<>> \in Seq(Message) /\ <<>> \in Seq(Nat) /\ <<>> \in Seq({"text", "auth"})
    OBVIOUS
  <1>2. NoSocket \in Socket
    BY DEF NoSocket, Socket
  <1>3. /\ [c \in Conversations |-> NoConversation]
              \in [Conversations -> Nat \union {Asked, NoConversation}]
        /\ [c \in Conversations |-> 0] \in [Conversations -> Nat]
    OBVIOUS
  <1>4. ASSUME ChatInit PROVE ChatTypeOK
    <2>1. /\ log \in Seq(Message) /\ messages \in Seq(Nat) /\ down \in Seq(Nat)
          /\ up \in Seq({"text", "auth"})
      BY <1>1, <1>4 DEF ChatInit
    <2>2. /\ unsent \subseteq Nat \ {0} /\ answers \subseteq Nat \ {0}
          /\ stray \in [Conversations -> Nat] /\ posts \in [Conversations -> Nat]
          /\ selects \in [Conversations -> Nat \union {Asked, NoConversation}]
      BY <1>3, <1>4 DEF ChatInit
    <2> QED
      BY <1>2, <1>4, <2>1, <2>2 DEF ChatInit, ChatTypeOK
  <1>5. ChatInit => SocketHasConversation
    BY DEF ChatInit, SocketHasConversation, NoSocket
  <1> QED
    BY <1>4, <1>5 DEF TypeInv

\* Type correctness, for any conversations and any number of messages.
THEOREM TypeCorrect == ChatSpec => []ChatTypeOK
  <1>1. TypeInv /\ [ChatNext]_chatVars => TypeInv'
    BY TypeStep, SocketConversationStep DEF TypeInv
  <1>2. TypeInv => ChatTypeOK
    BY DEF TypeInv
  <1> QED
    BY InitTypes, <1>1, <1>2, PTL DEF ChatSpec

---------------------------------------------------------------------------
(* The steps, by what they touch                                           *)

LEMMA DueTyped ==
    ASSUME ChatTypeOK, Stored
    PROVE  /\ Due \in Nat /\ Cardinality(Texts) \in Nat /\ AtHand \in {0, 1}
           /\ Cardinality(Echoes) \in Nat /\ refused \in Nat
  <1>1. /\ Cardinality(Texts) \in Nat /\ AtHand \in {0, 1} /\ refused \in Nat
        /\ Cardinality(Echoes) \in Nat
    BY Counted, EchoesFinite DEF AtHand
  <1> QED
    BY <1>1 DEF Due

\* The two halves of TextShownOnce.
NoIdTwice ==
    \A k, l \in DOMAIN messages :
        BySocket(messages[k]) /\ messages[k] = messages[l] => k = l
Covered == socket.state \in OpenStates => Cardinality(Optimistic) <= Due

LEMMA TwoHalves == TextShownOnce <=> NoIdTwice /\ Covered
  BY DEF TextShownOnce, NoIdTwice, Covered, Due, AtHand

LEMMA EntriesTyped ==
    ASSUME ChatTypeOK, Stored
    PROVE  /\ messages \in Seq(Nat) /\ down \in Seq(Nat) /\ Len(log) \in Nat
           /\ DOMAIN log = 1..Len(log)
           /\ \A k \in DOMAIN messages : messages[k] \in Nat /\ messages[k] <= Len(log)
           /\ \A k \in DOMAIN messages : messages[k] \in ToSet(messages)
           /\ ToSet(messages) \subseteq Nat /\ ToSet(down) \subseteq Nat
  BY ValuesTyped DEF ChatTypeOK, Stored

\* Steps that change neither what is shown, nor the socket, nor the log.
LEMMA CallStep ==
    ASSUME ChatInv, TypeInv', UNCHANGED <<log, shown, messages, socketVars>>,
           unsent' \subseteq unsent, answers' \subseteq answers,
           \A c \in Conversations : selects'[c] \in Nat => selects'[c] <= Len(log)
    PROVE  ChatInv'
  <1>1. UNCHANGED <<socket, up, handling, refused, down>>
    BY DEF socketVars
  <1>2. Optimistic' = Optimistic /\ Echoes' = Echoes /\ Due' = Due
    BY <1>1 DEF Optimistic, Echoes, Due, Texts, AtHand
  <1>3. SocketIsOfTheShown' /\ NoForeignMessage' /\ SocketInOrder' /\ HandlingIsNew'
    BY <1>1, <1>2 DEF ChatInv, SocketIsOfTheShown, NoForeignMessage, BySocket, SocketInOrder,
                      HandlingIsNew
  <1>4. NoIdTwice' /\ Covered'
    BY <1>1, <1>2, TwoHalves DEF ChatInv, NoIdTwice, Covered, BySocket
  <1>5. Stored'
    BY <1>1 DEF ChatInv, Stored
  <1> QED
    BY <1>3, <1>4, <1>5, TwoHalves DEF ChatInv, TextShownOnce, NoIdTwice, Covered, Due, AtHand

\* Steps that end the socket, and its consumer; the entries shown afterwards
\* are of stored messages and of the conversation shown.
LEMMA AbandonStep ==
    ASSUME ChatInv, TypeInv', Abandon, answers' = answers,
           socket'.conv = shown', socket'.state \in {"none", "connecting", "closed"},
           socket'.state = "connecting" => Optimistic' = {},
           \A i \in ToSet(messages)' : i <= Len(log),
           NoForeignMessage', NoIdTwice',
           \A c \in Conversations : selects'[c] \in Nat => selects'[c] <= Len(log)
    PROVE  ChatInv'
  <1>1. /\ log' = log /\ unsent' \subseteq unsent \union {handling}
        /\ handling' = 0 /\ down' = <<>>
    BY AbandonTypes DEF ChatInv, TypeInv
  <1>2. SocketIsOfTheShown' /\ SocketInOrder' /\ HandlingIsNew'
    BY <1>1 DEF SocketIsOfTheShown, SocketInOrder, HandlingIsNew
  <1>3. Covered'
    BY DEF Covered, OpenStates
  <1>4. Stored'
    <2>1. \A i \in unsent' : i <= Len(log)
      BY <1>1 DEF ChatInv, Stored, HandlingIsNew, TypeInv, ChatTypeOK
    <2>2. ToSet(down') = {}
      BY <1>1 DEF ToSet
    <2> QED
      BY <1>1, <2>1, <2>2 DEF ChatInv, Stored
  <1> QED
    BY <1>2, <1>3, <1>4, TwoHalves DEF ChatInv, TextShownOnce, NoIdTwice, Covered, Due, AtHand

LEMMA SelectAnsweredStep ==
    ASSUME ChatInv, TypeInv', NEW c \in Conversations, SelectAnswered(c)
    PROVE  ChatInv'
  <1> USE ChatAssumption DEF ChatAssumption
  <1> DEFINE n == selects[c]
  <1>1. n \in Nat /\ n <= Len(log) /\ Len(log) \in Nat
    BY DEF SelectAnswered, ChatInv, TypeInv, Stored, ChatTypeOK
  <1>2. /\ messages' \in Seq(Nat \ {0})
        /\ \A k \in DOMAIN messages' : messages'[k] \in 1..n /\ log[messages'[k]].conv = c
        /\ \A k, l \in DOMAIN messages' : k < l => messages'[k] < messages'[l]
    BY <1>1, HistoryFacts DEF SelectAnswered
  <1>3. /\ Abandon /\ socket' = [conv |-> c, state |-> "connecting"] /\ shown' = c
        /\ answers' = answers /\ selects' = [selects EXCEPT ![c] = NoConversation]
    BY DEF SelectAnswered, Connect, restVars
  <1> HIDE DEF n
  <1>4. log' = log
    BY <1>3, AbandonTypes DEF ChatInv, TypeInv
  <1>5. NoForeignMessage'
    BY <1>2, <1>3, <1>4 DEF NoForeignMessage
  <1>6. NoIdTwice'
    BY <1>2 DEF NoIdTwice
  <1>7. Optimistic' = {}
    BY <1>2 DEF Optimistic
  <1>8. \A i \in ToSet(messages)' : i <= Len(log)
    BY <1>1, <1>2 DEF ToSet
  <1>9. \A d \in Conversations : selects'[d] \in Nat => selects'[d] <= Len(log)
    BY <1>3 DEF ChatInv, TypeInv, Stored, ChatTypeOK
  <1> QED
    BY <1>3, <1>5, <1>6, <1>7, <1>8, <1>9, AbandonStep

LEMMA DeselectStep == ASSUME ChatInv, TypeInv', Deselect PROVE ChatInv'
  <1>1. /\ shown' = NoConversation /\ messages' = <<>> /\ socket' = NoSocket /\ Abandon
        /\ selects' = selects /\ answers' = answers
    BY DEF Deselect, restVars
  <1>2. NoForeignMessage' /\ NoIdTwice' /\ \A i \in ToSet(messages)' : i <= Len(log)
    BY <1>1 DEF NoForeignMessage, NoIdTwice, ToSet
  <1>3. socket'.conv = shown' /\ socket'.state = "none"
    BY <1>1 DEF NoSocket
  <1>4. \A d \in Conversations : selects'[d] \in Nat => selects'[d] <= Len(log)
    BY <1>1 DEF ChatInv, Stored
  <1> QED
    BY <1>1, <1>2, <1>3, <1>4, AbandonStep

LEMMA SocketLostStep == ASSUME ChatInv, TypeInv', SocketLost PROVE ChatInv'
  <1>1. /\ Abandon /\ socket' = [socket EXCEPT !.state = "closed"]
        /\ UNCHANGED <<shown, messages, selects, answers>>
    BY DEF SocketLost, viewVars, restVars
  <1>2. socket'.conv = shown' /\ socket'.state = "closed"
    BY <1>1 DEF ChatInv, TypeInv, ChatTypeOK, Socket, SocketIsOfTheShown
  <1>3. log' = log
    BY <1>1, AbandonTypes DEF ChatInv, TypeInv
  <1>4. NoForeignMessage' /\ NoIdTwice'
    BY <1>1, <1>3, TwoHalves DEF ChatInv, NoForeignMessage, NoIdTwice, BySocket
  <1>5. /\ \A i \in ToSet(messages)' : i <= Len(log)
        /\ \A d \in Conversations : selects'[d] \in Nat => selects'[d] <= Len(log)
    BY <1>1 DEF ChatInv, Stored
  <1> QED
    BY <1>1, <1>2, <1>4, <1>5, AbandonStep

\* Steps of the socket and its consumer that neither store nor echo.
LEMMA QuietStep ==
    ASSUME ChatInv, TypeInv',
           UNCHANGED <<log, unsent, shown, messages, selects, handling, answers>>,
           socket'.conv = socket.conv, socket'.state \in OpenStates,
           socket.state = "joined" => socket'.state = "joined",
           \A i \in Nat \ {0} : i \in ToSet(down') <=> i \in ToSet(down),
           \/ Optimistic = {}
           \/ /\ socket.state \in OpenStates
              /\ Cardinality(Texts) + refused <= Cardinality(Texts') + refused'
    PROVE  ChatInv'
  <1>1. ChatTypeOK /\ ChatTypeOK' /\ Stored
    BY DEF ChatInv, TypeInv
  <1>2. \A i \in ToSet(down') : i = 0 \/ i \in ToSet(down)
    BY <1>1, ValuesTyped DEF ChatTypeOK
  <1>3. Stored'
    BY <1>1, <1>2, EntriesTyped DEF Stored
  <1>4. SocketIsOfTheShown' /\ NoForeignMessage' /\ SocketInOrder'
    BY DEF ChatInv, SocketIsOfTheShown, NoForeignMessage, BySocket, SocketInOrder, OpenStates
  <1>5. HandlingIsNew'
    BY <1>1, <1>2 DEF ChatInv, HandlingIsNew
  <1>6. NoIdTwice'
    BY TwoHalves DEF ChatInv, NoIdTwice, BySocket
  <1>7. Echoes' = Echoes /\ Optimistic' = Optimistic /\ AtHand' = AtHand
    <2>1. ToSet(down) \subseteq Nat /\ ToSet(down') \subseteq Nat
      BY <1>1, ValuesTyped DEF ChatTypeOK
    <2>2. Echoes' = {i \in ToSet(down') \ ToSet(messages) : i > 0 /\ log[i].kind = "own"}
      BY DEF Echoes
    <2>3. \A i : i \in Echoes' <=> i \in Echoes
      BY <2>1, <2>2 DEF Echoes
    <2> QED
      BY <2>3 DEF Optimistic, AtHand
  <1>8. Covered'
    <2>1. Due' \in Nat /\ Cardinality(Texts') \in Nat /\ refused' \in Nat
      <3>1. up' \in Seq({"text", "auth"}) /\ refused' \in Nat
        BY <1>1 DEF ChatTypeOK
      <3>2. Texts' = TextsOf(up')
        BY DEF Texts, TextsOf
      <3>3. Cardinality(Texts') \in Nat
        BY <3>1, <3>2, TextsFinite
      <3>4. AtHand \in Nat /\ Cardinality(Echoes) \in Nat
        BY <1>1, DueTyped
      <3> QED
        BY <1>7, <3>1, <3>3, <3>4 DEF Due
    <2>2. CASE Optimistic = {}
      BY <1>7, <2>1, <2>2, FS_EmptySet DEF Covered
    <2>3. CASE /\ socket.state \in OpenStates
               /\ Cardinality(Texts) + refused <= Cardinality(Texts') + refused'
      <3>1. Cardinality(Optimistic) <= Due /\ Cardinality(Optimistic) \in Nat
        BY <1>1, <2>3, Counted, TwoHalves DEF ChatInv, Covered
      <3>2. /\ Due = Cardinality(Texts) + AtHand + Cardinality(Echoes) + refused
            /\ Due' = Cardinality(Texts') + AtHand + Cardinality(Echoes) + refused'
        BY <1>7 DEF Due
      <3>3. /\ Cardinality(Texts) \in Nat /\ AtHand \in Nat /\ Cardinality(Echoes) \in Nat
            /\ refused \in Nat
        BY <1>1, DueTyped
      <3> QED
        BY <1>7, <2>1, <2>3, <3>1, <3>2, <3>3 DEF Covered
    <2> QED
      BY <2>2, <2>3
  <1> QED
    BY <1>3, <1>4, <1>5, <1>6, <1>8, TwoHalves
    DEF ChatInv, TextShownOnce, NoIdTwice, Covered, Due, AtHand

\* Steps that append to the view an entry that no socket has brought: an
\* optimistic one, for a text that goes up, or the answer of a post.
LEMMA EntryStep ==
    ASSUME ChatInv, TypeInv', NEW e \in Nat,
           messages' = Append(messages, e), e <= Len(log), ~BySocket(e), e # 0 => e # handling,
           UNCHANGED <<log, unsent, shown, socket, handling, refused, down, selects>>,
           answers' \subseteq answers,
           \/ e # 0 /\ up' = up
           \/ e = 0 /\ socket.state \in OpenStates /\ up' = Append(up, "text")
    PROVE  ChatInv'
  <1>1. ChatTypeOK /\ Stored /\ messages \in Seq(Nat) /\ up \in Seq({"text", "auth"})
    BY DEF ChatInv, TypeInv, ChatTypeOK
  <1>2. /\ \A k \in DOMAIN messages : messages'[k] = messages[k]
        /\ \A k \in DOMAIN messages' :
              k \in DOMAIN messages \/ (k = Len(messages) + 1 /\ messages'[k] = e)
        /\ ToSet(messages') = ToSet(messages) \union {e}
    BY <1>1, AppendedEntry, ValuesOfAppend
  <1>3. \A k \in DOMAIN messages' : BySocket(messages'[k]) => k \in DOMAIN messages
    BY <1>2
  <1>4. SocketIsOfTheShown'
    BY DEF ChatInv, SocketIsOfTheShown
  <1>5. NoForeignMessage' /\ NoIdTwice'
    BY <1>2, <1>3, TwoHalves DEF ChatInv, NoForeignMessage, NoIdTwice, BySocket
  <1>6. Optimistic' = ZerosOf(messages') /\ Optimistic = ZerosOf(messages)
    BY DEF Optimistic, ZerosOf
  <1>7. SocketInOrder'
    <2>1. e # 0 => Optimistic' = Optimistic
      BY <1>1, <1>6, ZerosOfAppend
    <2> QED
      BY <2>1 DEF ChatInv, SocketInOrder, OpenStates
  <1>8. Stored' /\ HandlingIsNew'
    BY <1>2 DEF ChatInv, Stored, HandlingIsNew
  <1>9. ASSUME socket.state \in OpenStates
        PROVE  Cardinality(Optimistic') <= Due'
    <2>1. Cardinality(Optimistic) <= Due /\ Cardinality(Optimistic) \in Nat
      BY <1>1, <1>9, Counted, TwoHalves DEF ChatInv, Covered
    <2>2. Echoes' = Echoes /\ AtHand' = AtHand
      <3>1. e \notin Echoes
        BY EchoesFinite, <1>1 DEF Echoes, BySocket
      <3>2. Echoes' = Echoes \ {e}
        BY <1>2 DEF Echoes
      <3> QED
        BY <3>1, <3>2 DEF AtHand
    <2>3. /\ Due = Cardinality(Texts) + AtHand + Cardinality(Echoes) + refused
          /\ Due' = Cardinality(Texts') + AtHand + Cardinality(Echoes) + refused
      BY <2>2 DEF Due
    <2>4. /\ Cardinality(Texts) \in Nat /\ AtHand \in Nat /\ Cardinality(Echoes) \in Nat
          /\ refused \in Nat
      BY <1>1, DueTyped
    <2>5. Texts = TextsOf(up) /\ Texts' = TextsOf(up')
      BY DEF Texts, TextsOf
    <2>6. CASE e = 0
      <3>1. Cardinality(Optimistic') = Cardinality(Optimistic) + 1
        BY <1>1, <1>6, <2>6, ZerosOfAppend
      <3>2. Cardinality(Texts') = Cardinality(Texts) + 1
        BY <1>1, <2>5, <2>6, TextsOfAppend
      <3> QED
        BY <2>1, <2>3, <2>4, <3>1, <3>2
    <2>7. CASE e # 0
      <3>1. Optimistic' = Optimistic /\ Texts' = Texts
        BY <1>1, <1>6, <2>5, <2>7, ZerosOfAppend
      <3> QED
        BY <2>1, <2>3, <2>4, <3>1
    <2> QED
      BY <2>6, <2>7
  <1>10. Covered'
    BY <1>9 DEF Covered
  <1> QED
    BY <1>4, <1>5, <1>7, <1>8, <1>10, TwoHalves
    DEF ChatInv, TextShownOnce, NoIdTwice, Covered, Due, AtHand

\* The log grows by m, stored by another consumer or view, or by the one of
\* the socket, which then holds it.
LEMMA StoreStep ==
    ASSUME ChatInv, TypeInv', NEW m \in Message, log' = Append(log, m),
           UNCHANGED <<shown, messages, selects, socket, refused, down>>,
           \/ answers' = answers
           \/ m.kind = "rest" /\ answers' = answers \union {Len(log) + 1},
           \/ /\ unsent' = unsent \union {Len(log) + 1}
              /\ UNCHANGED <<up, handling>>
           \/ /\ unsent' = unsent /\ handling = 0 /\ handling' = Len(log) + 1
              /\ socket.state = "joined" /\ m.conv = socket.conv /\ m.kind = "own"
              /\ up # <<>> /\ up' = Tail(up)
    PROVE  ChatInv'
  <1> DEFINE n == Len(log) + 1
  <1>1. /\ ChatTypeOK /\ Stored /\ Len(log) \in Nat /\ n \in Nat /\ DOMAIN log = 1..Len(log)
        /\ up \in Seq({"text", "auth"})
    <2>1. ChatTypeOK /\ Stored /\ log \in Seq(Message) /\ up \in Seq({"text", "auth"})
      BY DEF ChatInv, TypeInv, ChatTypeOK
    <2>2. Len(log) \in Nat /\ DOMAIN log = 1..Len(log)
      BY <2>1
    <2> QED
      BY <2>1, <2>2
  <1>2. Len(log') = n /\ log'[n] = m /\ \A i \in 1..Len(log) : log'[i] = log[i]
    BY DEF ChatInv, TypeInv, ChatTypeOK
  <1>3. /\ \A k \in DOMAIN messages : messages[k] \in Nat /\ messages[k] <= Len(log)
        /\ ToSet(messages) \subseteq Nat /\ ToSet(down) \subseteq Nat
        /\ unsent \subseteq Nat \ {0} /\ answers \subseteq Nat \ {0}
    BY <1>1, EntriesTyped DEF ChatTypeOK
  <1>4. \A k \in DOMAIN messages :
            /\ BySocket(messages[k])' <=> BySocket(messages[k])
            /\ BySocket(messages[k]) => log'[messages[k]] = log[messages[k]]
    BY <1>1, <1>2, <1>3 DEF BySocket
  <1>5. /\ \A i \in ToSet(down) : i > 0 => log'[i] = log[i]
        /\ \A i \in ToSet(messages) \union ToSet(down) \union unsent : i # n
    BY <1>1, <1>2, <1>3 DEF Stored
  <1> HIDE DEF n
  <1>6. SocketIsOfTheShown' /\ NoForeignMessage' /\ SocketInOrder'
    BY <1>1, <1>4 DEF ChatInv, SocketIsOfTheShown, NoForeignMessage, SocketInOrder,
                      Optimistic, n
  <1>7. NoIdTwice'
    BY <1>4, TwoHalves DEF ChatInv, NoIdTwice
  <1>8. Stored'
    <2>1. \A i \in ToSet(messages) : i <= Len(log')
      BY <1>1, <1>2, <1>3 DEF Stored, n
    <2>2. \A i \in ToSet(down) : i <= Len(log') /\ (i > 0 => log'[i].conv = socket.conv)
      <3> SUFFICES ASSUME NEW i \in ToSet(down)
                   PROVE  i <= Len(log') /\ (i > 0 => log'[i].conv = socket.conv)
        OBVIOUS
      <3>1. i \in Nat /\ i <= Len(log) /\ (i > 0 => log[i].conv = socket.conv)
        BY <1>1, <1>3 DEF Stored
      <3>2. i <= Len(log')
        BY <1>1, <1>2, <3>1 DEF n
      <3> QED
        BY <1>5, <3>1, <3>2
    <2>3. \A i \in unsent' : i <= Len(log')
      <3>1. \A i \in unsent : i \in Nat /\ i <= Len(log)
        BY <1>1, <1>3 DEF Stored
      <3>2. \A i \in unsent' : i \in unsent \/ i = n
        BY DEF n
      <3> QED
        BY <1>1, <1>2, <3>1, <3>2 DEF n
    <2>4. \A i \in answers' : i <= Len(log') /\ log'[i].kind = "rest"
      <3>1. \A i \in answers : i \in 1..Len(log) /\ log[i].kind = "rest"
        BY <1>1, <1>3 DEF Stored
      <3> QED
        BY <1>1, <1>2, <3>1 DEF n
    <2>5. \A c \in Conversations : selects'[c] \in Nat => selects'[c] <= Len(log')
      BY <1>1, <1>2 DEF Stored, n
    <2> QED
      BY <2>1, <2>2, <2>3, <2>4, <2>5 DEF Stored
  <1>9. HandlingIsNew'
    <2>1. CASE handling' = handling /\ unsent' = unsent \union {n}
      <3>1. handling # 0 => handling \in 1..Len(log)
        BY <1>1 DEF ChatInv, HandlingIsNew, ChatTypeOK
      <3>2. handling # 0 => handling # n /\ handling <= n
        BY <1>1, <3>1 DEF n
      <3> QED
        BY <1>2, <2>1, <3>1, <3>2 DEF ChatInv, HandlingIsNew
    <2>2. CASE unsent' = unsent /\ handling' = n /\ m.conv = socket.conv /\ m.kind = "own"
      BY <1>1, <1>2, <1>5, <2>2 DEF HandlingIsNew
    <2> QED
      BY <2>1, <2>2 DEF n
  <1>10. Covered'
    <2>1. Optimistic' = Optimistic
      BY DEF Optimistic
    <2>2. Echoes' = Echoes
      BY <1>3, <1>5 DEF Echoes
    <2>3. /\ Due = Cardinality(Texts) + AtHand + Cardinality(Echoes) + refused
          /\ Due' = Cardinality(Texts') + AtHand' + Cardinality(Echoes) + refused
      BY <2>2 DEF Due
    <2>4. /\ Cardinality(Texts) \in Nat /\ AtHand \in Nat /\ Cardinality(Echoes) \in Nat
          /\ refused \in Nat /\ Cardinality(Optimistic) \in Nat
      BY <1>1, DueTyped, Counted
    <2>5. Texts = TextsOf(up) /\ Texts' = TextsOf(up')
      BY DEF Texts, TextsOf
    <2>6. CASE up' = up /\ handling' = handling
      BY <2>1, <2>3, <2>5, <2>6, TwoHalves DEF ChatInv, Covered, AtHand
    <2>7. CASE handling = 0 /\ handling' = Len(log) + 1 /\ up # <<>> /\ up' = Tail(up)
      <3>1. AtHand = 0 /\ AtHand' = 1
        BY <1>1, <2>7 DEF AtHand
      <3>2. Cardinality(Texts) <= Cardinality(Texts') + 1 /\ Cardinality(Texts') \in Nat
        BY <1>1, <2>5, <2>7, TextsOfTail, TextsFinite
      <3>3. Due <= Due' /\ Due \in Nat /\ Due' \in Nat
        BY <2>3, <2>4, <3>1, <3>2
      <3> QED
        BY <2>1, <2>4, <3>3, TwoHalves DEF ChatInv, Covered
    <2> QED
      BY <2>6, <2>7
  <1> QED
    BY <1>6, <1>7, <1>8, <1>9, <1>10, TwoHalves
    DEF ChatInv, TypeInv, TextShownOnce, NoIdTwice, Covered, Due, AtHand

\* Message i is sent to its group: to the socket as well, if that has joined.
LEMMA EchoStep ==
    ASSUME ChatInv, TypeInv', NEW i \in Nat \ {0}, i <= Len(log), Publish(i),
           UNCHANGED <<log, shown, messages, selects, socket, up, refused, answers>>,
           unsent' \subseteq unsent,
           \/ i # handling /\ handling' = handling
           \/ i = handling /\ handling' = 0
    PROVE  ChatInv'
  <1>1. ChatTypeOK /\ Stored /\ down \in Seq(Nat) /\ ToSet(down) \subseteq Nat
    BY EntriesTyped DEF ChatInv, TypeInv
  <1>2. \/ down' = down /\ socket # [conv |-> log[i].conv, state |-> "joined"]
        \/ /\ ToSet(down') = ToSet(down) \union {i}
           /\ socket = [conv |-> log[i].conv, state |-> "joined"]
    BY <1>1, ValuesOfAppend DEF Publish
  <1>3. ToSet(down') = ToSet(down) \/ ToSet(down') = ToSet(down) \union {i}
    BY <1>2
  <1>4. SocketIsOfTheShown' /\ NoForeignMessage'
    BY DEF ChatInv, SocketIsOfTheShown, NoForeignMessage, BySocket
  <1>5. SocketInOrder'
    BY <1>2 DEF ChatInv, SocketInOrder, Optimistic, OpenStates
  <1>6. NoIdTwice'
    BY TwoHalves DEF ChatInv, NoIdTwice, BySocket
  <1>7. Stored'
    BY <1>1, <1>2 DEF Stored
  <1>8. HandlingIsNew'
    BY <1>3 DEF ChatInv, HandlingIsNew
  <1>9. Covered'
    <2>1. Optimistic' = Optimistic /\ Texts' = Texts
      BY DEF Optimistic, Texts
    <2>2. /\ Due = Cardinality(Texts) + AtHand + Cardinality(Echoes) + refused
          /\ Due' = Cardinality(Texts) + AtHand' + Cardinality(Echoes') + refused
      BY <2>1 DEF Due
    <2>3. /\ Cardinality(Texts) \in Nat /\ AtHand \in Nat /\ Cardinality(Echoes) \in Nat
          /\ refused \in Nat /\ Cardinality(Optimistic) \in Nat /\ IsFiniteSet(Echoes)
      BY <1>1, DueTyped, Counted, EchoesFinite
    <2>4. Echoes \subseteq Echoes' /\ (Echoes' = Echoes \/ Echoes' = Echoes \union {i})
      <3>1. Echoes' = {x \in ToSet(down') \ ToSet(messages) : x > 0 /\ log[x].kind = "own"}
        BY DEF Echoes
      <3>2. CASE ToSet(down') = ToSet(down)
        BY <3>1, <3>2 DEF Echoes
      <3>3. CASE ToSet(down') = ToSet(down) \union {i}
        <4>1. CASE i \notin ToSet(messages) /\ log[i].kind = "own"
          BY <3>1, <3>3, <4>1 DEF Echoes
        <4>2. CASE ~(i \notin ToSet(messages) /\ log[i].kind = "own")
          BY <3>1, <3>3, <4>2 DEF Echoes
        <4> QED
          BY <4>1, <4>2
      <3> QED
        BY <1>3, <3>2, <3>3
    <2>5. Cardinality(Echoes) <= Cardinality(Echoes') /\ Cardinality(Echoes') \in Nat
      <3>1. IsFiniteSet(Echoes')
        BY <2>3, <2>4, FS_AddElement
      <3> QED
        BY <2>4, <3>1, FS_Subset, FS_CardinalityType
    <2>6. CASE handling' = handling
      <3>1. AtHand' = AtHand
        BY <2>6 DEF AtHand
      <3>2. Due <= Due' /\ Due \in Nat /\ Due' \in Nat
        BY <2>2, <2>3, <2>5, <3>1
      <3> QED
        BY <2>1, <2>3, <3>2, TwoHalves DEF ChatInv, Covered
    <2>7. CASE i = handling /\ handling' = 0
      <3>1. AtHand = 1 /\ AtHand' = 0
        BY <2>7 DEF AtHand
      <3>2. /\ socket.state = "joined" /\ socket.conv = log[i].conv /\ log[i].kind = "own"
            /\ i \notin ToSet(messages) \union ToSet(down)
        BY <2>7 DEF ChatInv, SocketInOrder, HandlingIsNew
      <3>3. socket = [conv |-> log[i].conv, state |-> "joined"]
        BY <1>1, <3>2 DEF ChatTypeOK, Socket
      <3>4. Echoes' = Echoes \union {i} /\ i \notin Echoes
        <4>1. ToSet(down') = ToSet(down) \union {i}
          BY <1>2, <3>3
        <4> QED
          BY <3>2, <4>1 DEF Echoes
      <3>5. Cardinality(Echoes') = Cardinality(Echoes) + 1
        BY <2>3, <3>4, FS_AddElement
      <3>6. Due' = Due
        BY <2>2, <2>3, <3>1, <3>5
      <3> QED
        BY <2>1, <3>6, TwoHalves DEF ChatInv, Covered
    <2> QED
      BY <2>6, <2>7
  <1> QED
    BY <1>4, <1>5, <1>6, <1>7, <1>8, <1>9, TwoHalves
    DEF ChatInv, TextShownOnce, NoIdTwice, Covered, Due, AtHand

\* A message of the socket is taken: its id leaves the way to the view as it
\* comes into it, for an optimistic entry if there is one with its words.
LEMMA ReceiveStep == ASSUME ChatInv, TypeInv', Receive PROVE ChatInv'
  <1> DEFINE i == Head(down)
  <1>1. /\ down # <<>> /\ down' = Tail(down)
        /\ UNCHANGED <<log, unsent, shown, selects, socket, up, handling, refused, answers>>
        /\ \/ i \in ToSet(messages) /\ messages' = messages
           \/ /\ i \notin ToSet(messages)
              /\ \E k \in Optimistic : messages' = [messages EXCEPT ![k] = i]
           \/ /\ i \notin ToSet(messages)
              /\ Optimistic = {} \/ log[i].kind = "other"
              /\ messages' = Append(messages, i)
    BY ReceiveIsOneOf DEF ChatInv, TypeInv, serverVars
  <1>2. /\ ChatTypeOK /\ Stored /\ down \in Seq(Nat) /\ messages \in Seq(Nat)
        /\ i \in Nat \ {0} /\ Optimistic = ZerosOf(messages)
        /\ ToSet(messages) \subseteq Nat
    BY ReceiveIsOneOf, EntriesTyped, Counted DEF ChatInv, TypeInv
  <1>3. ToSet(down) = ToSet(down') \union {i}
    BY <1>1, <1>2, ValuesOfTail
  <1>4. i <= Len(log) /\ log[i].conv = socket.conv
    BY <1>2, <1>3 DEF Stored
  <1>5. socket.state \in OpenStates
    BY <1>1 DEF ChatInv, SocketInOrder
  <1> HIDE DEF i
  <1>6. /\ \A x \in Nat \ {0, i} : x \in ToSet(messages') <=> x \in ToSet(messages)
        /\ i \in ToSet(messages')
    <2>1. CASE i \in ToSet(messages) /\ messages' = messages
      BY <2>1
    <2>2. ASSUME NEW k \in Optimistic, messages' = [messages EXCEPT ![k] = i]
          PROVE  /\ \A x \in Nat \ {0, i} : x \in ToSet(messages') <=> x \in ToSet(messages)
                 /\ i \in ToSet(messages')
      BY <1>2, <2>2, ValuesOfReplaced
    <2>3. CASE messages' = Append(messages, i)
      BY <1>2, <2>3, ValuesOfAppend
    <2> QED
      BY <1>1, <2>1, <2>2, <2>3
  <1>7. \E p : \A k \in DOMAIN messages' :
            \/ k \in DOMAIN messages /\ messages'[k] = messages[k]
            \/ k = p /\ messages'[k] = i /\ i \notin ToSet(messages)
    <2>1. CASE messages' = messages
      BY <2>1
    <2>2. ASSUME NEW p \in Optimistic, messages' = [messages EXCEPT ![p] = i],
                 i \notin ToSet(messages)
          PROVE  \A k \in DOMAIN messages' :
                    \/ k \in DOMAIN messages /\ messages'[k] = messages[k]
                    \/ k = p /\ messages'[k] = i /\ i \notin ToSet(messages)
      <3>1. DOMAIN messages' = DOMAIN messages /\ p \in DOMAIN messages
        BY <1>2, <2>2 DEF Optimistic
      <3>2. messages'[p] = i /\ \A k \in DOMAIN messages : k # p => messages'[k] = messages[k]
        BY <2>2, <3>1
      <3> QED
        BY <2>2, <3>1, <3>2
    <2>3. ASSUME messages' = Append(messages, i), i \notin ToSet(messages)
          PROVE  \A k \in DOMAIN messages' :
                    \/ k \in DOMAIN messages /\ messages'[k] = messages[k]
                    \/ k = Len(messages) + 1 /\ messages'[k] = i /\ i \notin ToSet(messages)
      BY <1>2, <2>3, AppendedEntry
    <2>4. CASE \E k \in Optimistic : messages' = [messages EXCEPT ![k] = i]
                                      /\ i \notin ToSet(messages)
      BY <2>2, <2>4
    <2>5. CASE messages' = Append(messages, i) /\ i \notin ToSet(messages)
      BY <2>3, <2>5
    <2> QED
      BY <1>1, <2>1, <2>4, <2>5
  <1>8. \A k \in DOMAIN messages' :
            (k \in DOMAIN messages /\ messages'[k] = messages[k]) \/ messages'[k] = i
    BY <1>7
  <1>9. SocketIsOfTheShown' /\ NoForeignMessage'
    BY <1>1, <1>4, <1>8 DEF ChatInv, SocketIsOfTheShown, NoForeignMessage, BySocket
  <1>10. SocketInOrder'
    BY <1>1, <1>5 DEF ChatInv, SocketInOrder, OpenStates
  <1>11. Stored'
    <2>1. \A k \in DOMAIN messages' : messages'[k] <= Len(log)
      BY <1>2, <1>4, <1>8, EntriesTyped
    <2>2. \A x \in ToSet(messages') : x <= Len(log)
      BY <2>1 DEF ToSet
    <2> QED
      BY <1>1, <1>2, <1>3, <2>2 DEF Stored
  <1>12. HandlingIsNew'
    <2>1. handling # 0 => handling # i /\ handling \in Nat
      BY <1>2, <1>3 DEF ChatInv, HandlingIsNew, ChatTypeOK
    <2> QED
      BY <1>1, <1>3, <1>6, <2>1 DEF ChatInv, HandlingIsNew
  <1>13. NoIdTwice'
    <2>1. PICK p : \A k \in DOMAIN messages' :
              \/ k \in DOMAIN messages /\ messages'[k] = messages[k]
              \/ k = p /\ messages'[k] = i /\ i \notin ToSet(messages)
      BY <1>7
    <2>2. \A k \in DOMAIN messages : messages[k] \in ToSet(messages)
      BY <1>2, EntriesTyped
    <2>3. NoIdTwice
      BY TwoHalves DEF ChatInv
    <2> QED
      BY <1>1, <2>1, <2>2, <2>3 DEF NoIdTwice, BySocket
  <1>14. Covered'
    <2>1. Echoes' = Echoes \ {i}
      <3>1. Echoes' = {x \in ToSet(down') \ ToSet(messages') : x > 0 /\ log[x].kind = "own"}
        BY <1>1 DEF Echoes
      <3>2. ToSet(down) \subseteq Nat
        BY <1>2, ValuesTyped
      <3>3. \A x : x \in Echoes' <=> x \in Echoes \ {i}
        BY <1>3, <1>6, <3>1, <3>2 DEF Echoes
      <3> QED
        BY <3>3
    <2>2. /\ Texts' = Texts /\ AtHand' = AtHand
          /\ Due = Cardinality(Texts) + AtHand + Cardinality(Echoes) + refused
          /\ Due' = Cardinality(Texts) + AtHand + Cardinality(Echoes') + refused
      BY <1>1 DEF Due, Texts, AtHand
    <2>3. /\ Cardinality(Texts) \in Nat /\ AtHand \in Nat /\ Cardinality(Echoes) \in Nat
          /\ refused \in Nat /\ Cardinality(Optimistic) \in Nat /\ IsFiniteSet(Echoes)
      BY <1>2, DueTyped, Counted, EchoesFinite
    <2>4. Cardinality(Echoes') = IF i \in Echoes THEN Cardinality(Echoes) - 1
                                                 ELSE Cardinality(Echoes)
      BY <2>1, <2>3, FS_RemoveElement
    <2>5. Cardinality(Echoes') \in Nat
      BY <2>1, <2>3, FS_RemoveElement, FS_CardinalityType
    <2>6. Due' \in Nat /\ Due \in Nat
      BY <2>2, <2>3, <2>5
    <2>7. Cardinality(Optimistic) <= Due
      BY <1>5, TwoHalves DEF ChatInv, Covered
    <2>8. Optimistic' = ZerosOf(messages')
      BY DEF Optimistic, ZerosOf
    <2>9. Cardinality(Optimistic') <= Due'
      <3>1. CASE i \in ToSet(messages) /\ messages' = messages
        <4>1. i \notin Echoes
          BY <3>1 DEF Echoes
        <4>2. Optimistic' = Optimistic /\ Echoes' = Echoes
          BY <1>2, <2>1, <2>8, <3>1, <4>1
        <4> QED
          BY <2>2, <2>7, <4>2
      <3>2. ASSUME NEW k \in Optimistic, messages' = [messages EXCEPT ![k] = i]
            PROVE  Cardinality(Optimistic') <= Due'
        <4>1. Cardinality(Optimistic') = Cardinality(Optimistic) - 1
          BY <1>2, <2>8, <3>2, ZerosOfReplaced
        <4>2. Due' >= Due - 1
          BY <2>2, <2>3, <2>4, <2>5
        <4> QED
          BY <2>3, <2>6, <2>7, <4>1, <4>2
      <3>3. CASE messages' = Append(messages, i) /\ (Optimistic = {} \/ log[i].kind = "other")
        <4>1. Optimistic' = Optimistic
          BY <1>2, <2>8, <3>3, ZerosOfAppend
        <4>2. CASE Optimistic = {}
          <5>1. Cardinality(Optimistic') = 0
            BY <4>1, <4>2, FS_EmptySet
          <5> QED
            BY <2>6, <5>1
        <4>3. CASE log[i].kind = "other"
          <5>1. i \notin Echoes
            BY <4>3 DEF Echoes
          <5> QED
            BY <2>1, <2>2, <2>7, <4>1, <5>1
        <4> QED
          BY <3>3, <4>2, <4>3
      <3> QED
        BY <1>1, <3>1, <3>2, <3>3
    <2> QED
      BY <2>9 DEF Covered
  <1> QED
    BY <1>9, <1>10, <1>11, <1>12, <1>13, <1>14, TwoHalves
    DEF ChatInv, TextShownOnce, NoIdTwice, Covered, Due, AtHand

---------------------------------------------------------------------------
(* The invariant                                                           *)

LEMMA ChatInvInit == ChatInit => ChatInv
  <1> SUFFICES ASSUME ChatInit PROVE ChatInv
    OBVIOUS
  <1>1. TypeInv
    BY InitTypes
  <1>2. /\ log = <<>> /\ messages = <<>> /\ down = <<>> /\ answers = {} /\ unsent = {}
        /\ socket = NoSocket /\ shown = NoConversation /\ handling = 0
        /\ \A c \in Conversations : selects[c] = NoConversation
    BY DEF ChatInit
  <1>3. SocketIsOfTheShown /\ NoForeignMessage /\ SocketInOrder /\ HandlingIsNew
    BY <1>2 DEF SocketIsOfTheShown, NoForeignMessage, SocketInOrder, HandlingIsNew, NoSocket
  <1>4. TextShownOnce
    BY <1>2 DEF TextShownOnce, NoSocket, OpenStates
  <1>5. Stored
    BY <1>2, ChatAssumption DEF Stored, ToSet, ChatAssumption
  <1> QED
    BY <1>1, <1>3, <1>4, <1>5 DEF ChatInv

LEMMA ChatInvStep == ChatInv /\ [ChatNext]_chatVars => ChatInv'
  <1> SUFFICES ASSUME ChatInv, [ChatNext]_chatVars PROVE ChatInv'
    OBVIOUS
  <1>1. TypeInv /\ TypeInv' /\ ChatTypeOK /\ Stored
    BY TypeStep, SocketConversationStep DEF ChatInv, TypeInv
  <1>2. \A c \in Conversations : selects[c] \in Nat => selects[c] <= Len(log)
    BY <1>1 DEF Stored
  <1>3. ASSUME NEW c \in Conversations, Select(c) \/ SelectHandled(c) \/ SelectFailed(c)
        PROVE  ChatInv'
    <2>1. /\ UNCHANGED <<log, unsent, shown, messages, socketVars, answers>>
          /\ \E v \in {Asked, Len(log), NoConversation} : selects' = [selects EXCEPT ![c] = v]
      BY <1>3 DEF Select, SelectHandled, SelectFailed, serverVars, restVars
    <2>2. \A d \in Conversations : selects'[d] \in Nat => selects'[d] <= Len(log)
      BY <1>1, <1>2, <2>1, ChatAssumption DEF ChatTypeOK, Asked, ChatAssumption
    <2> QED
      BY <1>1, <2>1, <2>2, CallStep
  <1>4. ASSUME NEW c \in Conversations, SelectAnswered(c) PROVE ChatInv'
    BY <1>1, <1>4, SelectAnsweredStep
  <1>5. ASSUME NEW c \in Conversations, NEW kind \in {"own", "alike", "other", "rest"},
               StoreMessage([conv |-> c, kind |-> kind]),
               UNCHANGED <<viewVars, socketVars>>,
               answers' = answers \/ (kind = "rest"
                                      /\ answers' = answers \union {Len(log) + 1})
        PROVE  ChatInv'
    <2> DEFINE m == [conv |-> c, kind |-> kind]
    <2>1. /\ m \in Message /\ log' = Append(log, m) /\ unsent' = unsent \union {Len(log) + 1}
          /\ UNCHANGED <<shown, messages, selects, socket, up, handling, refused, down>>
          /\ answers' = answers \/ (m.kind = "rest"
                                    /\ answers' = answers \union {Len(log) + 1})
      BY <1>5 DEF Message, StoreMessage, viewVars, socketVars
    <2> HIDE DEF m
    <2> QED
      BY <1>1, <2>1, StoreStep
  <1>6. ASSUME NEW c \in Conversations, StrayStored(c) PROVE ChatInv'
    BY <1>5, <1>6 DEF StrayStored, restVars
  <1>7. ASSUME NEW c \in Conversations, NEW kind \in {"alike", "other"}, OtherStores(c, kind)
        PROVE  ChatInv'
    BY <1>5, <1>7 DEF OtherStores, restVars
  <1>8. ASSUME NEW c \in Conversations, PostStored(c) PROVE ChatInv'
    BY <1>5, <1>8 DEF PostStored
  <1>9. ASSUME NEW c \in Conversations, PostFailed(c) PROVE ChatInv'
    BY <1>1, <1>2, <1>9, CallStep DEF PostFailed, viewVars, serverVars
  <1>10. CASE Deselect
    BY <1>1, <1>10, DeselectStep
  <1>11. CASE SocketOpens
    <2>1. /\ socket.state = "connecting" /\ socket'.conv = socket.conv
          /\ socket'.state \in {"joining", "anonymous"}
          /\ UNCHANGED <<log, unsent, shown, messages, selects, handling, down, answers>>
      BY <1>1, <1>11 DEF SocketOpens, serverVars, viewVars, restVars, ChatTypeOK, Socket
    <2>2. Optimistic = {}
      BY <2>1 DEF ChatInv, SocketInOrder
    <2> QED
      BY <1>1, <2>1, <2>2, QuietStep DEF OpenStates
  <1>12. CASE SocketJoins
    <2>1. /\ socket.state = "joining" /\ socket'.conv = socket.conv /\ socket'.state = "joined"
          /\ UNCHANGED <<log, unsent, shown, messages, selects, handling, down, answers>>
          /\ UNCHANGED <<up, refused>>
      BY <1>1, <1>12 DEF SocketJoins, serverVars, viewVars, restVars, ChatTypeOK, Socket
    <2>2. Cardinality(Texts) + refused <= Cardinality(Texts') + refused'
      BY <1>1, <2>1, DueTyped DEF Texts
    <2> QED
      BY <1>1, <2>1, <2>2, QuietStep DEF OpenStates
  <1>13. CASE SocketLost
    BY <1>1, <1>13, SocketLostStep
  <1>14. CASE SendText
    <2>1. UNCHANGED <<log, unsent, shown, selects, socket, handling, refused, down, answers>>
      BY <1>14 DEF SendText, serverVars
    <2>2. CASE messages' = messages /\ up' = up
      BY <1>1, <1>2, <2>1, <2>2, CallStep DEF socketVars
    <2>3. CASE /\ socket.state \in OpenStates /\ up' = Append(up, "text")
               /\ messages' = Append(messages, 0)
      <3>1. 0 <= Len(log) /\ ~BySocket(0)
        BY <1>1 DEF ChatTypeOK, BySocket
      <3> QED
        BY <1>1, <2>1, <2>3, <3>1, EntryStep
    <2> QED
      BY <1>14, <2>2, <2>3 DEF SendText
  <1>15. CASE AuthHandled
    <2>1. /\ up # <<>> /\ Head(up) = "auth" /\ up' = Tail(up)
          /\ socket.state \in {"anonymous", "joined"} /\ socket'.conv = socket.conv
          /\ socket'.state \in {socket.state, "joined"}
          /\ UNCHANGED <<log, unsent, shown, messages, selects, handling, refused, down>>
          /\ answers' = answers
      BY <1>1, <1>15 DEF AuthHandled, Takes, serverVars, viewVars, restVars, ChatTypeOK, Socket
    <2>2. Cardinality(Texts) <= Cardinality(Texts')
      BY <1>1, <2>1, TextsOfTail DEF ChatTypeOK, Texts, TextsOf
    <2>3. Cardinality(Texts) + refused <= Cardinality(Texts') + refused'
      <3>1. Cardinality(Texts') \in Nat
        BY <1>1, <2>1, TextsOfTail, TextsFinite DEF ChatTypeOK, Texts, TextsOf
      <3> QED
        BY <1>1, <2>1, <2>2, <3>1, DueTyped
    <2> QED
      BY <1>1, <2>1, <2>3, QuietStep DEF OpenStates
  <1>16. CASE TextRefused
    <2>1. /\ up # <<>> /\ up' = Tail(up) /\ socket.state = "anonymous" /\ socket' = socket
          /\ refused' = refused + 1 /\ down' = Append(down, 0)
          /\ UNCHANGED <<log, unsent, shown, messages, selects, handling, answers>>
      BY <1>16 DEF TextRefused, Takes, AuthRequired, serverVars, viewVars, restVars
    <2>2. Cardinality(Texts) + refused <= Cardinality(Texts') + refused'
      <3>1. Cardinality(Texts) <= Cardinality(Texts') + 1
        BY <1>1, <2>1, TextsOfTail DEF ChatTypeOK, Texts, TextsOf
      <3>2. Cardinality(Texts') \in Nat
        BY <1>1, <2>1, TextsOfTail, TextsFinite DEF ChatTypeOK, Texts, TextsOf
      <3> QED
        BY <1>1, <2>1, <3>1, <3>2, DueTyped
    <2>3. \A i \in Nat \ {0} : i \in ToSet(down') <=> i \in ToSet(down)
      BY <1>1, <2>1, ValuesOfAppend DEF ChatTypeOK
    <2> QED
      BY <1>1, <2>1, <2>2, <2>3, QuietStep DEF OpenStates
  <1>17. CASE TextStored
    <2> DEFINE m == [conv |-> socket.conv, kind |-> "own"]
    <2>1. /\ socket.state = "joined" /\ handling = 0 /\ up # <<>> /\ up' = Tail(up)
          /\ log' = Append(log, m) /\ handling' = Len(log) + 1
          /\ UNCHANGED <<unsent, shown, messages, selects, socket, refused, down, answers>>
      BY <1>17 DEF TextStored, Takes, viewVars, restVars
    <2>2. m \in Message /\ m.conv = socket.conv /\ m.kind = "own"
      BY <1>1, <2>1 DEF Message, TypeInv, SocketHasConversation
    <2> HIDE DEF m
    <2> QED
      BY <1>1, <2>1, <2>2, StoreStep
  <1>18. CASE TextEchoed
    <2>1. /\ handling # 0 /\ Publish(handling) /\ handling' = 0
          /\ UNCHANGED <<log, unsent, shown, messages, selects, socket, up, refused, answers>>
      BY <1>18 DEF TextEchoed, serverVars, viewVars, restVars
    <2>2. handling \in Nat \ {0} /\ handling <= Len(log)
      BY <1>1, <2>1 DEF ChatInv, HandlingIsNew, ChatTypeOK
    <2> QED
      BY <1>1, <2>1, <2>2, EchoStep
  <1>19. ASSUME NEW i \in unsent, Echo(i) PROVE ChatInv'
    <2>1. /\ Publish(i) /\ unsent' \subseteq unsent /\ handling' = handling
          /\ UNCHANGED <<log, shown, messages, selects, socket, up, refused, answers>>
      BY <1>19 DEF Echo, viewVars, restVars
    <2>2. i \in Nat \ {0} /\ i <= Len(log) /\ i # handling
      BY <1>1 DEF ChatInv, HandlingIsNew, Stored, ChatTypeOK
    <2> QED
      BY <1>1, <2>1, <2>2, EchoStep
  <1>20. ASSUME NEW i \in unsent, EchoFails(i) PROVE ChatInv'
    <2>1. /\ UNCHANGED <<log, shown, messages, selects, socketVars>>
          /\ unsent' \subseteq unsent /\ answers' \subseteq answers
      BY <1>20 DEF EchoFails, viewVars
    <2> QED
      BY <1>1, <1>2, <2>1, CallStep
  <1>21. ASSUME NEW i \in answers, PostAnswered(i) PROVE ChatInv'
    <2>1. /\ messages' = Append(messages, i) /\ answers' \subseteq answers
          /\ UNCHANGED <<log, unsent, shown, selects, socket, up, handling, refused, down>>
      BY <1>21 DEF PostAnswered, serverVars, socketVars
    <2>2. i \in Nat /\ i # 0 /\ i <= Len(log) /\ log[i].kind = "rest"
      BY <1>1 DEF Stored, ChatTypeOK
    <2>3. ~BySocket(i) /\ i # handling
      BY <2>2 DEF BySocket, ChatInv, HandlingIsNew
    <2> QED
      BY <1>1, <2>1, <2>2, <2>3, EntryStep
  <1>22. ASSUME NEW i \in answers, AnswerLost(i) PROVE ChatInv'
    <2>1. /\ UNCHANGED <<log, unsent, shown, messages, selects, socketVars>>
          /\ answers' \subseteq answers
      BY <1>22 DEF AnswerLost, serverVars, viewVars
    <2> QED
      BY <1>1, <1>2, <2>1, CallStep
  <1>23. CASE Receive
    BY <1>1, <1>23, ReceiveStep
  <1>24. CASE ReceiveRefusal
    <2>1. /\ down # <<>> /\ Head(down) = 0 /\ down' = Tail(down) /\ socket' = socket
          /\ up' = up \/ up' = Append(up, "auth")
          /\ UNCHANGED <<log, unsent, shown, messages, selects, handling, refused, answers>>
      BY <1>24 DEF ReceiveRefusal, AuthRequired, serverVars, viewVars, restVars
    <2>2. Texts' = Texts
      <3>1. Texts = TextsOf(up) /\ Texts' = TextsOf(up')
        BY DEF Texts, TextsOf
      <3>2. up \in Seq({"text", "auth"})
        BY <1>1 DEF ChatTypeOK
      <3>3. TextsOf(Append(up, "auth")) = TextsOf(up)
        BY <3>2, TextsOfAppend
      <3> QED
        BY <2>1, <3>1, <3>3
    <2>3. Cardinality(Texts) + refused <= Cardinality(Texts') + refused'
      BY <1>1, <2>1, <2>2, DueTyped
    <2>4. \A i \in Nat \ {0} : i \in ToSet(down') <=> i \in ToSet(down)
      BY <1>1, <2>1, ValuesOfTail DEF ChatTypeOK
    <2>5. socket.state \in OpenStates
      BY <2>1 DEF ChatInv, SocketInOrder
    <2> QED
      BY <1>1, <2>1, <2>3, <2>4, <2>5, QuietStep
  <1>25. CASE UNCHANGED chatVars
    BY <1>1, <1>2, <1>25, CallStep DEF chatVars, socketVars
  <1> QED
    BY <1>3, <1>4, <1>6, <1>7, <1>8, <1>9, <1>10, <1>11, <1>12, <1>13, <1>14, <1>15, <1>16,
       <1>17, <1>18, <1>19, <1>20, <1>21, <1>22, <1>23, <1>24, <1>25
    DEF ChatNext

LEMMA ChatInvariant == ChatSpec => []ChatInv
  BY ChatInvInit, ChatInvStep, PTL DEF ChatSpec

\* The socket is of the conversation shown, in whatever order the histories of
\* hastily selected conversations arrive.
THEOREM SocketFollowsTheView == ChatSpec => []SocketIsOfTheShown
  BY ChatInvariant, PTL DEF ChatInv

\* What came with a history or over a socket is of the conversation shown.
THEOREM ViewNeverMixed == ChatSpec => []NoForeignMessage
  BY ChatInvariant, PTL DEF ChatInv

\* No id that came over a socket is shown twice, although a history is read
\* between the storing of a text and its echo; and while the socket is open an
\* optimistic entry is covered by a text to be stored, to be echoed, on its
\* way back, or refused.
THEOREM EchoReplacesItsEntry == ChatSpec => []TextShownOnce
  BY ChatInvariant, PTL DEF ChatInv
============================================================================
