\* Two administrators who may impersonate each other, one page request, two of
\* the user's calls in flight at a time; two conversations, two messages.
CONSTANTS
    Users = {ann, bob}
    Admins = {ann, bob}
    Requests = {r}
    MaxInFlight = 2
    None = None
    Conversations = {c1, c2}
    MaxMessages = 2
    NoConversation = NoConversation

SPECIFICATION Spec

INVARIANTS
    WebTypeOK
    NoWaiterForgotten
    StoreAgreesWithCookies
    GivenUpIsSignedOut
    ChatTypeOK
    SocketIsOfTheShown
    NoForeignMessage
    TextShownOnce

CHECK_DEADLOCK FALSE
