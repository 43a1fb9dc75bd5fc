\* One user who logs in and reloads the page.
CONSTANTS
    Users = {ann}
    Admins = {}
    Requests = {r}
    MaxInFlight = 1
    None = None
    Conversations = {}
    MaxMessages = 0
    NoConversation = NoConversation

SPECIFICATION Spec

INVARIANTS
    RefreshCookieIsUsable

CHECK_DEADLOCK FALSE
