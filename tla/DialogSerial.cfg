SPECIFICATION Spec
CONSTANTS
    book = book  note = note  pa = pa  pb = pb  pd = pd  yes = yes  no = no  shop = shop
    next = next  prev = prev
    Commands <- MCCommands
    Menu = Menu  Start = Start  Resume = Resume
    PluginOf <- MCPluginOf
    Reloadable = {shop}
    AllowBack = {book}
    Params <- MCParams
    Values = {yes, no, shop, next, prev}
    ActiveSteps <- MCActiveSteps
    Accepts <- MCAccepts
    Paginated <- MCPaginated
    PageNext = next  PagePrev = prev
    Chats = {here, there}
    Workers = {w1}
    MaxToken = 4
    MaxPage = 1
    MaxFaults = 2
    ExpiresMidUpdate = FALSE
    Unset = Unset  NoParam = NoParam  NoDialog = NoDialog  NoChat = NoChat
INVARIANTS BackNeverDispatches DispatchAtMostOnce
PROPERTY ImplementsConversation
