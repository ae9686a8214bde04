SPECIFICATION Spec
CONSTANTS
    book = book  note = note  pa = pa  pb = pb  pd = pd  yes = yes  no = no  shop = shop
    next = next  prev = prev
    Commands <- MCCommands
    Menu = Menu  Start = Start  Resume = Resume
    PluginOf <- MCPluginOf
    Reloadable = {}
    AllowBack = {book}
    Params <- MCParams
    Values = {yes, no, shop}
    ActiveSteps <- MCActiveSteps
    Accepts <- MCAccepts
    Paginated <- MCPaginated
    PageNext = next  PagePrev = prev
    Chats = {here}
    Workers = {w1, w2}
    MaxToken = 4
    MaxPage = 1
    MaxFaults = 0
    ExpiresMidUpdate = TRUE
    Unset = Unset  NoParam = NoParam  NoDialog = NoDialog  NoChat = NoChat
INVARIANTS TokenIdentifiesStep BackRetracesAnswers DispatchedIsComplete
SYMMETRY Symmetry
CHECK_DEADLOCK FALSE
