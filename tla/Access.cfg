SPECIFICATION Spec
CONSTANTS
    Nodes = {n1, n2, n3}
    Root = Root
    owner = owner
    guest = guest
    admin = admin
    Accounts = {owner, guest, admin}
    Anonymous = Anonymous
    Admins = {admin}
    AccountPerms <- SomePerms
    NodeScope <- Scope
    Settings <- SomeSettings
    Entries <- SomeEntries
    MaxDepth = 2
    PageSize = 50
    Readers = {guest, Anonymous}
    Writers = {owner, guest}
    Ops = {"update", "acl", "recursiveAcl", "move", "purge"}
CHECK_DEADLOCK FALSE
SYMMETRY Symmetric
INVARIANT TypeOK AnswersAreTrue ListingExact
