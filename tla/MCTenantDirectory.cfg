\* Every kind of request on the tenants, overlapping.
SPECIFICATION Spec
CONSTANTS
    seed = seed
    create = create
    patch = patch
    retoken = retoken
    delete = delete
    send = send
    task = task
    Requests = {seed, create, patch, retoken, delete, send, task}
    Job <- AllKinds
    Keys = {"k1"}
    DefaultSlug = "prodaxis"
INVARIANTS
    TypeOK
    UniqueSlug
    QuotaBound
    TokensReadable
PROPERTIES
    DeletedIsFrozen
    LimitStands
CHECK_DEADLOCK FALSE
