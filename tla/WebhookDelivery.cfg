\* One event, a repository hook and an organization hook, two upsets of any sort, and
\* a job at a time.  The run stops when every job is over.
SPECIFICATION FairSpec
CONSTANTS
    e1 = e1
    push = push
    issues = issues
    Hook = {h1, o1}
    OrgHook = {o1}
    Event = {e1}
    Kind = {push, issues}
    Push = push
    Star = Star
    KindOf <- Kinds
    Patch <- Patches
    Keep = Keep
    NoEvent = NoEvent
    NoHook = NoHook
    Slot = {1, 2, 3, 4, 5}
    NoKey = NoKey
    MaxAttempts = 2
    Loops = 1
    Editor = {a1}
    Offer <- Offers
    MaxUpsets = 2
INVARIANTS
    TypeOK
    AcceptedOrOwed
    OnlyInvited
    TwiceOnlyRefanned
PROPERTIES
    Reaches
CHECK_DEADLOCK FALSE
