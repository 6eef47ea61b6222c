\* As MCFeed, for the hook's own promise about switching.
SPECIFICATION Spec
CONSTANTS
    Symbol = {a, b, x}
    Live = {a, b}
    Visitor = {v1}
    Slot = {l1, l2}
    Ttl = 2
    Deadline = 1
INVARIANT NeverAnothersBook
