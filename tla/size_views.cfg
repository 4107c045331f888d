SPECIFICATION Spec
CONSTANTS
    c1 = c1
    c2 = c2
    c3 = c3
    c4 = c4
    v1 = v1
    v2 = v2
    Conns = {c1, c2, c3, c4}
    Control = Control
    Views = {v1, v2}
    ViewOf <- Reconnecting
    Sizes <- WideAndTall
    None = None
    Parallel = FALSE
    Legacy = TRUE
INVARIANT SizeFollowsAsks
