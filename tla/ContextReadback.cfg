SPECIFICATION LayoutSpec
INVARIANT ReadBack
CHECK_DEADLOCK FALSE
