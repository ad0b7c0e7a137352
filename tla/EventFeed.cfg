\* Buffers of one, so that they fill; two browsers and two publishers with two
\* events each.
SPECIFICATION Spec
CONSTANTS
    Publishers = {p1, p2}
    PerPublisher = 2
    Browsers = {b1, b2}
    Cap = 1
INVARIANTS
    PublisherOrder
    FeedWhole
PROPERTIES
    PublishCompletes
    BrowserReaped
CHECK_DEADLOCK FALSE
