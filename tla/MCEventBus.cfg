SPECIFICATION FairSpec
CONSTANTS
    e1 = e1  e2 = e2  e3 = e3  f1 = f1
    analytics = analytics  uploads = uploads  accesses = accesses
    ai = ai  notification = notification
    Events = {e1, e2, e3}
    Key <- MCKey
    File <- MCFile
    Subscriptions = {analytics, uploads, accesses}
    Binding <- MCBinding
    Process <- MCProcess
    Analytics = analytics
    MaxFaults = 1
INVARIANTS TypeOK AckedTookEffect CountsAreBounded MissedOnlyIfUnbound
PROPERTIES AccessTimesAdvance CopiesSettle
CHECK_DEADLOCK FALSE
