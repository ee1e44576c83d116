SPECIFICATION GuardSpec
CONSTANTS
    Writer = {w1}
    QueueCap = 1
    QueueCritical = 1
    ArmTicks = 2
    ArmTicksPersist = 1
    DisarmTicks = 2
    MinArmTicks = 3
    Failing = {"disk"}
    o1 = o1
    o2 = o2
    Operator = {o1, o2}
    MaxOperatorCalls = 2
ACTION_CONSTRAINT CallsInOrder
INVARIANT OperatorObeyed
PROPERTY GuardSteady
CHECK_DEADLOCK FALSE
