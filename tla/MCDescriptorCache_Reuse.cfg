\* Three submissions and two heap switches over two bind groups.
CONSTANTS
    g1 = g1
    g2 = g2
    BindGroups = {g1, g2}
    Layout <- MCLayout
    HeapSize = 3
    MaxHeaps = 2
    MaxSerial = 3
    ReuseRule = "notCompleted"
SPECIFICATION Spec
\* The application may stop binding and submitting at any point.
CHECK_DEADLOCK FALSE
INVARIANT
    DescriptorsIntact
