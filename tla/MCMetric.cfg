SPECIFICATION Spec
CONSTANTS
    Objects = {m1, m2}
    Cells = {c1, c2, c3}
    Namespaces <- SomeNamespaces
    cpu = cpu
    Keys = {k}
    TagValues = {v}
    DataTypes = {NotSet, Int}
    NotSet = NotSet
    Configs = {NoConfig}
    NoConfig = NoConfig
    Times = {0, 3}
    Den = 2
    Nothing = Nothing
SYMMETRY CellsAndObjectsAlike
INVARIANTS
    MetricInv
PROPERTIES
    ImplementsMetricValue
