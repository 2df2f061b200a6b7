SPECIFICATION Spec
CONSTANTS
    Objects = {m1, m2}
    Cells = {c1, c2, c3}
    Namespaces <- SomeNamespaces
    cpu = cpu
    Keys = {k}
    TagValues = {v, w}
    DataTypes = {NotSet}
    NotSet = NotSet
    Configs = {NoConfig}
    NoConfig = NoConfig
    Times = {0}
    Den = 2
    Nothing = Nothing
INVARIANTS
    TagsMemoFresh
