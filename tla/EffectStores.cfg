\* Two runtimes and two migrations, one journal and one other path.
CONSTANTS
    Runtime = {r1, r2}
    Migrator = {m1, m2}
    Thread = {t1}
    Legacy = {x1, x2}
    Store = {old, new}
    Source = old
    None = None
SPECIFICATION Spec
INVARIANTS SingleWriter MigrationIsWhole LeasePinsStore
PROPERTY JournalsOnlyGrow
SYMMETRY Symmetry
CHECK_DEADLOCK FALSE
