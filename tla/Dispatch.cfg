\* Dispatcher: two of them, three building calls.  Table: a command that has
\* two names, two handlers of the new style and two of the old, two
\* registrars, one request.
\* Subjects: two processes of one service at two NATS servers.
\* Building and registering stop at their bounds.
SPECIFICATION Spec
CONSTANTS
    f1 = f1  f2 = f2  g1 = g1  g2 = g2  NoFn = NoFn  cA = cA  cB = cB
    NDisp = 2
    Cmds = {cA, cB}
    Fns = {f1, f2}
    Filters = {g1, g2}
    Prios = {1, 2}
    Verdicts <- MCVerdicts
    MaxBuild = 3
    c1 = c1  c2 = c2  o1 = o1  o2 = o2  Compat = Compat  NoHandler = NoHandler
    m1 = m1  m2 = m2  r1 = r1  r2 = r2  d1 = d1
    MsgCmds = {m1, m2}
    CmdNames = {m1, m2}
    Qualified <- MCQualified
    CtxFns = {c1, c2}
    OldFns = {o1, o2}
    Registrars = {r1, r2}
    Requests = {d1}
    MaxRegs = 3
    p1 = p1  p2 = p2  s1 = s1  e1 = e1  Number = Number
    Names = {s1}
    Marks = {p1, p2}
    NameOf <- MCNameOf
    Methods = {e1}
    Servers = {"n1", "n2"}
    ServerOf <- MCServerOf
    Monitors = {p1}
CHECK_DEADLOCK FALSE
INVARIANTS
    FiltersGuard
    HandledAsRegistered
    SubscribedIsServed
