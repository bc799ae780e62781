SPECIFICATION FairSpec
CONSTANTS
  Msgs = {m1, m2}
  MaxInflight = 1
  Nobody = Nobody
CHECK_DEADLOCK FALSE
INVARIANTS SlotsConserved ReconciledOnce
PROPERTY UncertainIsReconciled
