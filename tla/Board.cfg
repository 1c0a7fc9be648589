\* Two jobs in any states, one request of any kind, every combination of the
\* adapter's options; a bulk request may name both jobs, or one of them twice.
SPECIFICATION BoardSpec
CONSTANTS
  Job = {j1, j2}
  Nothing = Nothing
SYMMETRY Interchangeable
INVARIANTS
  RefusedChangesNothing
  OptionsHold
CHECK_DEADLOCK FALSE
