\* A listing races an approval.
CONSTANTS
    e1 = e1  e2 = e2  z1 = z1  d1 = d1  d2 = d2  l1 = l1  w1 = w1  p1 = p1
    Requests = {d1, l1}
    Proposals = {p1}
    KindOf <- mcKindOf
    ProposalOf <- mcProposalOf
    MaxCrashes = 0
    FREE = FREE
SPECIFICATION Spec
PROPERTY ExpiresFromPending
CHECK_DEADLOCK FALSE
