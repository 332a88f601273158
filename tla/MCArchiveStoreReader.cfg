SPECIFICATION Spec
CONSTANTS
    Workload <- MCWorkload
    Evaluations = {"evaluation", "evaluation of a sibling"}
    Scaffold = "scaffold"
    Forged = "forged"
    Owner = Owner
    Readers = {Reader}
INVARIANTS
    NoEventLost
