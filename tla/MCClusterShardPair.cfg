SPECIFICATION Spec
CONSTANTS
    Nodes = {1, 2}
    Writers = {1, 2}
    Dials <- OneDial
    Standing = {}
    Ahead <- Even
    Plans <- OneEach
INVARIANTS ReplicasAgree
CHECK_DEADLOCK FALSE
