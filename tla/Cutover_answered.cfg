SPECIFICATION CutoverSpec
CONSTANTS
    Admins = {a1, a2}
    Decisions = {d1}
    Nobody = Nobody
CHECK_DEADLOCK FALSE
PROPERTIES ApprovalIsAnswered
