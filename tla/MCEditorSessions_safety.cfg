\* Two sessions edit an announcement, its two texts and an inquiry; one tick.
CONSTANTS
    NULL = NULL
    Sessions = {s1, s2}
    Announcements = {a1}
    Langs = {ja, en}
    Inquiries = {q1}
    Texts = {x}
    MaxTime = 1
SPECIFICATION Spec
INVARIANTS
    ReferencesHold
PROPERTIES
    ChangesCarryTheirTime
SYMMETRY Symmetry
CHECK_DEADLOCK FALSE
