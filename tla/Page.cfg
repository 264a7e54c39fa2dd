\* Two sessions, two tasks, two events among what the user does and lost requests, beside a poll.
SPECIFICATION Spec
CONSTANTS
    Sessions = {s1, s2}
    Tasks = {t1, t2}
    Final = 2
    Flows = {f1, f2}
    Polls = {p1}
    MaxEvents = 2
    None = none
PROPERTIES ScreenSettles
CHECK_DEADLOCK FALSE
