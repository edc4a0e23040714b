SPECIFICATION Spec
CONSTANTS
    People = {raja}
    Calibrated = {raja}
    Rooms = {"Office", "Kitchen"}
    Threshold = 2
    Pollers = {poll}
    Callers = {post}
INVARIANTS KeyMeansRow
PROPERTIES RoomAgreed RowsAreSeen
