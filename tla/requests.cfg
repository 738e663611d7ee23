CONSTANTS None = None Absent = Absent
SPECIFICATION Spec
INVARIANT BookingsFit
PROPERTIES WritersDoNotUndo 
