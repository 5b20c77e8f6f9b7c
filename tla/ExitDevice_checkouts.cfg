\* Two events of one visitor, time in units of five minutes.
SPECIFICATION FairSpec
CONSTANTS
    v1 = v1
    Events = {1, 2}
    Visits = {v1}
    VisitOf <- OneVisit
    AutoCheckout = {v1}
    NoEvent = 0
    Window = 1
    SeenTTL = 2
    MaxAdmissions = 2
INVARIANTS TypeOK ScheduledIsOwned PolledOnce SurveyOnce
PROPERTIES ExitEndsVisit
