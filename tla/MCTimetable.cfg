SPECIFICATION Spec
CONSTANTS
    Null = Null
    Feeds <- MCFeeds
    Requests <- MCRequests
    Names <- MCNames
    Segments <- MCSegments
    Window = 300
    Day = 9
INVARIANTS
    JourneyCanBeTravelled
    JourneyIsEarliest
    OccupancyIsOfTheBusiestHour
