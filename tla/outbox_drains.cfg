\* One process, fairly scheduled: moves, reminders, check-in and cancellation, a failing relay, a crash, a retry.
SPECIFICATION FairSpec
CONSTANTS
    Rows = 3  Leftovers = 1
    Workers = {w1}
    Events = {"move", "remind", "checkin", "cancel"}
    AttemptCap = 2  LeaseCap = 2
    MaxStart = 1  MaxCrashes = 1  MaxRetries = 1
PROPERTIES StaleMailStops QueueDrains
