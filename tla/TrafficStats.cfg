SPECIFICATION Spec
CONSTANTS
    ChartDays = 3
    ReserveDays = 3
    MaxDay = 3
    DayStart <- MCDayStart
    MaxBytes = 1
    MaxAdds = 2
    MaxReq = 2
PROPERTIES CountersAreDaily BarsAreDated
