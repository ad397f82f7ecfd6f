SPECIFICATION CxlSpec
CONSTANTS
    Layouts <- MCLayouts
    Slots <- MCSlots
    Buses <- MCBuses
    Lengths = {3}
    Masks = {0}
    Machines <- MCMachines
    MaxReservations = 3
INVARIANTS CxlBusesApart RcrbsOwned CxlIoCovered
CHECK_DEADLOCK FALSE
