SPECIFICATION Spec
CONSTANTS
    Layouts <- MCLayouts
    Slots <- MCSlots
    Buses <- MCBuses
    Lengths <- MCLengths
    Masks <- MCMasks
INVARIANTS ReservationsSound BiggestSizeIsGranted
