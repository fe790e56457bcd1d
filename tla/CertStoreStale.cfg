SPECIFICATION Spec
CONSTANTS
    NumSNI = 0
    AutoReload = TRUE
    MaxVersion = 2
    MaxHups = 1
    MaxEvents = 2
PROPERTIES
    NewestStays
