SPECIFICATION Spec
CONSTANTS
    IdCount = 4
    FirstIds <- AnyId
INVARIANTS
    TypeOK
    DestructorsFindTheirParts
    NoCallIntoDestroyed
\* The deleted plugin, and a crashed AIMP, take no further step.
CHECK_DEADLOCK FALSE
