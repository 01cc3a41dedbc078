SPECIFICATION Spec
CONSTANTS
    Requests = {r1, r2}
    Keys = {k1}
    Slugs = {a}
    Bases = {instance}
    InstanceBase = instance
    Operations = {"publish", "patch"}
    MaxAttempts = 1
    MaxFaults = 0
    Absent = Absent
    Null = Null
PROPERTIES
    PublishedUrlIsImmutable
