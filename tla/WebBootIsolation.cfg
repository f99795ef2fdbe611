\* The documented promise that a missing isolation surfaces as an error.
SPECIFICATION Spec
CONSTANT MaxReloads = 2
PROPERTY MissingIsolationSurfaces
