\* One tab: every host (server headers or not, service workers or not), every
\* order of messages, failures, timeout and user reloads.
SPECIFICATION Spec
CONSTANT MaxReloads = 2
INVARIANTS
  ShellShowsWhatIsSo
  ReloadsAtMostOnce
PROPERTY BootSettles
