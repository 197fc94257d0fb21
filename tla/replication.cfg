SPECIFICATION Spec
CONSTANT MaxChanges = 2
INVARIANT BundleOfOneFreshRun
PROPERTY RuntimePublishedWhole
\* Records and builds are finite.
CHECK_DEADLOCK FALSE
