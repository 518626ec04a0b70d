\* A manifest whose write or sync failed, and the CURRENT that names it.
SPECIFICATION Spec
CONSTANT Process = {p1, p2}
INVARIANT CurrentNamesManifest
