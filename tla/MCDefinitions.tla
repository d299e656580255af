--------------------------- MODULE MCDefinitions ---------------------------
\* Bodies of a few statements, for Python 3.12.
EXTENDS Definitions
Python312 == <<3, 12>>
NoApproximation == {}
Overloads == {"overloads in branches"}
Loops == {"loops that do not run"}
Handlers == {"definitions in handlers"}
RaisingSuites == {"suites that raise"}
Patterns == {"undecided patterns"}
Versions == {"exact versions"}
=============================================================================
