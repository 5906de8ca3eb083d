----------------------------- MODULE MCPUEPath -----------------------------
EXTENDS PUEPath

\* The third device is of no cooling type.
ThreeDevices == 1 .. 3
TwoCooling == 1 .. 2
OneDevice == {1}
TwoPowers == {1, 2}
NormalAndHigh == {1, 3}
=============================================================================
