----------------------------- MODULE MCStartup -----------------------------
EXTENDS Startup

\* Ports, both ends of their range, numbers beyond it, and two that come
\* down on a port that is taken.
PortNumbers == {-1, 0, 80, 8080, 65535, 65536, 65616, 70000, 73616}
=============================================================================
