--------------------------- MODULE MCDockerSandbox ---------------------------
EXTENDS DockerSandbox
=============================================================================
