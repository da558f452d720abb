---------------------------- MODULE MCRunArchive ----------------------------
EXTENDS RunArchive
=============================================================================
