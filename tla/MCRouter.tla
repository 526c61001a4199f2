---------------------------- MODULE MCRouter ----------------------------
EXTENDS Router
=========================================================================
