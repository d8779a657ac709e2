------------------------------ MODULE MCBrowser -----------------------------
EXTENDS Browser
=============================================================================
