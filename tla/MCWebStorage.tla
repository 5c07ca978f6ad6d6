---------------------------- MODULE MCWebStorage ----------------------------
\* Two keys, one of which has no legacy path, and three values, enough for an
\* old, a current and a new one.
EXTENDS WebStorage
=============================================================================
