---------------------------- MODULE MCAppSession ----------------------------
\* Two apps: one with a scheduled task, one in the launcher.  Two presses in a
\* pass of the main loop and a queue of two hold a press that arrives while
\* another is handled; a stack of three fills up.  Nothing else is bounded.
EXTENDS AppSession
=============================================================================
