--------------------------- MODULE MCPromptQueue ---------------------------
(* Instances of PromptQueue for TLC.                                       *)
EXTENDS PromptQueue

\* Without the history that neither a later step nor a property of the run
\* depends on: an id that has left the queue never returns to it, a queued
\* wake is always reported, and of the prompts asked only the ones without an
\* answer matter.
mcPresent ==
  <<state, done, job, starters, inter, events, turnFlags, pin, live, minted,
    asked \ replies, started \cap IdsOf(queue), IF task = None THEN 0 ELSE ran>>
============================================================================
