----------------------------- MODULE MCStoryPush -----------------------------
(* A small instance of StoryPush. *)
EXTENDS StoryPush

CONSTANTS left, right\* the two tabs
=============================================================================
