--------------------------- MODULE MCFeedActivation ---------------------------
(* Two providers, one protected symbol.                                      *)
EXTENDS FeedActivation

StreamThenRest == <<"stream", "rest">>
=============================================================================
