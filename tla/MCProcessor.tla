---------------------------- MODULE MCProcessor ----------------------------
(* The processor with three messages, of which one may be for another      *)
(* domain or of a sender it does not serve.                                *)
EXTENDS Processor

MCTraffic == {<<"here", "elsewhere", "here">>, <<"filtered", "here">>}
=============================================================================
