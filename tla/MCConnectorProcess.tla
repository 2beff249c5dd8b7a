------------------------ MODULE MCConnectorProcess ------------------------
(***************************************************************************)
(* Two situations: a connector executable that may be a foreign one, under *)
(* a caller that may finish without taking the channel, with inputs that    *)
(* change at any time; and the repository's connector under a caller that  *)
(* takes the channel first.                                                *)
(***************************************************************************)
EXTENDS ConnectorProcess

MCScenes ==
    {[volatile |-> {"plan", "connector", "closure"}, rogue |-> TRUE,
      transferFirst |-> FALSE],
     [volatile |-> {"plan", "trust"}, rogue |-> FALSE, transferFirst |-> TRUE]}
=============================================================================
