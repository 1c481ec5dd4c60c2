-------------------------- MODULE MCControlEndpoint ---------------------------
(***************************************************************************)
(* An instance of ControlEndpoint: answers shorter than, equal to and      *)
(* longer than a packet, with and without the empty packet at the end;     *)
(* payloads of one packet, of two, and of more than the buffer holds.      *)
(***************************************************************************)
EXTENDS ControlEndpoint

ModelRequests ==
    { [kind |-> "in", length |-> 1, asked |-> 1],
      [kind |-> "in", length |-> 2, asked |-> 4],
      [kind |-> "in", length |-> 5, asked |-> 5],
      [kind |-> "in", length |-> 4, asked |-> 9],
      [kind |-> "out", length |-> 2, asked |-> 2],
      [kind |-> "out", length |-> 3, asked |-> 3],
      [kind |-> "out", length |-> 5, asked |-> 5],
      [kind |-> "none", length |-> 0, asked |-> 0] }
=============================================================================
