---------------------------- MODULE MCServerLoop ----------------------------
(* Instance of ServerLoop for the model checker. *)
EXTENDS ServerLoop, TLC

CONSTANTS k1, d1, c1, c2

MCStamp == {1001, 2001}

MCStrlen == k1 :> 3
MCDatasize == d1 :> 5 @@ NoData :> 0

(* Each kind of request is made by one of the two clients.  What OC_SIZE   *)
(* and OC_NUM_OPS carry was never set.                                     *)
MCRequests ==
  c1 :> { EntryMessage("OC_PUT", k1, [ts |-> 1001, data |-> d1]),
          KeyMessage("OC_DEL", k1),
          KeyMessage("OC_GET", k1) }
  @@ c2 :> { EntryMessage("OC_UPDATE", k1, [ts |-> 2001, data |-> NoData]),
             KeyMessage("OC_RT_GETTS", k1),
             ResultMessage("OC_SIZE", 0),
             ResultMessage("OC_NUM_OPS", -2) }

=============================================================================
