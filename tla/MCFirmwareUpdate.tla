-------------------------- MODULE MCFirmwareUpdate --------------------------
(* Three images for the model checker: the one delivered, a newer one and   *)
(* an older, larger one.                                                    *)
EXTENDS FirmwareUpdate

Delivered == [name |-> "delivered", version |-> 1, parts |-> 1, short |-> FALSE]
Newer == [name |-> "newer", version |-> 2, parts |-> 2, short |-> FALSE]
Ragged == [name |-> "ragged", version |-> 1, parts |-> 2, short |-> TRUE]

MCImages == {Delivered, Newer, Ragged}
MCRagged == {Ragged}

=============================================================================
