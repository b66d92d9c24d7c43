--------------------------- MODULE PackageChannel ---------------------------
(***************************************************************************)
(* What the cascade link promises in one direction: the packages written   *)
(* on one chip are read on the other, each one once, in order and with the *)
(* contents they were written with.                                        *)
(***************************************************************************)
EXTENDS Naturals, Sequences

CONSTANT Package    \* what a package may contain

VARIABLES written, read

chan == <<written, read>>

ChannelInit == written = <<>> /\ read = <<>>

Write == /\ \E p \in Package : written' = Append(written, p)
         /\ UNCHANGED read

Read == /\ Len(read) < Len(written)
        /\ read' = Append(read, written[Len(read) + 1])
        /\ UNCHANGED written

ChannelNext == Write \/ Read

ChannelSafety == ChannelInit /\ [][ChannelNext]_chan

\* nothing that was written stays unread
ChannelSpec == ChannelSafety /\ WF_chan(Read)

=============================================================================
