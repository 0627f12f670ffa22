---------------------------- MODULE MCExtractor ----------------------------
(* One section and two event names of the common pallet, two payloads:    *)
(* signatures of up to four tokens and results of up to two events cover   *)
(* missing, doubled and misplaced dots, outer and inner spaces, and a      *)
(* name occurring twice in the events.                                     *)
EXTENDS Extractor

CONSTANTS common, CollectionCreated, ItemCreated, d1, d2

MCSections == {common}
MCMethods == {CollectionCreated, ItemCreated}
MCData == {d1, d2}
=============================================================================
