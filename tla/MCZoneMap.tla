----------------------------- MODULE MCZoneMap ------------------------------
(* Five bits for a device of three zones, and two contents of a zone.      *)
EXTENDS ZoneMap

CONSTANT bytes

MCContent == {zeros, bytes}
=============================================================================
