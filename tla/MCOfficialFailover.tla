------------------------- MODULE MCOfficialFailover -------------------------
(* A small instance of OfficialFailover, with numbers that do not divide.    *)
EXTENDS OfficialFailover

=============================================================================
