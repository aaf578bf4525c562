----------------------------- MODULE MCFixture -----------------------------
(***************************************************************************)
(* Three calls of write with packets that are empty, short, as long as the  *)
(* length field allows and one longer.                                     *)
(***************************************************************************)
EXTENDS Fixture

=============================================================================
