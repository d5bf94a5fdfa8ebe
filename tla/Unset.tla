------------------------------- MODULE Unset -------------------------------
(* The value of what the database, a feed or a request does not have.       *)
CONSTANT None
=============================================================================
