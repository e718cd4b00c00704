----------------------------- MODULE SaltStatus -----------------------------
(***************************************************************************)
(* The exit statuses of salt (enum salt_status, include/salt.h).  They are *)
(* kept as names: no property here depends on their numeric values.        *)
(***************************************************************************)
EXTENDS Naturals

OK           == "SALT_OK"
ERR_INPUT    == "SALT_ERR_INPUT"
ERR_CRYPTO   == "SALT_ERR_CRYPTO"
ERR_INTERNAL == "SALT_ERR_INTERNAL"
ERR_IO       == "SALT_ERR_IO"
ERR_SIGNAL   == "SALT_ERR_SIGNAL"

Status == {OK, ERR_INPUT, ERR_CRYPTO, ERR_INTERNAL, ERR_IO, ERR_SIGNAL}
=============================================================================
