---------------------------- MODULE MCAuthSession ----------------------------
(* The login session with the provider of MCJwksCache. *)
EXTENDS AuthSession, MCJwksCache
=============================================================================
