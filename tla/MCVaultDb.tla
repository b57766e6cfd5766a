----------------------------- MODULE MCVaultDb -----------------------------
(* Small instances of VaultDb for TLC. *)
EXTENDS VaultDb

\* An expiry that is past when the credential is issued, and one beyond the
\* maximum of the role.
MCTtl == {-1, 2}
=============================================================================
